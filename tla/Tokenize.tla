------------------------------ MODULE Tokenize ------------------------------
(* Tokenizing a sentence, from sentence_split() to the check of a linkage   *)
(* against the words:                                                       *)
(*  - separate_sentence() takes words from a queue; separate_word() issues  *)
(*    the alternatives of each, whose subwords are queued in turn;          *)
(*  - flatten_wordgraph() lays the graph out as an array of word slots, in  *)
(*    which a shorter alternative leaves a slot empty;                      *)
(*  - build_sentence_expressions() looks every word of a slot up;           *)
(*  - sane_linkage_morphism() is given, for each slot, the words that its   *)
(*    chosen disjunct came from (none: a null word) and must tell whether   *)
(*    they are a path of the graph.                                         *)
EXTENDS Wordgraph

CONSTANTS
  Texts,         \* pairs of a dictionary and the words of a sentence
  MaxNulls       \* bound: null words in the linkages that are looked at

VARIABLES
  text,          \* the dictionary and the sentence
  pc,            \* the stage, or how it ended
  gw,            \* the Wordgraph
  queue,         \* word_queue
  todo,          \* alternatives separate_word() still has to issue
  wp,            \* the pathpos queue of flatten_wordgraph()
  word,          \* the word array
  chosen,        \* the linkage: the originating Gwords of each slot
  wpp            \* sane_linkage_morphism(): words with the paths to them

vars == <<text, pc, gw, queue, todo, wp, word, chosen, wpp>>

dict == text.dict

(***************************************************************************)
(* separate_sentence(): the sentence words between the walls and the dummy  *)
(* words.                                                                   *)
(***************************************************************************)
Wall == [txt |-> <<"#">>, inf |-> "", sub |-> "wall"]
Dummy == [txt |-> <<"#">>, inf |-> "", sub |-> "dummy"]

(* Words are separated by one space. *)
StartOf(ws, i) == FoldLeft(+, 0, [k \in 1..(i - 1) |-> Len(ws[k]) + 1])

SentenceWords(t) ==
  LET ws == t.words
      end == StartOf(ws, Len(ws) + 1) - 1
      wall(p) == [tok |-> Wall, mt |-> "MT_WALL", start |-> p, end |-> p]
  IN  (IF t.dict.leftwall THEN <<wall(0)>> ELSE <<>>)
      \o [i \in DOMAIN ws |-> [tok |-> Token(ws[i]), mt |-> "MT_WORD",
                               start |-> StartOf(ws, i),
                               end |-> StartOf(ws, i) + Len(ws[i])]]
      \o (IF t.dict.rightwall THEN <<wall(end)>> ELSE <<>>)

add_gword(x, i, n) ==
  [gword_new(x.tok) EXCEPT
     !.unsplit = IF i = n THEN 0 ELSE Start, !.alt = Start, !.mt = x.mt,
     !.start = x.start, !.end = x.end,
     !.prev = <<i - 1>>, !.next = IF i = n THEN <<>> ELSE <<i + 1>>,
     !.step = IF x.mt = "MT_WORD" THEN "TS_INITIAL" ELSE "TS_DONE",
     !.status = IF x.mt = "MT_WALL" THEN {"WS_INDICT"} ELSE {}]

wordgraph_create(t) ==
  LET x == SentenceWords(t) \o <<[tok |-> Dummy, mt |-> "MT_INFRASTRUCTURE",
                                  start |-> 0, end |-> 0]>>
  IN  <<[gword_new(Dummy) EXCEPT !.mt = "MT_INFRASTRUCTURE", !.next = <<2>>]>>
      \o [i \in DOMAIN x |-> add_gword(x[i], i + 1, Len(x) + 1)]

(***************************************************************************)
(* separate_word(): the alternatives to issue, in order. "after" says what  *)
(* the caller does to the words it issued; "units" are the further          *)
(* alternatives, with a subscript, of the tokens of the new alternative.    *)
(***************************************************************************)
Issue(w, pre, stem, suf, repl, after, units) ==
  [of |-> w, pre |-> pre, stem |-> stem, suf |-> suf, repl |-> repl,
   after |-> after, units |-> units]

Plain(w, toks, after) == Issue(w, <<>>, toks, <<>>, FALSE, after, <<>>)

(* issue_r_stripped(): the root, if any, and the stripped tokens from left  *)
(* to right. The tokens are done; the subscripts of token i are issued      *)
(* after it, those of the last token first.                                 *)
issue_r_stripped(w, root, st) ==
  LET toks == [i \in DOMAIN st |-> st[Len(st) - i + 1][1]]
      k == IF root = <<>> THEN 0 ELSE 1
  IN  Issue(w, <<>>, (IF k = 1 THEN <<Token(root)>> ELSE <<>>) \o toks, <<>>, FALSE,
            "status", [i \in DOMAIN st |-> [pos |-> k + Len(st) - i + 1, alts |-> Tail(st[i])]])

is_capitalizable(d, g, w) ==
  LET p == g[g[w].prev[1]]
  IN  ~d.nodowncase /\ (p.mt \in {"MT_WALL", "MT_INFRASTRUCTURE"} \/ p.sub.txt \in d.capafter)

morpheme_split(d, g, w) ==
  LET t == g[w].sub.txt
      lc == is_upper(d, t) /\ is_capitalizable(d, g, w)
            /\ g[w].status \cap {"WS_SPELL", "WS_RUNON"} = {}
      alts == suffix_split(d, t) \o (IF lc THEN suffix_split(d, Downcase(d, t)) ELSE <<>>)
  IN  [i \in DOMAIN alts |-> Issue(w, alts[i].pre, alts[i].stem, alts[i].suf, FALSE, "", <<>>)]

(* guess_misspelled_word(): the run-on splits, then single guesses up to    *)
(* the limit, when all their words are known.                               *)
guess_misspelled_word(d, w, t) ==
  LET all == IF t \in DOMAIN d.spell THEN d.spell[t] ELSE <<>>
      known(s) == \A i \in DOMAIN s : is_known_word(d, s[i])
      runon == SelectSeq(all, LAMBDA s : Len(s) > 1 /\ known(s))
      guess == SelectSeq(all, LAMBDA s : Len(s) = 1 /\ known(s))
      toks(s) == [i \in DOMAIN s |-> Token(s[i])]
  IN  [i \in DOMAIN runon |-> Plain(w, toks(runon[i]), "WS_RUNON")]
      \o [i \in 1..Min({Len(guess), d.maxguess}) |->
            Issue(w, <<>>, toks(guess[i]), <<>>, TRUE, "WS_SPELL", <<>>)]

(* What stripping the ends yields: the alternatives, and whether the word   *)
(* is left at that.                                                         *)
EndAlts(d, w, t, l, r) ==
  LET left == IF l.rest = <<>> THEN l.stripped ELSE Append(l.stripped, Token(l.rest))
      ltry == IF l.rest = t THEN <<>> ELSE <<Plain(w, left, "")>>
      utry == IF r.units.un > 0 /\ r.units.uw # <<>>
                 /\ dictionary_word_is_known(d, Token(r.units.uw))
              THEN <<issue_r_stripped(w, r.units.uw, SubSeq(r.st, 1, r.units.un))>> ELSE <<>>
      rtry == IF r.st # <<>> /\ (~dictionary_word_is_known(d, Token(t)) \/ r.w = <<>>
                                  \/ dictionary_word_is_known(d, Token(r.w)))
              THEN <<issue_r_stripped(w, r.w, r.st)>> ELSE <<>>
      res(alts, stop, stuck) == [alts |-> alts, stop |-> stop, stuck |-> stuck]
  IN  IF l.rest # t /\ Len(l.stripped) >= MaxStrip - 1 THEN res(<<>>, TRUE, FALSE)
      ELSE IF l.rest = <<>> /\ Len(left) = 1 THEN res(ltry, TRUE, FALSE)
      ELSE IF r.stuck \/ Len(r.st) >= MaxStrip - 1 THEN res(ltry, TRUE, r.stuck)
      ELSE res(ltry \o utry \o rtry, FALSE, FALSE)

StripEnds(d, w, t) ==
  Only({EndAlts(d, w, t, l, r) : l \in {strip_left(d, t)}, r \in {StripLoop(d, t, <<>>)}})

(* What capitalization adds: the lower case word at the start of a          *)
(* sentence, and the word itself for the regexes.                           *)
Capitals(d, g, w, indict, split, regex) ==
  LET t == g[w].sub.txt
      lower == Token(Downcase(d, t))
      cap == is_upper(d, t) /\ is_capitalizable(d, g, w)
      lc == cap /\ dict_has_word(d, lower)
  IN  [alts |-> IF lc THEN <<Plain(w, <<lower>>, "WS_FIRSTUPPER")>> ELSE <<>>,
       lc |-> lc,
       uc |-> is_upper(d, t) /\ ~split /\ ~indict /\ (~cap \/ (lc /\ t \in d.entities)) /\ regex]

(* The spell guesses for a word that is unknown and no name.                *)
SpellGuesses(d, w, t, known) ==
  IF known \/ (\E i \in DOMAIN t : t[i] \in d.digits) \/ is_upper(d, t) THEN <<>>
  ELSE guess_misspelled_word(d, w, t)

(* The rest of separate_word(), after the ends: the middle, the morphemes,  *)
(* capitalization, the regexes and the spell guesses.                       *)
SplitOn(d, g, w, indict, ends, morph) ==
  LET t == g[w].sub.txt
      itself == Plain(w, <<g[w].sub>>, "")
      mid == split_mpunc(d, t)
      mtry == IF mid = <<>> THEN <<>> ELSE <<Plain(w, mid, "")>>
      lrm == ends \o mtry # <<>>
      split == morph # <<>>
      regex == /\ ~indict /\ (~split \/ is_contraction_word(t))
               /\ t \in d.regex
      c == Capitals(d, g, w, indict, split, regex)
      re == ~(indict \/ c.uc \/ c.lc \/ (split /\ ~is_contraction_word(t))) /\ regex
      known == indict \/ c.uc \/ c.lc \/ re \/ split
  IN  [alts |-> ends \o mtry \o morph \o c.alts
                \o (IF c.uc \/ re THEN <<itself>> ELSE <<>>)
                \o SpellGuesses(d, w, t, lrm \/ known),
       status |-> IF regex THEN {"WS_REGEX"} ELSE {}, stuck |-> FALSE]

(* The mark of a token is part of its string: no affix matches there, and a *)
(* marked token is only looked up.                                          *)
separate_word(d, g, w) ==
  LET t == g[w].sub.txt
      marked == g[w].sub.inf # "" \/ g[w].sub.sub # ""
      indict == dict_has_word(d, g[w].sub)
      own == IF indict THEN <<Plain(w, <<g[w].sub>>, "")>> ELSE <<>>
      spelt == g[w].status \cap {"WS_SPELL", "WS_RUNON"} # {}
      st == IF indict THEN {"WS_INDICT"} ELSE {}
  IN  IF marked \/ (~spelt /\ g[w].mt = "MT_CONTR")
      THEN [alts |-> own, status |-> st, stuck |-> FALSE]
      ELSE Only({IF ~spelt /\ e.stop
                 THEN [alts |-> own \o e.alts, status |-> st, stuck |-> e.stuck]
                 ELSE Only({[r EXCEPT !.alts = own \o @, !.status = @ \cup st]
                            : r \in {SplitOn(d, g, w, indict,
                                            IF spelt THEN <<>> ELSE e.alts, m)}})
                 : e \in {StripEnds(d, w, t)}, m \in {morpheme_split(d, g, w)}})

(***************************************************************************)
(* The actions of separate_sentence().                                      *)
(***************************************************************************)
Init ==
  /\ text \in Texts
  /\ gw = wordgraph_create(text)
  /\ queue = [i \in 1..(Len(gw) - 1) |-> i + 1]
  /\ pc = "tokenize"
  /\ todo = <<>> /\ wp = <<>> /\ word = <<>> /\ chosen = <<>> /\ wpp = <<>>

Head1 == queue[1]

(* A word from the queue is separated, unless that is done. *)
SeparateWord ==
  /\ pc = "tokenize" /\ queue # <<>>
  /\ gw[Head1].step = "TS_INITIAL"
  /\ \E s \in {separate_word(dict, gw, Head1)} :
         /\ gw' = [gw EXCEPT ![Head1].status = @ \cup s.status, ![Head1].step = "TS_DONE"]
         /\ todo' = s.alts
         /\ pc' = IF s.stuck THEN "spin" ELSE IF s.alts = <<>> THEN "tokenize" ELSE "issue"
  /\ UNCHANGED <<text, queue, wp, word, chosen, wpp>>

(* What the caller of issue_word_alternative() does to the new words n.     *)
After(g, n, after) ==
  [i \in DOMAIN g |->
     IF i \notin n THEN g[i]
     ELSE CASE after = "status" -> set_word_status(dict, g[i])
            [] after = "done" -> tokenization_done(dict, g[i])
            [] after \in {"WS_RUNON", "WS_SPELL", "WS_FIRSTUPPER"} ->
                 [g[i] EXCEPT !.status = @ \cup {after}]
            [] OTHER -> g[i]]

(* The next alternative; a unit's subscripts follow at once. *)
IssueAlternative ==
  /\ pc = "issue" /\ todo # <<>>
  /\ \E r \in {issue_word_alternative(dict, gw, queue, todo[1])} :
     LET is == todo[1]
         f == Len(gw)
         new == IF r.id = is.of THEN {is.of} ELSE (f + 1)..Len(r.gw)
         tok(i) == f + is.units[i].pos
         done == IF r.id = 0 THEN {} ELSE {tok(i) : i \in DOMAIN is.units}
         g == After(r.gw, new, is.after)
         more(i) == [k \in DOMAIN is.units[i].alts |->
                       Issue(tok(i), <<>>, <<is.units[i].alts[k]>>, <<>>, TRUE, "done", <<>>)]
     IN  /\ gw' = [i \in DOMAIN g |-> IF i \in done THEN [g[i] EXCEPT !.step = "TS_DONE"]
                                      ELSE g[i]]
         /\ queue' = r.queue
         /\ todo' = (IF r.id = 0 THEN <<>>
                     ELSE FlattenSeq([i \in DOMAIN is.units |-> more(i)])) \o Tail(todo)
         /\ pc' = IF todo' = <<>> THEN "tokenize" ELSE "issue"
  /\ UNCHANGED <<text, wp, word, chosen, wpp>>

(* remqueue_gword(): a word that is also an alternative of itself gets back *)
(* into the graph; then it leaves the queue.                                *)
RemQueue ==
  /\ pc = "tokenize" /\ queue # <<>>
  /\ LET g == gw[Head1]
         r == issue_word_alternative(dict, gw, queue, Plain(Head1, <<g.sub>>, ""))
     IN  /\ g.step = "TS_DONE"
         /\ gw' = IF g.issued /\ "WS_HASALT" \in g.status /\ "WS_UNSPLIT" \notin g.status
                  THEN r.gw ELSE gw
  /\ queue' = Tail(queue)
  /\ UNCHANGED <<text, pc, todo, wp, word, chosen, wpp>>

(***************************************************************************)
(* flatten_wordgraph(). wordgraph_pathpos_add() keeps the pathpos queue in  *)
(* decreasing order of depth, and asserts that it does not hold two words   *)
(* of the same alternative. q is a queue, ok whether no assertion failed.   *)
(***************************************************************************)
wordgraph_pathpos_add(r, p, used, same) ==
  LET at == {k \in DOMAIN r.q : r.q[k].word = p}
      seen == IF at = {} THEN DOMAIN r.q ELSE 1..(Min(at) - 1)
      shallower == {k \in DOMAIN r.q : hier_depth(gw, p) >= hier_depth(gw, r.q[k].word)}
      k == IF shallower = {} THEN Len(r.q) + 1 ELSE Min(shallower)
  IN  [ok |-> /\ r.ok
              /\ \A j \in seen : \/ same \/ r.q[j].same
                                 \/ ~in_same_alternative(gw, p, r.q[j].word),
       q |-> IF at # {} THEN r.q
             ELSE InsertAt(r.q, k, [word |-> p, same |-> same, used |-> used])]

AddNexts(r, w) ==
  FoldLeft(LAMBDA a, n : Only({wordgraph_pathpos_add(b, n, FALSE, FALSE) : b \in {a}}),
           r, gw[w].next)

(* All words are separated: some word besides the walls must be there.      *)
QueueEmpty ==
  /\ pc = "tokenize" /\ queue = <<>>
  /\ pc' = IF \E i \in Connected(gw) : gw[i].mt \notin {"MT_WALL", "MT_INFRASTRUCTURE"}
           THEN "flatten" ELSE "nowords"
  /\ wp' = AddNexts([q |-> <<>>, ok |-> TRUE], Start).q
  /\ UNCHANGED <<text, gw, queue, todo, word, chosen, wpp>>

IsDummy(w) == gw[w].mt = "MT_INFRASTRUCTURE"

NextOk(w) == \E n \in ToSet(gw[w].next) :
               hier_depth(gw, w) <= hier_depth(gw, n) /\ Len(gw[n].prev) = 1

(* First the words that lead into their own alternative; then the others,   *)
(* unless a word of the same alternative as their next word is already      *)
(* there: then they stay for the next slot.                                 *)
AdvanceOk(r, e) ==
  IF ~IsDummy(e.word) /\ NextOk(e.word) THEN AddNexts(r, e.word) ELSE r

AdvanceAnyway(r, e) ==
  IF IsDummy(e.word) \/ NextOk(e.word) THEN r ELSE AddNexts(r, e.word)

AdvanceRest(r, e) ==
  LET same == \E n \in ToSet(gw[e.word].next), k \in DOMAIN r.q :
                r.q[k].word # n /\ in_same_alternative(gw, r.q[k].word, n)
  IN  IF IsDummy(e.word) \/ NextOk(e.word) THEN r
      ELSE IF same THEN wordgraph_pathpos_add(r, e.word, TRUE, TRUE)
      ELSE AddNexts(r, e.word)

(* The slot that the words of the queue fill; a word that is there again    *)
(* makes it optional.                                                       *)
Slot ==
  LET words == SelectSeq(wp, LAMBDA e : ~IsDummy(e.word) /\ ~e.same)
      first == wp[1].word
  IN  [gwords |-> [i \in DOMAIN words |-> words[i].word],
       optional |-> \E i \in DOMAIN wp : wp[i].same /\ ~IsDummy(wp[i].word),
       unsplit |-> IF IsDummy(first) THEN 0 ELSE wg_get_sentence_word(gw, first),
       x |-> <<>>]

FlattenSlot ==
  /\ pc = "flatten"
  /\ LET slot == Slot
         none == [q |-> <<>>, ok |-> TRUE]
         one == FoldLeft(LAMBDA a, e : Only({AdvanceOk(b, e) : b \in {a}}), none, wp)
         two == Only({FoldLeft(LAMBDA a, e : Only({AdvanceRest(b, e) : b \in {a}}), r, wp)
                      : r \in {one}})
         ok == /\ two.ok /\ two.q # <<>>
               /\ Len(word) < Len(gw) - 1
               /\ \A i \in DOMAIN wp : ~wp[i].same => ~wp[i].used
         done == Len(two.q) = 1 /\ IsDummy(two.q[1].word)
     IN  /\ word' = Append(word, slot)
         /\ wp' = two.q
         /\ gw' = [i \in DOMAIN gw |->
                     IF i \in ToSet(slot.gwords) THEN [gw[i] EXCEPT !.idx = Len(word) + 1]
                     ELSE IF done /\ two.q[1].word = i THEN [gw[i] EXCEPT !.idx = Len(word) + 2]
                     ELSE gw[i]]
         /\ pc' = IF ~ok THEN "abort" ELSE IF done THEN "lookup" ELSE "flatten"
  /\ UNCHANGED <<text, queue, todo, chosen, wpp>>

(***************************************************************************)
(* build_sentence_expressions(): each word of a slot by the dictionary, by  *)
(* its regex, or as an unknown word. A word that has an empty-word          *)
(* connector gives the words of the slot before it the other end.           *)
(***************************************************************************)
determine_word_expressions(w) ==
  [gw |-> w, zzz |-> FALSE,
   by |-> IF "WS_INDICT" \in gw[w].status THEN "dict"
          ELSE IF "WS_REGEX" \in gw[w].status THEN "regex"
          ELSE IF dict.unknown THEN "unknown" ELSE "none"]

NeedsZZZ(i) == i > 1 /\ i <= Len(word)
               /\ \E k \in DOMAIN word[i].gwords : gw[word[i].gwords[k]].sub \in dict.zzz

BuildExpressions ==
  /\ pc = "lookup"
  /\ LET x(i) == [k \in DOMAIN word[i].gwords |->
                    LET e == determine_word_expressions(word[i].gwords[k])
                    IN  IF NeedsZZZ(i + 1) /\ gw[word[i].gwords[1]].mt # "MT_WALL"
                        THEN [e EXCEPT !.zzz = TRUE] ELSE e]
     IN  /\ word' = [i \in DOMAIN word |-> [word[i] EXCEPT !.x = x(i)]]
         /\ pc' = IF \E i \in DOMAIN word : \E k \in DOMAIN x(i) : x(i)[k].by = "none"
                  THEN "unknown" ELSE "sane"
  /\ \E nc \in 0..MaxNulls :
       wpp' = [nc |-> nc, nulls |-> 0,
               q |-> [k \in DOMAIN gw[Start].next |->
                        [word |-> gw[Start].next[k], path |-> <<>>]]]
  /\ UNCHANGED <<text, gw, queue, todo, wp, chosen>>

(***************************************************************************)
(* sane_linkage_morphism(). wordgraph_path_append() keeps one path to each  *)
(* word, the one that got there first unless it is the longer one.          *)
(***************************************************************************)
wordgraph_path_append(q, path, cur, p) ==
  LET at == {k \in DOMAIN q : q[k].word = p}
      k == CHOOSE j \in at : TRUE
      idx(s) == gw[Last(s)].idx
      e == [word |-> p, path |-> IF p = cur THEN path ELSE Append(path, cur)]
  IN  IF at = {} THEN Append(q, e)
      ELSE IF path # <<>> /\ idx(q[k].path) <= idx(path) THEN q
      ELSE [q EXCEPT ![k] = e]

AppendNexts(q, e) ==
  FoldLeft(LAMBDA a, n : Only({wordgraph_path_append(b, e.path, e.word, n) : b \in {a}}),
           q, gw[e.word].next)

SkipsAtEnd(e, i) == IsDummy(e.word)

(* A path that has no word in this slot.                                    *)
Skips(e, i) == IsDummy(e.word) \/ gw[e.word].idx > i

NullStep(i) ==
  FoldLeft(LAMBDA a, e : Only({IF Skips(e, i)
                               THEN wordgraph_path_append(b, e.path, e.word, e.word)
                               ELSE AppendNexts(b, e) : b \in {a}}), <<>>, wpp.q)

WordStep(o) ==
  FoldLeft(LAMBDA a, e : Only({IF e.word \in o THEN AppendNexts(b, e) ELSE b : b \in {a}}),
           <<>>, wpp.q)

(* The disjunct of a slot came from all the words of the slot with the same *)
(* string (duplicate disjuncts are merged), or there is none.               *)
Origins(i) ==
  LET g == ToSet(word[i].gwords)
  IN  {{}} \cup {{h \in g : gw[h].sub = gw[w].sub} : w \in g}

SaneWord(o) ==
  /\ pc = "sane" /\ Len(chosen) < Len(word)
  /\ LET i == Len(chosen) + 1
         skip == \E k \in DOMAIN wpp.q : Skips(wpp.q[k], i)
         nulls == IF o = {} /\ ~skip THEN wpp.nulls + 1 ELSE wpp.nulls
         extra == nulls > wpp.nc /\ wpp.nc # Len(word) - 1
         q == IF o = {} THEN NullStep(i) ELSE WordStep(o)
     IN  /\ o \in Origins(i)
         /\ chosen' = Append(chosen, o)
         /\ wpp' = [wpp EXCEPT !.q = q, !.nulls = nulls]
         /\ pc' = IF o = {} /\ skip /\ ~word[i].optional THEN "abort"
                  ELSE IF (o = {} /\ extra) \/ q = <<>> THEN "rejected" ELSE "sane"
  /\ UNCHANGED <<text, gw, queue, todo, wp, word>>

SaneEnd ==
  /\ pc = "sane" /\ Len(chosen) = Len(word)
  /\ LET ends == {k \in DOMAIN wpp.q : IsDummy(wpp.q[k].word)}
         bad == wpp.nulls # wpp.nc /\ wpp.nc # Len(word) - 1 /\ wpp.nulls # Len(word)
     IN  /\ pc' = IF ends = {} \/ bad THEN "rejected" ELSE "accepted"
         /\ wpp' = IF ends = {} THEN wpp ELSE [wpp EXCEPT !.q = <<wpp.q[Min(ends)]>>]
  /\ UNCHANGED <<text, gw, queue, todo, wp, word, chosen>>

(* The end, or a loop that strip_right() does not leave. *)
Stays ==
  /\ pc \in {"nowords", "abort", "unknown", "accepted", "rejected", "spin"}
  /\ UNCHANGED vars

Next ==
  \/ SeparateWord \/ IssueAlternative \/ RemQueue \/ QueueEmpty
  \/ FlattenSlot \/ BuildExpressions
  \/ \E i \in DOMAIN word : \E o \in Origins(i) : i = Len(chosen) + 1 /\ SaneWord(o)
  \/ SaneEnd \/ Stays

Spec == Init /\ [][Next]_vars /\ WF_vars(Next)

(***************************************************************************)
(* Properties.                                                              *)
(***************************************************************************)
(* The letters of the sentence.                                            *)
Sentence == FoldLeft(LAMBDA s, w : IF s = <<>> THEN w ELSE s \o <<" ">> \o w, <<>>, text.words)

(* A part of a spell guess stands for the whole guess, which is in place of *)
(* the word that was guessed; any other word stands for itself.             *)
RECURSIVE Whole(_)
Whole(i) ==
  IF "WS_SPELL" \in gw[i].status /\ "WS_SPELL" \in gw[gw[i].unsplit].status
  THEN Whole(gw[i].unsplit) ELSE i

(* What the word r may say: a guess for the word that it replaces, or the   *)
(* letters that it covers.                                                  *)
Meant(r) ==
  IF "WS_SPELL" \in gw[r].status
  THEN {s[1] : s \in {g \in ToSet(dict.spell[gw[gw[r].unsplit].sub.txt]) : Len(g) = 1}}
  ELSE {SubSeq(Sentence, gw[r].start + 1, gw[r].end)}

(* What the words of a path say that stand for r.                           *)
Said(p, r) ==
  FlattenSeq([k \in DOMAIN SelectSeq(p, LAMBDA i : Whole(i) = r) |->
                gw[SelectSeq(p, LAMBDA i : Whole(i) = r)[k]].sub.txt])

Reads(p, r) ==
  \E t \in Meant(r) : Said(p, r) = t \/ (is_upper(dict, t) /\ Said(p, r) = Downcase(dict, t))

(* From one word of a path to the next: no letter is between two words made *)
(* of one sentence word, and a space between words made of two.             *)
Joins(i, j) ==
  \/ Whole(i) = Whole(j)
  \/ /\ gw[Whole(i)].end <= gw[Whole(j)].start
     /\ SubSeq(Sentence, gw[Whole(i)].end + 1, gw[Whole(j)].start) =
          IF wg_get_sentence_word(gw, i) = wg_get_sentence_word(gw, j) THEN <<>> ELSE <<" ">>

(* A path without the walls and the dummy words.                            *)
WordsOf(p) == SelectSeq(p, LAMBDA i : gw[i].mt \notin {"MT_WALL", "MT_INFRASTRUCTURE"})

Spells(p) ==
  \E ws \in {WordsOf(p)} :
    /\ ws # <<>> /\ gw[Whole(ws[1])].start = 0 /\ gw[Whole(Last(ws))].end = Len(Sentence)
    /\ \A k \in 1..(Len(ws) - 1) : Joins(ws[k], ws[k + 1])
    /\ \A r \in {Whole(ws[k]) : k \in DOMAIN ws} : Reads(ws, r)

(* After every alternative that is issued, and after every word that leaves *)
(* the queue, the "next" and "prev" links of the words in the graph agree,  *)
(* and the words of every path between the dummy words spell the sentence   *)
(* from its first letter to its last: each says the letters it covers (a    *)
(* capital may be in lower case), or is a spell guess for them, and the     *)
(* next one starts where it ends, or after the space there.                 *)
WordgraphSpells ==
  pc \in {"tokenize", "issue", "flatten"} =>
    \A paths \in {Paths(gw)} : \A words \in {UNION {ToSet(p) : p \in paths}} :
      /\ \A i, j \in words : j \in ToSet(gw[i].next) <=> i \in ToSet(gw[j].prev)
      /\ \A i \in words : IsInjective(gw[i].next) /\ IsInjective(gw[i].prev)
      /\ \A p \in paths : Spells(p)

(* In the word array every path of the graph takes its words from slots in  *)
(* strictly increasing order, every word of the graph is in one slot, and   *)
(* a slot that some path leaves out is marked optional. No assertion of     *)
(* flatten_wordgraph() or sane_linkage_morphism() fails.                    *)
SlotsFollowPaths ==
  /\ pc # "abort"
  /\ pc = "lookup" =>
       \A p \in Paths(gw) :
         /\ \A k \in 2..(Len(p) - 1) : gw[p[k]].idx < gw[p[k + 1]].idx
         /\ \A k \in 2..(Len(p) - 1) : p[k] \in ToSet(word[gw[p[k]].idx].gwords)
         /\ \A i \in DOMAIN word :
              (\A k \in 2..(Len(p) - 1) : gw[p[k]].idx # i) => word[i].optional

(* A linkage's words on a path: the path has a word of every slot that has  *)
(* a disjunct, and it is one the disjunct came from.                        *)
Follows(p) ==
  \A i \in DOMAIN chosen :
    chosen[i] # {} => \E k \in 2..(Len(p) - 1) : gw[p[k]].idx = i /\ p[k] \in chosen[i]

NullWords(p) ==
  {k \in 2..(Len(p) - 1) : gw[p[k]].idx <= Len(chosen) /\ chosen[gw[p[k]].idx] = {}}

(* sane_linkage_morphism() accepts a linkage only with a path of the graph  *)
(* that its disjuncts follow, so no linkage mixes two ways to split a word, *)
(* and only if no such path has fewer null words than the sentence; and it  *)
(* rejects no complete linkage of a path.                                   *)
SaneIsPath ==
  pc \in {"accepted", "rejected"} =>
    \A paths \in {{p \in Paths(gw) : Follows(p)}} :
      /\ pc = "accepted" =>
           /\ <<Start>> \o wpp.q[1].path \o <<wpp.q[1].word>> \in paths
           /\ \A p \in paths : Cardinality(NullWords(p)) >= Min({wpp.nc, Len(word) - 2})
      /\ pc = "rejected" /\ wpp.nc = 0 => \A p \in paths : NullWords(p) # {}

=============================================================================
