----------------------------- MODULE Wordgraph -----------------------------
(* The Wordgraph: every way to take the words of a sentence apart, as       *)
(* parallel paths between two dummy words. A Gword is a record in the       *)
(* sequence "gw" (its chain_next order; its index stands for the pointer,   *)
(* 0 for NULL), with the fields of Gword_struct. The operators here take    *)
(* and return such sequences.                                               *)
EXTENDS Affixes, FiniteSetsExt

CONSTANT MaxSplits       \* MAX_SPLITS: nested splits of one word

(* The dummy word that starts the graph is the first one made. *)
Start == 1

gword_new(t) ==
  [sub |-> t, unsplit |-> 0, alt |-> 0, prev |-> <<>>, next |-> <<>>,
   status |-> {}, step |-> "TS_INITIAL", mt |-> "MT_NOT_SET", issued |-> FALSE,
   splits |-> 0, start |-> 0, end |-> 0, idx |-> 0]

(* regex_guess() and set_word_status(WS_INDICT|WS_REGEX). *)
set_word_status(d, g) ==
  IF g.status \cap {"WS_INDICT", "WS_REGEX"} # {} THEN g
  ELSE IF dict_has_word(d, g.sub) THEN [g EXCEPT !.status = @ \cup {"WS_INDICT"}]
  ELSE IF dictionary_word_is_known(d, g.sub)
       THEN [g EXCEPT !.status = @ \cup {"WS_REGEX"}]
  ELSE g

tokenization_done(d, g) == [set_word_status(d, g) EXCEPT !.step = "TS_DONE"]

(***************************************************************************)
(* issue_word_alternative(). An issue "is" names the word "of" that it is   *)
(* an alternative of, its prefix, stem and suffix texts, and whether the    *)
(* tokens replace the word rather than spell it. First the tokens of the    *)
(* alternative, with their morpheme types.                                  *)
(***************************************************************************)
Marked(d, is, u) ==
  LET contr == is_contraction_word(u.sub.txt)
      pre(t) == [tok |-> [Token(t) EXCEPT !.inf = IF d.infix THEN "pre" ELSE ""],
                 mt |-> IF contr THEN "MT_CONTR" ELSE "MT_PREFIX", last |-> d.infix]
      stem(t) == [tok |-> t, last |-> t.sub \in ToSet(d.stemsubscr),
                  mt |-> IF t.sub \in ToSet(d.stemsubscr) THEN "MT_STEM"
                         ELSE IF is_afdict_punc(d, t) THEN "MT_PUNC" ELSE "MT_WORD"]
      suf(t) == IF (t # <<>> /\ t[1] \notin d.alpha) \/ ~d.infix
                THEN [tok |-> Token(t), last |-> FALSE,
                      mt |-> IF contr THEN "MT_CONTR" ELSE "MT_WORD"]
                ELSE [tok |-> [Token(t) EXCEPT !.inf = "suf"], mt |-> "MT_SUFFIX",
                      last |-> TRUE]
  IN  [i \in DOMAIN is.pre |-> pre(is.pre[i])]
      \o [i \in DOMAIN is.stem |-> stem(is.stem[i])]
      \o [i \in DOMAIN is.suf |-> suf(is.suf[i])]

(* The word itself, that has other alternatives, gets back into the graph   *)
(* between the words it still has as its neighbours.                        *)
Reconnect(gw, u) ==
  [i \in DOMAIN gw |->
     LET g == gw[i]
         n == IF i \in ToSet(gw[u].prev) THEN [g EXCEPT !.next = Append(@, u)] ELSE g
         p == IF i \in ToSet(gw[u].next) THEN [n EXCEPT !.prev = Append(@, u)] ELSE n
     IN  IF i = u THEN [p EXCEPT !.status = @ \cup {"WS_UNSPLIT", "WS_HASALT"},
                                 !.issued = TRUE]
         ELSE p]

RelinkAll(list, u, s, hasalt) == Append(list, s)

(* Neighbours of word u get s as their neighbour: instead of u for the      *)
(* first alternative, beside u's other alternatives for the next ones.      *)
Relink(list, u, s, hasalt) ==
  IF hasalt THEN Append(list, s)
  ELSE [k \in DOMAIN list |-> IF list[k] = u THEN s ELSE list[k]]

(* The new subwords f..f+n-1 of word u, in their places in the graph.       *)
Subword(d, is, gw, toks, k) ==
  LET u == gw[is.of]
      f == Len(gw) + 1
      n == Len(toks)
      at == u.start + FoldLeft(+, 0, [i \in 1..(k - 1) |-> Len(toks[i].tok.txt)])
      last == \E i \in 1..k : toks[i].last
      g == [gword_new(toks[k].tok) EXCEPT
              !.unsplit = is.of, !.alt = f, !.splits = u.splits + 1,
              !.mt = toks[k].mt,
              !.prev = IF k = 1 THEN u.prev ELSE <<f + k - 2>>,
              !.next = IF k = n THEN u.next ELSE <<f + k>>,
              !.start = IF is.repl THEN u.start ELSE at,
              !.end = IF is.repl THEN u.end ELSE at + Len(toks[k].tok.txt)]
      done == IF g.mt = "MT_PUNC" THEN tokenization_done(d, g) ELSE g
      fixed == IF last /\ ~d.presuf
               THEN [done EXCEPT !.status = @ \cup {"WS_INDICT"}, !.step = "TS_DONE"]
               ELSE done
  IN  [fixed EXCEPT !.status = @ \cup (u.status \cap {"WS_SPELL", "WS_RUNON"})
                               \cup (IF k = 1 THEN u.status \cap {"WS_FIRSTUPPER"} ELSE {})]

Insert(d, is, gw, toks) ==
  LET u == gw[is.of]
      f == Len(gw) + 1
      hasalt == "WS_HASALT" \in u.status
      new == [k \in DOMAIN toks |-> Subword(d, is, gw, toks, k)]
      old(i) ==
        LET g == gw[i]
            n == IF i \in ToSet(u.prev)
                 THEN [g EXCEPT !.next = Relink(@, is.of, f, hasalt)] ELSE g
            p == IF i \in ToSet(u.next)
                 THEN [n EXCEPT !.prev = Relink(@, is.of, f + Len(toks) - 1, hasalt)]
                 ELSE n
        IN  IF i = is.of THEN [p EXCEPT !.status = @ \cup {"WS_HASALT"}] ELSE p
  IN  [i \in DOMAIN gw |-> old(i)] \o new

(* The graph and the word queue after the issue, and the alternative_id     *)
(* that is returned: 0 for NULL. A word never queues itself again.          *)
issue_word_alternative(d, gw, queue, is) ==
  LET u == gw[is.of]
      toks == Marked(d, is, u)
      itself == Len(toks) = 1 /\ toks[1].tok = u.sub
      res(g, q, r) == [gw |-> g, queue |-> q, id |-> r]
      new == SelectSeq([k \in DOMAIN toks |-> Len(gw) + k],
                       LAMBDA i : toks[i - Len(gw)].tok # u.sub)
  IN  IF u.splits > MaxSplits
      THEN res([gw EXCEPT ![is.of].step = "TS_DONE"], queue, 0)
      ELSE IF itself /\ "WS_HASALT" \notin u.status
      THEN res([gw EXCEPT ![is.of].issued = TRUE], queue, is.of)
      ELSE IF itself /\ "WS_UNSPLIT" \in u.status
      THEN res([gw EXCEPT ![is.of].issued = TRUE], queue, 0)
      ELSE IF itself THEN res(Reconnect(gw, is.of), queue, u.alt)
      ELSE res(Insert(d, is, gw, toks), queue \o new, Len(gw) + 1)

(***************************************************************************)
(* The hierarchy position of a word: the unsplit words and the alternatives *)
(* that lead to it from its sentence word.                                  *)
(***************************************************************************)
find_real_unsplit_word(gw, w, leaf) ==
  IF gw[w].unsplit = 0 \/ (leaf /\ "WS_UNSPLIT" \in gw[w].status) THEN w
  ELSE gw[w].unsplit

RECURSIVE Ancestors(_, _)
Ancestors(gw, w) == IF w = 0 THEN 0 ELSE 1 + Ancestors(gw, gw[w].unsplit)

hier_depth(gw, w) == Ancestors(gw, find_real_unsplit_word(gw, w, TRUE)) - 1

RECURSIVE HierPairs(_, _, _, _)
HierPairs(gw, w, leaf, n) ==
  IF n = 0 THEN <<>>
  ELSE LET u == find_real_unsplit_word(gw, w, leaf)
       IN  HierPairs(gw, u, FALSE, n - 1) \o <<u, gw[w].alt>>

wordgraph_hier_position(gw, w) == HierPairs(gw, w, TRUE, hier_depth(gw, w))

(* At the first difference of the two positions, an unsplit word (or the    *)
(* end) means the same alternative, another alternative_id does not.        *)
in_same_alternative(gw, w1, w2) ==
  LET h1 == wordgraph_hier_position(gw, w1)
      h2 == wordgraph_hier_position(gw, w2)
      same == {i \in 0..Min({Len(h1), Len(h2)}) :
                 \A j \in 1..i : h1[j] = h2[j]}
  IN  Max(same) % 2 = 0

RECURSIVE wg_get_sentence_word(_, _)
wg_get_sentence_word(gw, w) ==
  IF gw[w].unsplit = Start THEN w ELSE wg_get_sentence_word(gw, gw[w].unsplit)

(***************************************************************************)
(* The connected words, and the paths of the graph, for the properties.     *)
(***************************************************************************)
RECURSIVE PathsFrom(_, _)
PathsFrom(gw, w) ==
  IF gw[w].next = <<>> THEN {<<w>>}
  ELSE UNION {{<<w>> \o p : p \in PathsFrom(gw, n)} : n \in ToSet(gw[w].next)}

Paths(gw) == PathsFrom(gw, Start)

Connected(gw) == UNION {ToSet(p) : p \in Paths(gw)}
=============================================================================
