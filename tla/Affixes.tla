------------------------------ MODULE Affixes ------------------------------
(* The ways in which the tokenizer takes one word apart: stripping          *)
(* punctuation and units from its ends, splitting it at punctuation in its  *)
(* middle, and splitting it to prefix, stem and suffix.                     *)
(*                                                                          *)
(* A text is a sequence of letters. A token is a text with the marks the    *)
(* tokenizer gives it: the infix mark before a suffix or after a prefix,    *)
(* and the subscript of a stem or a unit. A dictionary d is a record: its   *)
(* words (tokens), the texts its regexes recognise, and the affix classes,  *)
(* sequences of tokens in the order in which the code scans them. A         *)
(* punctuation regex matches a fixed text here, as one more affix.          *)
EXTENDS Naturals, SequencesExt

CONSTANTS
  MaxStrip,      \* MAX_STRIP: affixes stripped from one side of a word
  MaxStripAlt    \* MAX_STRIP_ALT: 1 + subscripts of one unit

(* The element of a one-element set. {e(x) : x \in {v}} has v evaluated     *)
(* once, where a LET definition may be evaluated at every use.              *)
Only(S) == CHOOSE x \in S : TRUE

Token(t) == [txt |-> t, inf |-> "", sub |-> ""]

(* A word without a subscript matches every subscript of the dictionary.    *)
dict_has_word(d, t) ==
  \E x \in d.words : x.txt = t.txt /\ x.inf = t.inf /\ t.sub \in {"", x.sub}

dictionary_word_is_known(d, t) ==
  dict_has_word(d, t) \/ (t.inf = "" /\ t.sub = "" /\ t.txt \in d.regex)

EndsWith(w, s) == Len(s) <= Len(w) /\ SubSeq(w, Len(w) - Len(s) + 1, Len(w)) = s

is_contraction_word(t) == \E i \in DOMAIN t : t[i] = "'"

is_afdict_punc(d, t) ==
  \E c \in {d.lpunc, d.rpunc, d.mpunc} : \E i \in DOMAIN c : c[i] = t

is_upper(d, t) == t # <<>> /\ t[1] \in DOMAIN d.lower
Downcase(d, t) == [t EXCEPT ![1] = d.lower[@]]

(***************************************************************************)
(* strip_left(): the first affix of LPUNC that starts the word, again and   *)
(* again, up to MaxStrip - 1 of them.                                       *)
(***************************************************************************)
RECURSIVE StripLeft(_, _, _)
StripLeft(d, w, stripped) ==
  LET m == {i \in DOMAIN d.lpunc : IsPrefix(d.lpunc[i].txt, w)}
      i == CHOOSE j \in m : \A k \in m : j <= k
      now == Append(stripped, d.lpunc[i])
      rest == SubSeq(w, Len(d.lpunc[i].txt) + 1, Len(w))
  IN  IF m = {} THEN [stripped |-> stripped, rest |-> w]
      ELSE IF Len(now) >= MaxStrip - 1 THEN [stripped |-> now, rest |-> rest]
      ELSE StripLeft(d, rest, now)

strip_left(d, w) == StripLeft(d, w, <<>>)

(***************************************************************************)
(* strip_right(). What is stripped is a sequence, from right to left, of    *)
(* sequences: the bare affix, then the subscripted ones that share it, at   *)
(* most MaxStripAlt - 1. A unit that has more of them is stripped again     *)
(* and again without getting shorter: the result says so in "stuck".        *)
(***************************************************************************)
SameBase(list, i) ==
  {k \in i..Len(list) : \A j \in i..k : list[j].txt = list[i].txt}

AffixGroup(list, i) ==
  LET g == SameBase(list, i)
  IN  IF list[i].sub = "" THEN <<list[i]>>
      ELSE <<Token(list[i].txt)>> \o [k \in 1..Cardinality(g) |-> list[i + k - 1]]

FirstSuffix(list, w) ==
  LET m == {i \in DOMAIN list : EndsWith(w, list[i].txt)}
  IN  IF m = {} THEN 0 ELSE CHOOSE j \in m : \A k \in m : j <= k

RECURSIVE StripRight(_, _, _, _)
StripRight(list, w, st, rootdigit) ==
  Only({LET rest == SubSeq(w, 1, Len(w) - Len(list[i].txt))
            now == Append(st, AffixGroup(list, i))
        IN  IF i = 0 THEN [rest |-> w, st |-> st, stuck |-> FALSE]
            ELSE IF Len(AffixGroup(list, i)) > MaxStripAlt
                 THEN [rest |-> w, st |-> st, stuck |-> rootdigit /\ w # <<>>]
            ELSE IF rest # <<>> /\ rootdigit /\ Len(now) < MaxStrip
                 THEN StripRight(list, rest, now, rootdigit)
            ELSE [rest |-> rest, st |-> now, stuck |-> FALSE]
        : i \in {FirstSuffix(list, w)}})

strip_right(d, list, w, st, rootdigit) ==
  LET no == [ok |-> FALSE, w |-> w, st |-> st, stuck |-> FALSE]
  IN  IF Len(st) >= MaxStrip - 1 THEN no
      ELSE Only({IF r.stuck THEN [no EXCEPT !.stuck = TRUE]
                 ELSE IF r.rest = <<>> /\ Len(r.st) = Len(st) + 1 THEN no
                 ELSE IF rootdigit /\ r.rest # <<>> /\ Last(r.rest) \notin d.digits THEN no
                 ELSE [ok |-> Len(r.st) > Len(st), w |-> r.rest, st |-> r.st,
                       stuck |-> FALSE]
                 : r \in {StripRight(list, w, st, rootdigit)}})

(***************************************************************************)
(* The right-strip loop of separate_word(): one punctuation when it leaves  *)
(* a dictionary word, else all the units, else one punctuation, until a     *)
(* dictionary word, nothing, or units were found. "uw" and "un" are the     *)
(* word before its units were stripped, and how much was stripped then.     *)
(***************************************************************************)
RECURSIVE StripLoop(_, _, _)
StripLoop(d, w, st) ==
  LET none == [uw |-> <<>>, un |-> 0]
      end(r) == [w |-> r.w, st |-> r.st, units |-> none, stuck |-> FALSE]
  IN  Only({IF p.ok /\ dict_has_word(d, Token(p.w)) THEN end(p)
            ELSE IF u.stuck THEN [end(u) EXCEPT !.stuck = TRUE]
            ELSE IF u.ok THEN [end(u) EXCEPT !.units = [uw |-> w, un |-> Len(st)]]
            ELSE IF ~p.ok \/ p.w = <<>> THEN end(p)
            ELSE StripLoop(d, p.w, p.st)
            : p \in {strip_right(d, d.rpunc, w, st, FALSE)},
              u \in {strip_right(d, d.units, w, st, TRUE)}})

(***************************************************************************)
(* split_mpunc(): at the first affix of MPUNC that is found past the start  *)
(* of what is left, unless it is found at its end. Words of one or two      *)
(* letters, and words of too many parts, are not split.                     *)
(***************************************************************************)
MpuncAt(d, w) ==
  {<<k, i>> \in (DOMAIN d.mpunc) \X (2..Len(w)) :
     SubSeq(w, i, i + Len(d.mpunc[k].txt) - 1) = d.mpunc[k].txt}

RECURSIVE SplitMpunc(_, _, _)
SplitMpunc(d, w, split) ==
  LET at == MpuncAt(d, w)
      m == CHOOSE x \in at : \A y \in at : x[1] < y[1] \/ (x[1] = y[1] /\ x[2] <= y[2])
      txt == d.mpunc[m[1]].txt
      now == split \o <<Token(SubSeq(w, 1, m[2] - 1)), Token(txt)>>
  IN  IF at # {} /\ m[2] + Len(txt) <= Len(w)
      THEN IF Len(now) > MaxStrip - 1 THEN <<>>
           ELSE SplitMpunc(d, SubSeq(w, m[2] + Len(txt), Len(w)), now)
      ELSE IF split = <<>> THEN <<>> ELSE Append(split, Token(w))

(* Mutant: what follows the last punctuation is not added. *)
split_short(d, w) ==
  IF Len(w) <= 2 \/ SplitMpunc(d, w, <<>>) = <<>> THEN <<>> ELSE Front(SplitMpunc(d, w, <<>>))

split_mpunc(d, w) == IF Len(w) <= 2 THEN <<>> ELSE SplitMpunc(d, w, <<>>)

(***************************************************************************)
(* suffix_split() and add_alternative_with_subscr(): the alternatives, in   *)
(* the order in which they are issued, each a prefix (at most one), a stem  *)
(* and a suffix (at most one). With a prefix, the stem is the whole rest of *)
(* the word, its suffix included.                                           *)
(***************************************************************************)
WithSubscr(d, pre, stem, suf) ==
  LET alt(s) == [pre |-> pre, stem |-> <<s>>, suf |-> suf]
      subs == SelectSeq(d.stemsubscr,
                        LAMBDA b : dict_has_word(d, [Token(stem) EXCEPT !.sub = b]))
  IN  IF d.stemsubscr = <<>> THEN <<alt(Token(stem))>>
      ELSE [i \in DOMAIN subs |-> alt([Token(stem) EXCEPT !.sub = subs[i]])]

Prefixed(d, w, suf, suflen) ==
  LET fits(p) == /\ suflen + Len(p.txt) < Len(w)
                 /\ IsPrefix(p.txt, w)
                 /\ dict_has_word(d, Token(SubSeq(w, Len(p.txt) + 1, Len(w))))
      pres == SelectSeq(d.pre, fits)
  IN  FlattenSeq([i \in DOMAIN pres |->
                    WithSubscr(d, <<pres[i].txt>>,
                               SubSeq(w, Len(pres[i].txt) + 1, Len(w)), suf)])

suffix_split(d, w) ==
  LET stem(s) == SubSeq(w, 1, Len(w) - Len(s))
      did(s) == /\ Len(w) >= Len(s) + 1
                /\ EndsWith(w, s)
                /\ \/ is_contraction_word(w) /\ dictionary_word_is_known(d, Token(stem(s)))
                   \/ dict_has_word(d, Token(stem(s)))
      withSuf(s) == (IF did(s) THEN WithSubscr(d, <<>>, stem(s), <<s>>) ELSE <<>>)
                    \o (IF Len(w) >= Len(s) + 1 /\ (did(s) \/ s = <<>>)
                        THEN Prefixed(d, w, <<s>>, Len(s)) ELSE <<>>)
  IN  FlattenSeq([i \in DOMAIN d.suf |-> withSuf(d.suf[i].txt)])
      \o Prefixed(d, w, <<>>, 0)

(* The check without issuing, for a spell guess: with no stem subscripts    *)
(* the stem itself must be a word.                                          *)
can_split(d, w) == \E i \in DOMAIN suffix_split(d, w) :
                     d.stemsubscr # <<>> \/ dict_has_word(d, suffix_split(d, w)[i].stem[1])

is_known_word(d, w) == dict_has_word(d, Token(w)) \/ can_split(d, w)
=============================================================================
