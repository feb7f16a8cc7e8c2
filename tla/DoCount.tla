------------------------------- MODULE DoCount -------------------------------
(***************************************************************************)
(* do_parse() and do_count() of count.c for a short sentence: the          *)
(* recursion over word ranges, with the table of counts it fills and       *)
(* consults.  An operator that changes the table takes it as its first     *)
(* argument and returns a record [n, tab] with the new one.                *)
(*                                                                         *)
(* The timer does not expire during a count (ClassicParse has that case),  *)
(* and the left/right count caches for sentences longer than               *)
(* min_len_word_vector words are not used.                                 *)
(***************************************************************************)
EXTENDS Linkages, TLC

CONSTANT IntMax   \* INT_MAX

NO_COUNT == -1

(* Op(e), with e evaluated once.                                           *)
Evaluate(Op(_), e) == CHOOSE y \in {Op(x) : x \in {e}} : TRUE

(* Mutant: the sum wraps around. *)
Wrap(n) == n % (IntMax + 1)

(* parse_count_clamp() *)
Clamp(n) == MIN(n, IntMax)

(* The key of a table entry; a tracon_id stands for a word and a tracon.   *)
Key(lw, rw, le, re, null_count) == <<lw, rw, le, re, null_count>>

(* table_store(), at the end of a count. *)
Store(tab, key, n) == [n |-> n, tab |-> tab @@ (key :> n)]

StoreTotal(key, x) == Store(x.tab, key, Clamp(x.n))

Plus(n, x) == [n |-> n + x.n, tab |-> x.tab]

ValidNearestWords(le, re, lw, rw) ==
  LET r_limit == IF re # <<>> THEN LeftNearest(rw, re) ELSE rw
  IN  /\ re # <<>> => LeftNearest(rw, re) >= lw
      /\ le # <<>> => RightNearest(lw, le) <= r_limit

(* table_count(): 0 if the links would cross, else what the table has.     *)
TableCount(tab, lw, rw, le, re, null_count) ==
  LET key == Key(lw, rw, le, re, null_count)
  IN  IF le # <<>> /\ re # <<>> /\ RightNearest(lw, le) > LeftNearest(rw, re) THEN 0
      ELSE IF key \in DOMAIN tab THEN tab[key] ELSE NO_COUNT

(* After le and re have been linked: the tracons that remain, which are    *)
(* the same again for a multi-connector.                                   *)
Remaining(le, re) ==
  <<<<Tail(le), Tail(re)>>>>
    \o (IF Head(le).multi THEN <<<<le, Tail(re)>>>> ELSE <<>>)
    \o (IF Head(re).multi THEN <<<<Tail(le), re>>>> ELSE <<>>)
    \o (IF Head(le).multi /\ Head(re).multi THEN <<<<le, re>>>> ELSE <<>>)

Pseudocount(tab, lw, rw, le, re, null_count) ==
  \E t \in ToSet(Remaining(le, re)) :
    TableCount(tab, lw, rw, t[1], t[2], null_count) # 0

(* The middle words to try in a range with an end connector.               *)
StartWord(lw, rw, le, re) ==
  IF le = <<>> THEN MAX(lw + 1, LeftFarthest(rw, re)) ELSE RightNearest(lw, le)

EndWord(lw, rw, le, re) ==
  IF re = <<>> THEN MIN(rw, RightFarthest(lw, le) + 1)
  ELSE IF le # <<>> /\ LeftNearest(rw, re) > RightFarthest(lw, le)
    THEN RightFarthest(lw, le) + 1
    ELSE LeftNearest(rw, re) + 1

(* form_match_list(): the disjuncts of w that match le or re, with which   *)
(* of the two; if there is a le only those that match it.  Those that      *)
(* match le come first.                                                    *)
MatchesLeft(w, lw, le, d) ==
  /\ le # <<>> /\ d.left # <<>>
  /\ LeftNearest(w, d.left) >= lw /\ LeftFarthest(w, d.left) <= lw
  /\ Match(Head(le), Head(d.left))

MatchesRight(w, rw, re, d) ==
  /\ re # <<>> /\ d.right # <<>>
  /\ w >= LeftFarthest(rw, re)
  /\ RightNearest(w, d.right) <= rw /\ RightFarthest(w, d.right) >= rw
  /\ Match(Head(d.right), Head(re))

FormMatchList(w, lw, le, rw, re) ==
  LET Node(d) == [d |-> d, match_left |-> MatchesLeft(w, lw, le, d),
                  match_right |-> MatchesRight(w, rw, re, d)]
      nodes   == [i \in DOMAIN word[w] |-> Node(word[w][i])]
  IN  IF le # <<>>
        THEN SelectSeq(nodes, LAMBDA m : m.match_left)
        ELSE SelectSeq(nodes, LAMBDA m : m.match_right)

Interval(from, to) == [i \in 1..MAX(0, to - from + 1) |-> from + i - 1]

(* The middle words of "Path 3".                                           *)
MiddleWords(lw, rw, le, re) == Interval(StartWord(lw, rw, le, re), EndWord(lw, rw, le, re) - 1)

(* "Path 2": word w starts an island with a disjunct, or is a null word.   *)
IslandStarts(w) ==
  LET ds == SelectSeq(word[w], LAMBDA d : d.left = <<>>)
  IN  Append([i \in DOMAIN ds |-> ds[i].right], <<>>)

(* "Path 1b": a range without end connectors must consist of null words.   *)
AllNull(lw, null_count) ==
  null_count = 0 \/ (~islands_ok /\ lw # -1 /\ word[lw] # <<>>)

(* What the table says about iteration s, before anything is counted:      *)
(* whether the left and the right part may link, and what is known of the  *)
(* other part (bnr, bnl) if only one of them does.                         *)
Prospects(tab, lw, rw, le, re, null_count, s) ==
  LET d      == s.m.d
      rnull  == null_count - s.lnull
      leftp  == s.m.match_left /\ Pseudocount(tab, lw, s.w, le, d.left, s.lnull)
      rightp == /\ s.m.match_right /\ (leftp \/ le = <<>>)
                /\ Pseudocount(tab, s.w, rw, d.right, re, rnull)
  IN  [lw |-> lw, w |-> s.w, rw |-> rw, le |-> le, re |-> re, d |-> d,
       lnull |-> s.lnull, rnull |-> rnull, leftp |-> leftp, rightp |-> rightp,
       l_bnr |-> IF leftp THEN TableCount(tab, s.w, rw, d.right, re, rnull) ELSE NO_COUNT,
       r_bnl |-> IF le # <<>> THEN 0 ELSE TableCount(tab, lw, s.w, le, d.left, s.lnull)]

(* The four counts of an iteration, with the table.                        *)
NotCounted(tab) ==
  [leftcount |-> NO_COUNT, bnr |-> 0, rightcount |-> NO_COUNT, bnl |-> 0, tab |-> tab]

Put(c, name, x) == [c EXCEPT ![name] = Clamp(x.n), !.tab = x.tab]

RECURSIVE do_count(_, _, _, _, _, _)
RECURSIVE scount(_, _, _, _, _, _)

(* The sum over the remaining tracons after a link. *)
scount(tab, lw, rw, le, re, null_count) ==
  FoldLeft(LAMBDA acc, t :
             Evaluate(LAMBDA a : Plus(a.n, do_count(a.tab, lw, rw, t[1], t[2], null_count)), acc),
           [n |-> 0, tab |-> tab], Remaining(le, re))

(* A part is counted only if the other may be non-zero.                    *)
CountLeft(p, c) ==
  IF p.leftp /\ (p.rightp \/ p.l_bnr # 0)
    THEN Put(c, "leftcount", scount(c.tab, p.lw, p.w, p.le, p.d.left, p.lnull)) ELSE c

CountBnr(p, c) ==
  IF c.leftcount > 0
    THEN Put(c, "bnr", do_count(c.tab, p.w, p.rw, p.d.right, p.re, p.rnull)) ELSE c

CountRight(p, c) ==
  IF p.rightp /\ (c.leftcount > 0 \/ p.r_bnl # 0)
    THEN Put(c, "rightcount", scount(c.tab, p.w, p.rw, p.d.right, p.re, p.rnull)) ELSE c

CountBnl(p, c) ==
  IF c.rightcount > 0 /\ p.le = <<>>
    THEN Put(c, "bnl", do_count(c.tab, p.lw, p.w, p.le, p.d.left, p.lnull)) ELSE c

(* The left match but not the right, the right but not the left, or both.  *)
AddCounts(n, p, c) ==
  [n |-> Clamp(n + (IF c.leftcount > 0 THEN c.leftcount * c.bnr ELSE 0)
                 + (IF c.rightcount <= 0 THEN 0
                    ELSE c.rightcount * (IF p.le = <<>> THEN c.bnl ELSE c.leftcount))),
   tab |-> c.tab]

CountParts(acc, p) ==
  IF ~p.leftp /\ ~p.rightp THEN acc
  ELSE AddCounts(acc.n, p, CountBnl(p, CountRight(p, CountBnr(p, CountLeft(p,
                             NotCounted(acc.tab))))))

(* One iteration of the loops.                                             *)
CountSplit(acc, lw, rw, le, re, null_count, s) ==
  CountParts(acc, Prospects(acc.tab, lw, rw, le, re, null_count, s))

(* The three nested loops: over the middle words, the disjuncts of the     *)
(* match list, and the null words in the left part.                        *)
CountMatch(acc, lw, rw, le, re, null_count, w, m) ==
  FoldLeft(LAMBDA a, lnull :
             Evaluate(LAMBDA b : CountSplit(b, lw, rw, le, re, null_count,
                                            [w |-> w, m |-> m, lnull |-> lnull]), a),
           acc, Interval(0, null_count))

CountMiddle(acc, lw, rw, le, re, null_count, w) ==
  FoldLeft(LAMBDA a, m : Evaluate(LAMBDA b : CountMatch(b, lw, rw, le, re, null_count, w, m), a),
           acc, FormMatchList(w, lw, le, rw, re))

(* The number of ways to link the words between lw and rw, with null_count *)
(* null words or islands, to the tracons le of lw and re of rw.            *)
do_count(tab, lw, rw, le, re, null_count) ==
  LET key == Key(lw, rw, le, re, null_count)
      unparseable_len == rw - lw - 1
  IN  IF ~ValidNearestWords(le, re, lw, rw) THEN [n |-> 0, tab |-> tab]
      ELSE IF key \in DOMAIN tab THEN [n |-> tab[key], tab |-> tab]
      ELSE IF unparseable_len = 0
        THEN Store(tab, key, IF le = <<>> /\ re = <<>> /\ null_count = 0 THEN 1 ELSE 0)
      ELSE IF le = <<>> /\ re = <<>> /\ AllNull(lw, null_count)
        THEN Store(tab, key, IF null_count = unparseable_len THEN 1 ELSE 0)
      ELSE IF le = <<>> /\ re = <<>>
        THEN StoreTotal(key, FoldLeft(LAMBDA acc, r :
               Evaluate(LAMBDA a : Plus(a.n, do_count(a.tab, lw + 1, rw, r, <<>>, null_count - 1)), acc),
               [n |-> 0, tab |-> tab], IslandStarts(lw + 1)))
      ELSE StoreTotal(key, FoldLeft(LAMBDA acc, w :
             Evaluate(LAMBDA a : CountMiddle(a, lw, rw, le, re, null_count, w), acc),
             [n |-> 0, tab |-> tab], MiddleWords(lw, rw, le, re)))

(* do_parse(), with the empty table of a new count context. *)
do_parse(null_count) == do_count(<<>>, -1, length, <<>>, <<>>, null_count + 1)
=============================================================================
