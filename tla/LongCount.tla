----------------------------- MODULE LongCount -----------------------------
(***************************************************************************)
(* do_count() for a sentence of more than min_len_word_vector words, which *)
(* DoCount leaves out: for each tracon a vector says of each middle word   *)
(* whether the side of the tracon can count anything, with how many null   *)
(* words, which word to try next and, without null words, which disjuncts  *)
(* matched with which counts.  The disjuncts are shared: match_left,       *)
(* match_right, lrcount and rcount_index are kept in them while the        *)
(* recursion goes on.                                                      *)
(*                                                                         *)
(* An operator of the recursion takes the state [tab, wv, dj] of the count *)
(* context and returns a record with the new one in st.                    *)
(***************************************************************************)
EXTENDS DoCount, FiniteSetsExt

CONSTANTS LongSentences, MaxNullCount

VARIABLES
  sent_nc,   \* sent->null_count
  counted    \* the result of do_parse(): [n, st], or NotCountedYet

lvars == <<word, islands_ok, sent_nc, counted>>

ANY_NULL_COUNT == 255
INCREMENT_WORD == 255

NotCountedYet == [n |-> NO_COUNT, st |-> <<>>]

Fresh == [status |-> -1, nulls |-> -1, next |-> INCREMENT_WORD, mlc |-> <<>>]

(* A new count context; the fields of the disjuncts hold anything. *)
NewContext ==
  [tab |-> <<>>, wv |-> <<>>,
   dj |-> [p \in UNION {{w} \X DOMAIN word[w] : w \in Words} |->
             [l |-> TRUE, r |-> TRUE, count |-> 0, rindex |-> 1]]]

StoreCount(st, key, n) == [n |-> n, st |-> [st EXCEPT !.tab = @ @@ (key :> n)]]
PlusCount(n, x) == [n |-> n + x.n, st |-> x.st]

-----------------------------------------------------------------------------
(* The word vectors.                                                       *)

VectorKey(lw, rw, le, re) == IF le = <<>> THEN <<1, rw, re>> ELSE <<0, lw, le>>

VectorWords(key) ==
  IF key[1] = 1 THEN LeftFarthest(key[2], key[3])..LeftNearest(key[2], key[3])
  ELSE RightNearest(key[2], key[3])..RightFarthest(key[2], key[3])

alloc_lrcnt_wv(st, key) ==
  IF key \in DOMAIN st.wv THEN st
  ELSE [st EXCEPT !.wv = @ @@ (key :> [w \in VectorWords(key) |-> Fresh])]

(* Mutant: a word that counted nothing is skipped for any null count. *)
check_status(e, null_count) ==
  IF e.status = 0 THEN [kind |-> "zero", start |-> 0]
  ELSE [kind |-> IF e.status = 1 THEN "known" ELSE "update", start |-> e.nulls + 1]

(* lrcnt_check(): nothing can be counted; something may, from null count   *)
(* start on; or this is not known yet, from null count start on.           *)
lrcnt_check(e, null_count) ==
  IF e.status = 1 THEN [kind |-> "known", start |-> e.nulls + 1]
  ELSE IF e.status = 0 /\ null_count <= e.nulls THEN [kind |-> "zero", start |-> 0]
  ELSE [kind |-> "update", start |-> e.nulls + 1]

no_count(st, key, w, null_count) ==
  key \in DOMAIN st.wv /\ lrcnt_check(st.wv[key][w], null_count).kind = "zero"

get_cached_match_list(st, key, w) ==
  IF sent_nc = 0 /\ key \in DOMAIN st.wv THEN st.wv[key][w].mlc ELSE <<>>

(* lrcnt_expectation_update() *)
Expect(e, found, match_list, null_count) ==
  [e EXCEPT !.status = IF found THEN 1 ELSE 0,
            !.nulls = IF found THEN @ ELSE IF match_list THEN null_count ELSE ANY_NULL_COUNT]

(* generate_word_skip_vector(): each word that must be tried knows the     *)
(* next one.                                                               *)
generate_word_skip_vector(vec, start, end) ==
  LET try == {start} \cup {i \in (start + 1)..(end - 1) : vec[i].status # 0 \/ sent_nc > vec[i].nulls}
  IN  [i \in DOMAIN vec |->
         IF i \in try THEN [vec[i] EXCEPT !.next = Min({j \in try : j > i} \cup {end})]
         ELSE IF i \in start..(end - 1) THEN [vec[i] EXCEPT !.next = INCREMENT_WORD] ELSE vec[i]]

-----------------------------------------------------------------------------
(* form_match_list(), with cached lists where there are some.              *)

LeftBucket(w, le) == {i \in DOMAIN word[w] : word[w][i].left # <<>> /\ Match(Head(le), Head(word[w][i].left))}
RightBucket(w, re) == {i \in DOMAIN word[w] : word[w][i].right # <<>> /\ Match(Head(word[w][i].right), Head(re))}
Indices(S, w) == SelectSeq([i \in DOMAIN word[w] |-> i], LAMBDA i : i \in S)
Disjuncts(mlc) == {mlc[k].i : k \in DOMAIN mlc}

form_match_list(st, w, lw, le, rw, re, mlcl, mlcr) ==
  LET ds   == word[w]
      ml   == IF le = <<>> \/ mlcl # <<>> THEN {} ELSE LeftBucket(w, le)
      mr   == IF re = <<>> \/ mlcr # <<>> \/ w < LeftFarthest(rw, re) THEN {}
              ELSE {i \in RightBucket(w, re) : RightNearest(w, ds[i].right) <= rw}
      left == IF mlcl # <<>> THEN Disjuncts(mlcl)
              ELSE {i \in ml : LeftNearest(w, ds[i].left) >= lw /\ LeftFarthest(w, ds[i].left) <= lw}
      may  == IF mlcr # <<>> THEN Disjuncts(mlcr)
              ELSE {i \in mr : RightFarthest(w, ds[i].right) >= rw}
      right == IF le # <<>> THEN may \cap left ELSE may
      list == IF le # <<>> THEN Indices(left, w) ELSE Indices(right, w)
      none == le # <<>> /\ left = {}
      mark(i, f) ==
        [f EXCEPT !.l = IF i \in left THEN TRUE ELSE IF i \in mr \cup may THEN FALSE ELSE @,
                  !.r = IF i \in right THEN TRUE ELSE IF i \in left THEN FALSE ELSE @,
                  !.rindex = IF mlcr # <<>> /\ i \in right
                             THEN CHOOSE k \in DOMAIN mlcr : mlcr[k].i = i ELSE @]
  IN  [list |-> IF none THEN <<>> ELSE list,
       st |-> IF none THEN st
              ELSE [st EXCEPT !.dj = [p \in DOMAIN @ |-> IF p[1] = w THEN mark(p[2], @[p]) ELSE @[p]]]]

-----------------------------------------------------------------------------
RECURSIVE do_count_long(_, _, _, _, _, _)
RECURSIVE WordLoop(_, _, _)

scount_long(st, lw, rw, le, re, null_count) ==
  FoldLeft(LAMBDA acc, t : Evaluate(LAMBDA y : PlusCount(y.n, do_count_long(y.st, lw, rw, t[1], t[2], null_count)), acc),
           [n |-> 0, st |-> st], Remaining(le, re))

(* One null count of the left part, for a disjunct of the match list.  c   *)
(* is the call, k the word with what the vectors say, m the disjunct with  *)
(* its match, and a accumulates the total and the counts of the disjunct.  *)
Side(st, known, c, lw, rw, le, re, null_count) ==
  IF known = NO_COUNT THEN scount_long(st, lw, rw, le, re, null_count) ELSE [n |-> known, st |-> st]

Other(st, known, lw, rw, le, re, null_count) ==
  IF known = NO_COUNT THEN do_count_long(st, lw, rw, le, re, null_count) ELSE [n |-> known, st |-> st]

CountNulls(c, k, m, a, lnull) ==
  LET d     == word[k.w][m.i]
      rnull == c.nc - lnull
      b     == IF k.cached THEN a
               ELSE [a EXCEPT !.left = NO_COUNT, !.right = NO_COUNT, !.leftp = FALSE, !.rightp = FALSE]
      tab   == a.st.tab
      leftp  == b.leftp \/ (m.l /\ Pseudocount(tab, c.lw, k.w, c.le, d.left, lnull))
      rightp == b.rightp \/ (m.r /\ (leftp \/ c.le = <<>>) /\ Pseudocount(tab, k.w, c.rw, d.right, c.re, rnull))
      l_bnr == IF leftp THEN TableCount(tab, k.w, c.rw, d.right, c.re, rnull) ELSE NO_COUNT
      r_bnl == IF c.le # <<>> THEN 0
               ELSE IF leftp THEN NO_COUNT ELSE TableCount(tab, c.lw, k.w, c.le, d.left, lnull)
      x1 == IF leftp /\ (~k.lcnt_optimize \/ rightp \/ l_bnr # 0)
            THEN Side(b.st, b.left, c, c.lw, k.w, c.le, d.left, lnull) ELSE [n |-> b.left, st |-> b.st]
      l1 == leftp /\ (~k.lcnt_optimize \/ rightp \/ l_bnr # 0) /\ x1.n > 0
      left == IF l1 THEN Clamp(x1.n) ELSE x1.n
      s1 == IF l1 THEN [x1.st EXCEPT !.dj[<<k.w, m.i>>].l = TRUE] ELSE x1.st
      x2 == IF l1 THEN Other(s1, l_bnr, k.w, c.rw, d.right, c.re, rnull) ELSE [n |-> 0, st |-> s1]
      tries == rightp /\ (~k.rcnt_optimize \/ left > 0 \/ r_bnl # 0)
      x3 == IF tries THEN Side(x2.st, b.right, c, k.w, c.rw, d.right, c.re, rnull)
            ELSE [n |-> b.right, st |-> x2.st]
      r1 == tries /\ x3.n > 0
      right == IF r1 THEN Clamp(x3.n) ELSE x3.n
      s3 == IF r1 /\ c.le = <<>> THEN [x3.st EXCEPT !.dj[<<k.w, m.i>>].r = TRUE] ELSE x3.st
      x4 == IF r1 /\ c.le = <<>> THEN Other(s3, r_bnl, c.lw, k.w, c.le, d.left, lnull) ELSE [n |-> 0, st |-> s3]
      add == (IF l1 THEN left * x2.n ELSE 0)
             + (IF ~r1 THEN 0 ELSE right * (IF c.le = <<>> THEN x4.n ELSE left))
  IN  IF ~leftp /\ ~rightp THEN b
      ELSE [n |-> Clamp(b.n + add), st |-> x4.st, left |-> left, right |-> right,
            leftp |-> leftp, rightp |-> rightp, found |-> b.found \/ l1 \/ (r1 /\ c.le = <<>>),
            lindex |-> b.lindex]

(* One disjunct of the match list: match_left and match_right are read and *)
(* cleared, and set again if the disjunct counts; its count is kept.       *)
KeepCount(c, k, i, a) ==
  LET f == a.st.dj[<<k.w, i>>]
  IN  IF k.update /\ (f.l \/ f.r) /\ sent_nc = 0
      THEN [a EXCEPT !.st.dj[<<k.w, i>>].count = Clamp(IF c.le = <<>> THEN a.right ELSE a.left)] ELSE a

CountDisjunct(c, k, acc, i) ==
  LET f   == acc.st.dj[<<k.w, i>>]
      m   == [i |-> i, l |-> f.l, r |-> f.r]
      lc  == k.cached /\ f.l /\ k.mlcl # <<>>
      rc  == k.cached /\ f.r /\ k.mlcr # <<>>
      a   == [n |-> acc.n, found |-> acc.found,
              st |-> [acc.st EXCEPT !.dj[<<k.w, i>>] = [@ EXCEPT !.l = FALSE, !.r = FALSE]],
              left |-> IF lc THEN k.mlcl[acc.lindex].count ELSE NO_COUNT, leftp |-> lc,
              right |-> IF rc THEN k.mlcr[f.rindex].count ELSE NO_COUNT, rightp |-> rc,
              lindex |-> IF lc THEN acc.lindex + 1 ELSE acc.lindex]
  IN  KeepCount(c, k, i, FoldLeft(LAMBDA x, lnull : Evaluate(LAMBDA y : CountNulls(c, k, m, y, lnull), x), a,
                                  Interval(k.lnull_start, k.lnull_end)))

(* lrcnt_cache_match_list() *)
CachedList(c, k, st, list) ==
  LET counted_here == SelectSeq(list, LAMBDA i : IF c.le = <<>> THEN st.dj[<<k.w, i>>].r ELSE st.dj[<<k.w, i>>].l)
  IN  [j \in DOMAIN counted_here |-> [i |-> counted_here[j], count |-> st.dj[<<k.w, counted_here[j]>>].count]]

UpdateWord(c, k, list, a, changed) ==
  LET old == a.st.wv[c.key][k.w]
      new == Expect(old, a.found, list # <<>>, c.nc)
      kept == IF a.found /\ sent_nc = 0 THEN [new EXCEPT !.mlc = CachedList(c, k, a.st, list)] ELSE new
  IN  IF ~k.update THEN [n |-> a.n, st |-> a.st, changed |-> changed]
      ELSE [n |-> a.n, st |-> [a.st EXCEPT !.wv[c.key][k.w] = kept],
            changed |-> changed \/ new.status # old.status \/ new.nulls # old.nulls]

CountList(c, k, acc, ml) ==
  UpdateWord(c, k, ml.list,
             FoldLeft(LAMBDA a, i : Evaluate(LAMBDA y : CountDisjunct(c, k, y, i), a),
                      [n |-> acc.n, st |-> ml.st, found |-> FALSE, lindex |-> 1], ml.list),
             acc.changed)

(* A middle word that may count. *)
CountWord(c, acc, w, chk) ==
  LET st     == acc.st
      inside == c.re # <<>> /\ LeftFarthest(c.rw, c.re) <= w
      re_key == <<1, c.rw, c.re>>
      fml_re == IF c.le # <<>> /\ inside /\ no_count(st, re_key, w, c.nc) THEN <<>> ELSE c.re
      update == chk.kind = "update"
      cached == ~update /\ sent_nc = 0
      k == [w |-> w, update |-> update, cached |-> cached,
            lcnt_optimize |-> ~(update /\ c.le # <<>>), rcnt_optimize |-> ~(update /\ c.le = <<>>),
            lnull_start |-> IF c.le # <<>> THEN chk.start ELSE 0,
            lnull_end |-> IF c.le = <<>> /\ update /\ chk.start <= c.nc THEN c.nc - chk.start ELSE c.nc,
            mlcl |-> IF cached /\ c.le # <<>> THEN get_cached_match_list(st, c.key, w) ELSE <<>>,
            mlcr |-> IF cached /\ fml_re # <<>> /\ (c.le = <<>> \/ inside)
                     THEN get_cached_match_list(st, re_key, w) ELSE <<>>]
  IN  CountList(c, k, acc, form_match_list(st, w, c.lw, c.le, c.rw, fml_re, k.mlcl, k.mlcr))

WordLoop(c, acc, w) ==
  IF w >= c.end THEN acc
  ELSE LET e    == acc.st.wv[c.key][w]
           next == IF e.next = INCREMENT_WORD THEN w + 1 ELSE e.next
           chk  == lrcnt_check(e, c.nc)
       IN  IF chk.kind = "zero" THEN WordLoop(c, acc, next)
           ELSE WordLoop(c, CountWord(c, acc, w, chk), next)

SkipAndStore(c, key, a) ==
  StoreCount(IF a.changed
             THEN [a.st EXCEPT !.wv[c.key] = generate_word_skip_vector(@, c.start, c.end)] ELSE a.st,
             key, a.n)

CountRange(st, key, lw, rw, le, re, null_count) ==
  LET c == [lw |-> lw, rw |-> rw, le |-> le, re |-> re, nc |-> null_count,
            start |-> StartWord(lw, rw, le, re), end |-> EndWord(lw, rw, le, re),
            key |-> VectorKey(lw, rw, le, re)]
  IN  SkipAndStore(c, key, WordLoop(c, [n |-> 0, st |-> alloc_lrcnt_wv(st, c.key), changed |-> FALSE], c.start))

do_count_long(st, lw, rw, le, re, null_count) ==
  LET key == Key(lw, rw, le, re, null_count)
      unparseable_len == rw - lw - 1
  IN  IF ~ValidNearestWords(le, re, lw, rw) THEN [n |-> 0, st |-> st]
      ELSE IF key \in DOMAIN st.tab THEN [n |-> st.tab[key], st |-> st]
      ELSE IF unparseable_len = 0
        THEN StoreCount(st, key, IF le = <<>> /\ re = <<>> /\ null_count = 0 THEN 1 ELSE 0)
      ELSE IF le = <<>> /\ re = <<>> /\ AllNull(lw, null_count)
        THEN StoreCount(st, key, IF null_count = unparseable_len THEN 1 ELSE 0)
      ELSE IF le = <<>> /\ re = <<>>
        THEN LET x == FoldLeft(LAMBDA acc, r :
                        PlusCount(acc.n, do_count_long(acc.st, lw + 1, rw, r, <<>>, null_count - 1)),
                        [n |-> 0, st |-> st], IslandStarts(lw + 1))
             IN  StoreCount(x.st, key, Clamp(x.n))
      ELSE CountRange(st, key, lw, rw, le, re, null_count)

-----------------------------------------------------------------------------
LInit ==
  /\ word \in {SetupConnectors(s) : s \in LongSentences}
  /\ islands_ok \in BOOLEAN
  /\ sent_nc = 0 /\ counted = NotCountedYet

(* alloc_count_context() and do_parse() *)
CountLong ==
  /\ counted = NotCountedYet
  /\ counted' = do_count_long(NewContext, -1, length, <<>>, <<>>, sent_nc + 1)
  /\ UNCHANGED <<word, islands_ok, sent_nc>>

(* free_count_context(), and the next null count. *)
NextLong ==
  /\ counted # NotCountedYet /\ sent_nc < MaxNullCount
  /\ sent_nc' = sent_nc + 1 /\ counted' = NotCountedYet
  /\ UNCHANGED <<word, islands_ok>>

LNext == CountLong \/ NextLong

LSpec == LInit /\ [][LNext]_lvars

-----------------------------------------------------------------------------
(* The word vectors and cached match lists of a long sentence change       *)
(* nothing: do_parse() returns the same count with and without them, and   *)
(* every entry of the table of counts, which the extraction of linkages    *)
(* reads, is the same.                                                     *)
CachesChangeNothing ==
  counted # NotCountedYet =>
    \A plain \in {do_parse(sent_nc)} :
      /\ counted.n = plain.n
      /\ \A key \in DOMAIN counted.st.tab \cap DOMAIN plain.tab : counted.st.tab[key] = plain.tab[key]
=============================================================================
