---------------------------- MODULE ExtractLinks ----------------------------
(***************************************************************************)
(* From the count of the linkages to the linkages: the loop body of        *)
(* classic_parse() with do_parse(), build_parse_set() and                  *)
(* process_linkages(), on a given sentence, for one null count after       *)
(* another.  The parse set (x_table) is a function from the keys of the    *)
(* count table to records [count, first]: first is the chain of the        *)
(* choices, the one recorded last at its head.                             *)
(*                                                                         *)
(* Whether an extracted linkage has a sane morphology is left open, and    *)
(* so is what rand_r() returns.                                            *)
(***************************************************************************)
EXTENDS DoCount

CONSTANTS
  Sentences,         \* the sentences to parse: functions from 0..n-1 to Seq(disjunct)
  LinkageLimit,      \* opts->linkage_limit
  ParseNumOverflow,  \* PARSE_NUM_OVERFLOW
  MaxTries           \* MAX_TRIES

VARIABLES
  pc,           \* the next step
  null_count,   \* sent->null_count
  tab,          \* the table of counts of the count context
  found,        \* sent->num_linkages_found
  parse_set,    \* pex->parse_set: the key of the whole set, or NoSet
  x_table,      \* pex->x_table
  overflowed,   \* sent->overflowed
  itry,         \* the loop variable of process_linkages()
  lkg,          \* the linkage being filled
  lnkages       \* the linkages accepted so far, with the index of each

vars == <<word, islands_ok, pc, null_count, tab, found, parse_set, x_table,
          overflowed, itry, lkg, lnkages>>

NoSet == <<>>

-----------------------------------------------------------------------------
(* build_parse_set().  An operator that adds to the x_table takes it as    *)
(* its first argument and returns a record [s, x]: a key or NoSet, and the *)
(* new x_table.                                                            *)

(* table_count() of extract-links.c: what is not in the table is 0. *)
XCount(lw, rw, le, re, nc) == MAX(0, TableCount(tab, lw, rw, le, re, nc))

(* fetch_counts() finds a non-zero count. *)
CountsExist(lw, rw, le, re, nc) ==
  \E t \in ToSet(Remaining(le, re)) : XCount(lw, rw, t[1], t[2], nc) > 0

Record(x, key, choice) == [x EXCEPT ![key].first = <<choice>> \o @]

RecordAll(x, key, choices) ==
  FoldLeft(LAMBDA y, c : Record(y, key, c), x, choices)

x_table_store(x, key, count) == x @@ (key :> [count |-> count, first |-> <<>>])

(* dummy_set() *)
Dummy(x, key) == IF key \in DOMAIN x THEN x ELSE x_table_store(x, key, 1)

(* What the counts say about one iteration of the loops over words,        *)
(* disjuncts and null counts.                                              *)
Promises(lw, rw, le, re, nc, s) ==
  LET d      == s.m.d
      rnull  == nc - s.lnull
      Lmatch == s.m.match_left /\ CountsExist(lw, s.w, le, d.left, s.lnull)
      Rmatch == /\ s.m.match_right
                /\ (Lmatch \/ le = <<>>) => CountsExist(s.w, rw, d.right, re, rnull)
  IN  [lw |-> lw, w |-> s.w, rw |-> rw, le |-> le, re |-> re, d |-> d,
       lnull |-> s.lnull, rnull |-> rnull, Lmatch |-> Lmatch, Rmatch |-> Rmatch,
       l_bnr |-> Lmatch /\ XCount(s.w, rw, d.right, re, rnull) > 0,
       r_bnl |-> le = <<>> /\ XCount(lw, s.w, le, d.left, s.lnull) > 0]

Choice(p, l, r, rlc) == [l |-> l, lrc |-> p.d.left, r |-> r, rlc |-> rlc, md |-> p.d]

RECURSIVE mk_parse_set(_, _, _, _, _, _)
RECURSIVE smk_parse_set(_, _, _, _, _, _)

AddSet(sets, m) == [s |-> IF m.s = NoSet THEN sets ELSE Append(sets, m.s), x |-> m.x]

(* The sets for the tracons that may remain after a link. *)
smk_parse_set(x, lw, rw, le, re, nc) ==
  FoldLeft(LAMBDA acc, t : AddSet(acc.s, mk_parse_set(acc.x, lw, rw, t[1], t[2], nc)),
           [s |-> <<>>, x |-> x], Remaining(le, re))

(* The left match but not the right; then the sets of the left part and    *)
(* the x_table.                                                            *)
RecordLefts(key, p, ls, rset) ==
  [s |-> ls,
   x |-> IF rset.s = NoSet THEN rset.x
         ELSE RecordAll(rset.x, key, [i \in DOMAIN ls |-> Choice(p, ls[i], rset.s, <<>>)])]

LeftButNotRight(key, p, ls) ==
  IF ls.s = <<>> THEN ls
  ELSE RecordLefts(key, p, ls.s, mk_parse_set(ls.x, p.w, p.rw, p.d.right, p.re, p.rnull))

MakeLeft(x, key, p) ==
  IF p.Lmatch /\ (p.Rmatch \/ p.l_bnr)
    THEN LeftButNotRight(key, p, smk_parse_set(x, p.lw, p.w, p.le, p.d.left, p.lnull))
    ELSE [s |-> <<>>, x |-> x]

(* The right match but not the left, or both.                              *)
RecordRights(key, p, lset, rs) ==
  IF lset.s = NoSet THEN lset.x
  ELSE RecordAll(lset.x, key, [j \in DOMAIN rs |-> Choice(p, lset.s, rs[j], p.d.right)])

RecordBoth(x, key, p, ls, rs) ==
  RecordAll(x, key, FlattenSeq([i \in DOMAIN ls |->
                      [j \in DOMAIN rs |-> Choice(p, ls[i], rs[j], p.d.right)]]))

RightOrBoth(key, p, ls, rs) ==
  IF rs.s = <<>> THEN rs.x
  ELSE IF p.le = <<>>
    THEN RecordRights(key, p, mk_parse_set(rs.x, p.lw, p.w, p.le, p.d.left, p.lnull), rs.s)
    ELSE RecordBoth(rs.x, key, p, ls, rs.s)

MakeRight(key, p, ls) ==
  IF p.Rmatch /\ (ls.s # <<>> \/ p.r_bnl)
    THEN RightOrBoth(key, p, ls.s, smk_parse_set(ls.x, p.w, p.rw, p.d.right, p.re, p.rnull))
    ELSE ls.x

MakeParts(x, key, p) ==
  IF ~p.Lmatch /\ ~p.Rmatch THEN x ELSE MakeRight(key, p, MakeLeft(x, key, p))

MakeSplit(x, key, lw, rw, le, re, nc, s) ==
  MakeParts(x, key, Promises(lw, rw, le, re, nc, s))

(* The three nested loops.                                                 *)
MakeMatch(x, key, lw, rw, le, re, nc, w, m) ==
  FoldLeft(LAMBDA acc, lnull : MakeSplit(acc, key, lw, rw, le, re, nc, [w |-> w, m |-> m, lnull |-> lnull]),
           x, Interval(0, nc))

MakeMiddle(x, key, lw, rw, le, re, nc, w) ==
  FoldLeft(LAMBDA acc, m : MakeMatch(acc, key, lw, rw, le, re, nc, w, m),
           x, FormMatchList(w, lw, le, rw, re))

(* An island, or a null word: its set, after a dummy set.                  *)
RecordIsland(key, d, m) ==
  LET dummy == Key(key[1], key[1] + 1, <<>>, <<>>, key[5] - 1)
  IN  IF m.s = NoSet THEN m.x
      ELSE Record(Dummy(m.x, dummy), key,
                  [l |-> dummy, lrc |-> <<>>, r |-> m.s, rlc |-> d.right, md |-> d])

(* The parse set of a range: none if its count is 0. *)
mk_parse_set(x, lw, rw, le, re, nc) ==
  LET key   == Key(lw, rw, le, re, nc)
      count == XCount(lw, rw, le, re, nc)
      new   == x_table_store(x, key, count)
      w     == lw + 1
  IN  IF ~ValidNearestWords(le, re, lw, rw) \/ count = 0 THEN [s |-> NoSet, x |-> x]
      ELSE IF key \in DOMAIN x THEN [s |-> key, x |-> x]
      ELSE IF w = rw THEN [s |-> key, x |-> new]
      ELSE IF le = <<>> /\ re = <<>> /\ AllNull(lw, nc) THEN [s |-> key, x |-> new]
      ELSE IF le = <<>> /\ re = <<>>
        THEN [s |-> key,
              x |-> FoldLeft(LAMBDA acc, d :
                      RecordIsland(key, d, mk_parse_set(acc, w, rw, d.right, <<>>, nc - 1)),
                      new, Append(SelectSeq(word[w], LAMBDA d : d.left = <<>>), NullWord))]
      ELSE [s |-> key,
            x |-> FoldLeft(LAMBDA acc, mid : MakeMiddle(acc, key, lw, rw, le, re, nc, mid),
                           new, MiddleWords(lw, rw, le, re))]

(* The number of linkages of a choice. *)
Ways(x, c) == x[c.l].count * x[c.r].count

(* set_overflowed(): some set has more linkages than an index may number.  *)
SetOverflowed(x) ==
  \E key \in DOMAIN x :
    ParseNumOverflow < FoldLeft(LAMBDA n, c : n + Ways(x, c), 0, x[key].first)

-----------------------------------------------------------------------------
(* extract_links().                                                        *)

NoLinkage == [chosen |-> [w \in Words |-> NullWord], links |-> {}, num_links |-> 0]

(* issue_links_for_choice(): the link of each side, where it has one; set  *)
(* is the key of the set of the choice c.                                  *)
AddLink(k, l) == [k EXCEPT !.links = @ \cup {l}, !.num_links = @ + 1]

IssueLeft(k, c, set) ==
  LET le == set[3]
      k1 == [k EXCEPT !.chosen[c.l[2]] = c.md]
  IN  IF le = <<>> THEN k
      ELSE IF c.lrc = <<>> THEN k1
      ELSE AddLink(k1, [lw |-> c.l[1], rw |-> c.l[2], lc |-> le, rc |-> c.lrc])

IssueRight(k, c, set) ==
  LET re == set[4]
      k1 == [k EXCEPT !.chosen[c.r[1]] = c.md]
  IN  IF c.rlc = <<>> THEN k
      ELSE IF re = <<>> THEN k1
      ELSE AddLink(k1, [lw |-> c.r[1], rw |-> c.r[2], lc |-> c.rlc, rc |-> re])

IssueLinks(k, c, set) == IssueRight(IssueLeft(k, c, set), c, set)

Failed == [chosen |-> <<>>, links |-> {}, num_links |-> -1]

(* Mutant: the first linkage of the choice, whatever is left of the index. *)
WalkToChoice(set, index) ==
  FoldLeft(LAMBDA acc, i :
             LET n == Ways(x_table, x_table[set].first[i])
             IN  IF acc.i # 0 THEN acc
                 ELSE IF acc.index < n THEN [i |-> i, index |-> 0]
                 ELSE [i |-> 0, index |-> acc.index - n],
           [i |-> 0, index |-> index],
           [i \in DOMAIN x_table[set].first |-> i])

(* The choice with the index-th linkage, and what is left of the index;    *)
(* choice 0 if the chain is too short.                                     *)
Walk(set, index) ==
  FoldLeft(LAMBDA acc, i :
             LET n == Ways(x_table, x_table[set].first[i])
             IN  IF acc.i # 0 THEN acc
                 ELSE IF acc.index < n THEN [i |-> i, index |-> acc.index]
                 ELSE [i |-> 0, index |-> acc.index - n],
           [i |-> 0, index |-> index],
           [i \in DOMAIN x_table[set].first |-> i])

(* list_links(); Failed if it walks off the end of a chain.  The index of  *)
(* a choice numbers the pairs of a linkage of its left and its right set.  *)
RECURSIVE list_links(_, _, _)
ListChoice(k, set, c, index, n) ==
  list_links(list_links(IssueLinks(k, c, set), c.l, index % n), c.r, index \div n)

ListAt(k, set, at) ==
  IF at.i = 0 THEN Failed
  ELSE LET c == x_table[set].first[at.i]
       IN  ListChoice(k, set, c, at.index, x_table[c.l].count)

list_links(k, set, index) ==
  IF k = Failed \/ x_table[set].first = <<>> THEN k
  ELSE ListAt(k, set, Walk(set, index))

(* list_random_links(): what it may return. *)
RECURSIVE RandomLinks(_, _)
RandomLinks(k, set) ==
  IF x_table[set].first = <<>> THEN {k}
  ELSE UNION {UNION {RandomLinks(k2, c.r) : k2 \in RandomLinks(IssueLinks(k, c, set), c.l)}
                : c \in ToSet(x_table[set].first)}

-----------------------------------------------------------------------------
Init ==
  /\ word \in {SetupConnectors(s) : s \in Sentences}
  /\ islands_ok \in BOOLEAN
  /\ pc = "count" /\ null_count = 0
  /\ tab = <<>> /\ found = 0
  /\ parse_set = NoSet /\ x_table = <<>> /\ overflowed = FALSE
  /\ itry = 0 /\ lkg = NoLinkage /\ lnkages = <<>>

(* A new count context, and do_parse(). *)
DoParse ==
  /\ pc = "count"
  /\ LET c == do_parse(null_count) IN tab' = c.tab /\ found' = c.n
  /\ pc' = IF found' > 0 THEN "build" ELSE "next"
  /\ UNCHANGED <<word, islands_ok, null_count, parse_set, x_table, overflowed,
                 itry, lkg, lnkages>>

(* setup_linkages(): build_parse_set() and the linkage array. *)
BuildParseSet ==
  /\ pc = "build"
  /\ LET m == mk_parse_set(<<>>, -1, length, <<>>, <<>>, null_count + 1)
     IN  /\ parse_set' = m.s
         /\ x_table' = m.x
         /\ overflowed' = SetOverflowed(m.x)
  /\ itry' = 0 /\ lkg' = NoLinkage /\ lnkages' = <<>>
  /\ pc' = IF LinkageLimit = 0 THEN "next" ELSE "extract"
  /\ UNCHANGED <<word, islands_ok, null_count, tab, found>>

PickRandomly == overflowed \/ found > LinkageLimit

NumTries == IF PickRandomly THEN MIN(MIN(found, LinkageLimit) + MaxTries, found)
                            ELSE MIN(found, LinkageLimit)

(* The linkages that extract_links() may build in the slot. *)
extract_links ==
  IF PickRandomly THEN RandomLinks(lkg, parse_set) ELSE {list_links(lkg, parse_set, itry)}

(* One try of process_linkages(). *)
ExtractLinksInto ==
  /\ pc = "extract" /\ itry < NumTries /\ Len(lnkages) < MIN(found, LinkageLimit)
  /\ lkg' \in extract_links
  /\ pc' = "check"
  /\ UNCHANGED <<word, islands_ok, null_count, tab, found, parse_set, x_table,
                 overflowed, itry, lnkages>>

(* The slot of a linkage that is not sane, for the next try. *)
Cleared(k) == NoLinkage

(* The linkage stays in the array, or its slot is cleared for the next.    *)
SaneMorphism ==
  /\ pc = "check"
  /\ \/ lnkages' = Append(lnkages, [index |-> itry, lkg |-> lkg]) /\ lkg' = NoLinkage
     \/ lnkages' = lnkages /\ lkg' = Cleared(lkg)
  /\ itry' = itry + 1
  /\ pc' = "extract"
  /\ UNCHANGED <<word, islands_ok, null_count, tab, found, parse_set, x_table, overflowed>>

ProcessEnd ==
  /\ pc = "extract" /\ ~(itry < NumTries /\ Len(lnkages) < MIN(found, LinkageLimit))
  /\ pc' = "next"
  /\ UNCHANGED <<word, islands_ok, null_count, tab, found, parse_set, x_table,
                 overflowed, itry, lkg, lnkages>>

free_extractor == parse_set' = NoSet /\ x_table' = <<>>

(* The next null count: the extractor and the linkages are freed. *)
NextNullCount ==
  /\ pc = "next" /\ null_count < length
  /\ null_count' = null_count + 1
  /\ pc' = "count"
  /\ free_extractor /\ lnkages' = <<>>
  /\ UNCHANGED <<word, islands_ok, tab, found, overflowed, itry, lkg>>

Next == \/ DoParse \/ BuildParseSet \/ ExtractLinksInto \/ SaneMorphism
        \/ ProcessEnd \/ NextNullCount

Spec == Init /\ [][Next]_vars

-----------------------------------------------------------------------------
(* "The count returned here is meant to be completely accurate; it is not  *)
(* an approximation!": do_parse() returns the number of linkages with this *)
(* many nulls, or INT_MAX if there are more.                               *)
CountIsExact ==
  pc = "build" \/ (pc = "next" /\ found = 0)
    => found = MIN(IntMax, Cardinality(LinkageSet(null_count)))

(* Every extracted linkage, by index or at random, is a linkage of the     *)
(* sentence with this null count, and its links fit in the link array of   *)
(* partial_init_linkage(), whatever was in its slot before.                *)
ExtractsLinkages ==
  pc = "check" =>
    /\ IsLinkage(lkg.chosen, lkg.links, null_count)
    /\ lkg.num_links = Cardinality(lkg.links) /\ lkg.num_links <= 2 * length

(* Different indices give different linkages; so all linkages of the       *)
(* sentence are extracted if there is room for them and none is discarded. *)
IndicesEnumerate ==
  ~PickRandomly => \A i, j \in DOMAIN lnkages :
                     i # j => lnkages[i].lkg # lnkages[j].lkg
=============================================================================
