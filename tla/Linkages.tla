------------------------------ MODULE Linkages ------------------------------
(***************************************************************************)
(* What is counted: the words of a sentence with their disjuncts, after    *)
(* setup_connectors(), and the linkages they have, defined as link         *)
(* grammar defines them and independently of how the parser finds them.    *)
(*                                                                         *)
(* A connector is a record [uc, multi, limit]: its name, whether it may be *)
(* used more than once, and its length limit.  A disjunct is a record      *)
(* [left, right] of sequences of connectors, the one that links farthest   *)
(* first.  A tracon is a suffix of such a sequence; <<>> is the NULL       *)
(* connector.  A word has at least one connector in each of its disjuncts, *)
(* is not optional, and has one alternative only.                          *)
(***************************************************************************)
EXTENDS Integers, Sequences, FiniteSets, SequencesExt

VARIABLES
  word,        \* sent->word[w].d, for w from 0: a sequence of disjuncts
  islands_ok   \* opts->islands_ok

length == Cardinality(DOMAIN word)

Words == 0..(length - 1)

MIN(a, b) == IF a < b THEN a ELSE b
MAX(a, b) == IF a > b THEN a ELSE b

-----------------------------------------------------------------------------
(* The words a tracon can reach: set_dist_fields() and                     *)
(* set_connector_farthest_word().                                          *)
RightNearest(w, le) == w + Len(le)
LeftNearest(w, re) == w - Len(re)
RightFarthest(w, le) == MIN(length - 1, w + Head(le).limit)
LeftFarthest(w, re) == MAX(0, w - Head(re).limit)

(* setup_connectors(): a disjunct with more connectors than there are      *)
(* words on a side is dropped; the order of the others is reversed.        *)
SetupConnectors(words) ==
  LET n == Cardinality(DOMAIN words)
      Fits(w, d) == w - Len(d.left) >= 0 /\ w + Len(d.right) < n
  IN  [w \in DOMAIN words |-> Reverse(SelectSeq(words[w], LAMBDA d : Fits(w, d)))]

(* do_match_with_cache(): a connector that points right and one that       *)
(* points left match.                                                      *)
Match(c, d) == c.uc = d.uc

-----------------------------------------------------------------------------
(* Linkages, from their definition.                                        *)

Pairs == {p \in Words \X Words : p[1] < p[2]}

Tracons(s) == {SubSeq(s, i, Len(s)) : i \in 1..Len(s)}

NullWord == [left |-> <<>>, right |-> <<>>]

(* The disjunct of each word, or NullWord.                                 *)
Chosen == {f \in [Words -> UNION {ToSet(word[w]) : w \in Words} \cup {NullWord}] :
              \A w \in Words : f[w] \in ToSet(word[w]) \cup {NullWord}}

(* The links that may join two words with these disjuncts: the connectors  *)
(* match, and neither is longer than its limit.                            *)
LinksBetween(f, i, j) ==
  {[lw |-> i, rw |-> j, lc |-> p[1], rc |-> p[2]] :
     p \in {t \in Tracons(f[i].right) \X Tracons(f[j].left) :
                       /\ Match(Head(t[1]), Head(t[2]))
                       /\ j - i <= Head(t[1]).limit /\ j - i <= Head(t[2]).limit}}

(* Every connector is used, a multi-connector at least once and any other  *)
(* exactly once, and a connector never links nearer than a later one.      *)
Satisfied(list, uses) ==
  \A s \in Tracons(list) :
    LET mine  == {u \in uses : u.c = s}
        later == {u \in uses : Len(u.c) < Len(s)}
    IN  /\ mine # {}
        /\ ~Head(s).multi => Cardinality(mine) = 1
        /\ \A u \in mine, v \in later : u.dist > v.dist

RightUses(links, w) ==
  {[c |-> l.lc, dist |-> l.rw - w] : l \in {k \in links : k.lw = w}}
LeftUses(links, w) ==
  {[c |-> l.rc, dist |-> w - l.lw] : l \in {k \in links : k.rw = w}}

Cross(k, l) == k.lw < l.lw /\ l.lw < k.rw /\ k.rw < l.rw

(* The words linked to w, directly or not.                                 *)
Neighbours(links, S) == S \cup {l.rw : l \in {k \in links : k.lw \in S}}
                          \cup {l.lw : l \in {k \in links : k.rw \in S}}

Component(links, w) ==
  LET reach[n \in Nat] == IF n = 0 THEN {w} ELSE Neighbours(links, reach[n - 1])
  IN  reach[length]

(* A null word is a component of its own.  Without islands_ok all linked   *)
(* words form one component, which has the first word that has disjuncts.  *)
Allowed(f, components) ==
  LET linked == {w \in Words : f[w] # NullWord}
  IN  \/ islands_ok
      \/ linked = {}
      \/ /\ linked \in components
         /\ \A w \in Words : word[w] # <<>> => \E v \in linked : v <= w

(* The planar sets of links with at most one link for a pair of words.     *)
LinkSets(f) ==
  FoldSet(LAMBDA p, sets :
            sets \cup {x[1] \cup {x[2]} : x \in
              {t \in sets \X LinksBetween(f, p[1], p[2]) :
                 \A k \in t[1] : ~Cross(k, t[2]) /\ ~Cross(t[2], k)}},
          {{}}, Pairs)

(* Every connector is used as it must be, and there are null_count+1       *)
(* components.                                                             *)
Complete(f, links, null_count) ==
  /\ \A w \in Words : /\ Satisfied(f[w].right, RightUses(links, w))
                      /\ Satisfied(f[w].left, LeftUses(links, w))
  /\ \E components \in {{Component(links, w) : w \in Words}} :
       Cardinality(components) = null_count + 1 /\ Allowed(f, components)

(* The linkages with null_count nulls.                                     *)
LinkageSet(null_count) ==
  UNION {{[chosen |-> f, links |-> s] : s \in {t \in LinkSets(f) : Complete(f, t, null_count)}}
           : f \in Chosen}

(* The same for a given linkage, without enumerating them.                 *)
IsLinkage(f, links, null_count) ==
  /\ DOMAIN f = Words
  /\ \A w \in Words : f[w] \in ToSet(word[w]) \cup {NullWord}
  /\ \A l \in links : l.lw < l.rw /\ l \in LinksBetween(f, l.lw, l.rw)
  /\ \A k, l \in links : ~Cross(k, l) /\ (k.lw = l.lw /\ k.rw = l.rw => k = l)
  /\ Complete(f, links, null_count)
=============================================================================
