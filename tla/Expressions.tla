---------------------------- MODULE Expressions -----------------------------
(***************************************************************************)
(* From the expressions of the words to their disjuncts: the part of       *)
(* sentence_parse() before the parser proper.  expression_prune() deletes  *)
(* the connectors that nothing can match, build_sentence_disjuncts()       *)
(* multiplies the expressions out, eliminate_duplicate_disjuncts() merges  *)
(* equal disjuncts and setup_connectors() drops those that are too long.   *)
(* A sentence may be parsed again with other options, on the expressions   *)
(* that the first parse has pruned.                                        *)
(*                                                                         *)
(* An expression is a record [type, con, ops, cost].  A connector is       *)
(* [desc, dir, multi], its descriptor [uc, lc, hd, limit]: the two parts   *)
(* of its name, "h" or "d" for a head or a dependent, and its length limit *)
(* (0 when the dictionary defines none).  An X_node is [exp, string, gw].  *)
(* The dictionary is not one for sentence generation.                      *)
(***************************************************************************)
EXTENDS Integers, Sequences, FiniteSets, SequencesExt

CONSTANTS
  Sentences,   \* sent->word[w].x for w from 0, as build_sentence_expressions() left it
  Options      \* the parse options: [short_length, all_short, disjunct_cost, max_disjuncts]

VARIABLES
  sent,        \* the expressions before the first parse
  opts,        \* the options of every parse so far, the current one last
  x,           \* sent->word[w].x
  ct,          \* the set S of expression_prune(): condesc -> farthest_word
  deleted,     \* N_deleted is not 0
  dir,         \* the direction purged in this pass
  w,           \* the word at which the pass, or the loop, is
  d,           \* sent->word[w].d
  trimmed,     \* some disjuncts were discarded because of max_disjuncts
  pc

vars == <<sent, opts, x, ct, deleted, dir, w, d, trimmed, pc>>

length == Cardinality(DOMAIN sent)
Words == 0..(length - 1)
o == Last(opts)

Only(S) == CHOOSE e \in S : TRUE
MAX(a, b) == IF a > b THEN a ELSE b
MIN(a, b) == IF a < b THEN a ELSE b

-----------------------------------------------------------------------------
(* Connectors *)

(* lc_easy_match(): where both have a letter it is the same; a head        *)
(* matches a dependent only.                                               *)
lc_easy_match(a, b) ==
  /\ \A i \in 1..MIN(Len(a.lc), Len(b.lc)) :
       "*" \in {a.lc[i], b.lc[i]} \/ a.lc[i] = b.lc[i]
  /\ a.hd # "" /\ b.hd # "" => a.hd # b.hd

easy_match_desc(a, b) == a.uc = b.uc /\ lc_easy_match(a, b)

get_connector_length_limit(desc, op) ==
  IF (op.all_short /\ desc.limit > op.short_length) \/ desc.limit = 0
    THEN op.short_length
    ELSE desc.limit

(* set_connector_farthest_word() *)
farthest_word(con, v, op) ==
  LET limit == get_connector_length_limit(con.desc, op)
  IN  IF con.dir = "-" THEN MAX(0, v - limit) ELSE MIN(length - 1, v + limit)

-----------------------------------------------------------------------------
(* expression_prune() *)

NullExp == [type |-> "NULL"]
NoDesc == [k \in {} |-> 0]

RECURSIVE Leaves(_)
Leaves(e) == IF e.type = "CONNECTOR" THEN {e.con}
             ELSE UNION {Leaves(e.ops[i]) : i \in DOMAIN e.ops}

WordLeaves(nodes) == UNION {Leaves(nodes[i].exp) : i \in DOMAIN nodes}

(* The words of a right-to-left pass are negated, so that "not farther"    *)
(* is the same comparison in both passes.                                  *)
Signed(dr, v) == IF dr = "-" THEN v ELSE -v

matches_S(table, v, desc) ==
  \E c \in DOMAIN table : v <= table[c] /\ easy_match_desc(c, desc)

Unmatched(con, v, dr, table) == con.dir = dr /\ ~matches_S(table, Signed(dr, v), con.desc)

(* A node with one operand is replaced by it; its cost is passed on.       *)
Unary(e, ops) ==
  IF Len(ops) = 1 THEN [ops[1] EXCEPT !.cost = @ + e.cost] ELSE [e EXCEPT !.ops = ops]

(* purge_Exp(), with and_purge_operands() and or_purge_operands().  What   *)
(* they change in an operand before another one fails is dropped with it.  *)
RECURSIVE purge_Exp(_, _, _, _)
purge_Exp(e, v, dr, table) ==
  IF e.type = "CONNECTOR"
    THEN IF Unmatched(e.con, v, dr, table) THEN NullExp ELSE e
    ELSE LET ops  == [i \in DOMAIN e.ops |-> purge_Exp(e.ops[i], v, dr, table)]
             kept == SelectSeq(ops, LAMBDA p : p # NullExp)
         IN  IF (IF e.type = "AND" THEN kept # ops ELSE kept = <<>>)
               THEN NullExp
               ELSE Unary(e, kept)

PurgeNodes(nodes, v, dr, table) ==
  SelectSeq([i \in DOMAIN nodes |-> [nodes[i] EXCEPT !.exp = purge_Exp(@, v, dr, table)]],
            LAMBDA n : n.exp # NullExp)

Opposite(dr) == IF dr = "-" THEN "+" ELSE "-"

(* Mutant: an entry keeps the word that the first connector reaches. *)
insert_first(table, nodes, v, dr) ==
  LET cons == {c \in WordLeaves(nodes) : c.dir = dr}
      far(c) == Signed(Opposite(dr), farthest_word(c, v, o))
  IN  [t \in DOMAIN table \cup {c.desc : c \in cons} |->
         IF t \in DOMAIN table THEN table[t] ELSE far(CHOOSE c \in cons : c.desc = t)]

(* insert_connectors(), insert_connector(): one entry for a descriptor,    *)
(* with the farthest of the words its connectors reach.                    *)
insert_connectors(table, nodes, v, dr) ==
  LET cons == {c \in WordLeaves(nodes) : c.dir = dr}
      far(c) == Signed(Opposite(dr), farthest_word(c, v, o))
      new == [t \in {c.desc : c \in cons} |->
                 far(CHOOSE c \in cons : c.desc = t)]
  IN  [t \in DOMAIN table \cup DOMAIN new |->
         IF t \notin DOMAIN table THEN new[t]
         ELSE IF t \notin DOMAIN new THEN table[t]
         ELSE MAX(table[t], new[t])]

First(dr) == IF dr = "-" THEN 0 ELSE length - 1

(* One word of a pass: its expressions are purged, and the connectors that *)
(* are left join S.                                                        *)
PurgeWord ==
  /\ pc = "prune" /\ w \in Words
  /\ x' = [x EXCEPT ![w] = PurgeNodes(@, w, dir, ct)]
  /\ deleted' = (deleted \/ \E c \in WordLeaves(x[w]) : Unmatched(c, w, dir, ct))
  /\ ct' = insert_connectors(ct, x'[w], w, Opposite(dir))
  /\ w' = IF dir = "-" THEN w + 1 ELSE w - 1
  /\ UNCHANGED <<sent, opts, dir, d, trimmed, pc>>

(* N_deleted starts as 1, so that both directions are always done.         *)
StartPrune(v) ==
  /\ x' = v /\ ct' = NoDesc /\ deleted' = TRUE /\ dir' = "-" /\ w' = 0 /\ pc' = "prune"

EndPass ==
  /\ pc = "prune" /\ w \notin Words
  /\ IF deleted
       THEN /\ dir' = Opposite(dir) /\ w' = First(dir')
            /\ UNCHANGED pc
       ELSE /\ pc' = "build" /\ w' = 0
            /\ UNCHANGED dir
  /\ ct' = NoDesc /\ deleted' = FALSE
  /\ UNCHANGED <<sent, opts, x, d, trimmed>>

-----------------------------------------------------------------------------
(* build_disjuncts_for_exp().  A clause is [tc, totcost]; its Tconnectors  *)
(* are pairs [con, id], and two clauses share the ones with the same id.   *)

(* Copies of e1 in front of the list e2 itself; ids are allocated from n.  *)
catenate(e1, e2, n) == [k \in DOMAIN e1 |-> [e1[k] EXCEPT !.id = n + k]] \o e2

(* The product of the clauses so far with those of the next operand.  Its  *)
(* connectors come first, and each new clause is put in front.             *)
Multiply(acc, c2) ==
  FoldLeft(LAMBDA a, p :
             Only({[n  |-> b.n + Len(c2.cl[p[2]].tc),
                    cl |-> <<[tc |-> catenate(c2.cl[p[2]].tc, acc.cl[p[1]].tc, b.n),
                              totcost |-> acc.cl[p[1]].totcost + c2.cl[p[2]].totcost]>> \o b.cl]
                     : b \in {a}}),
           [n |-> c2.n, cl |-> <<>>],
           [k \in 1..(Len(acc.cl) * Len(c2.cl)) |->
              <<1 + ((k - 1) \div Len(c2.cl)), 1 + ((k - 1) % Len(c2.cl))>>])

AddCost(cl, cost) == [k \in DOMAIN cl |-> [cl[k] EXCEPT !.totcost = @ + cost]]

RECURSIVE build_clause(_, _)
build_clause(e, n) ==
  IF e.type = "CONNECTOR" THEN
    [n |-> n + 1, cl |-> <<[tc |-> <<[con |-> e.con, id |-> n + 1]>>, totcost |-> e.cost]>>]
  ELSE
    LET Join(a, opd) ==
          Only({IF e.type = "AND" THEN Multiply(a, c2)
                ELSE [n |-> c2.n, cl |-> a.cl \o c2.cl] : c2 \in {build_clause(opd, a.n)}})
        start == [n |-> n, cl |-> IF e.type = "AND" THEN <<[tc |-> <<>>, totcost |-> 0]>> ELSE <<>>]
        all == FoldLeft(LAMBDA a, opd : Only({Join(b, opd) : b \in {a}}), start, e.ops)
    IN  Only({[n |-> r.n, cl |-> AddCost(r.cl, e.cost)] : r \in {all}})

(* Mutant: a cached tracon does not complete its direction. *)
OneJetOn(tc, dr, done) ==
  FoldLeft(LAMBDA a, t :
             IF t.con.dir # dr THEN a
             ELSE Append(a, t) \o (IF t.id \in DOMAIN done THEN done[t.id] ELSE <<>>),
           <<>>, tc)

(* One jet of build_disjunct(): the connectors up to the first Tconnector  *)
(* that has a tracon in the cache, and then that tracon; done has the      *)
(* cached tracons without their first connector.                           *)
OneJet(tc, dr, done) ==
  FoldLeft(LAMBDA a, t :
             IF a.is_tracon \/ t.con.dir # dr THEN a
             ELSE [jet |-> Append(a.jet, t) \o (IF t.id \in DOMAIN done THEN done[t.id] ELSE <<>>),
                   is_tracon |-> t.id \in DOMAIN done],
           [jet |-> <<>>, is_tracon |-> FALSE], tc).jet

(* Every connector just made is cached.                                    *)
Cache(done, jet) ==
  [i \in DOMAIN done \cup {jet[k].id : k \in DOMAIN jet} |->
     IF i \in DOMAIN done THEN done[i]
     ELSE LET k == CHOOSE k \in DOMAIN jet : jet[k].id = i
          IN  SubSeq(jet, k + 1, Len(jet))]

ConsOf(jet) == [k \in DOMAIN jet |-> jet[k].con]

(* The disjuncts of the clauses that have connectors and are not too       *)
(* costly, the last clause first.                                          *)
build_disjunct(cl, node, cost_cutoff) ==
  FoldLeft(LAMBDA a, c :
             IF c.tc = <<>> \/ c.totcost > cost_cutoff THEN a
             ELSE Only({Only({[done |-> Cache(Cache(b.done, j[1]), j[2]),
                               dis  |-> <<[left |-> ConsOf(j[1]), right |-> ConsOf(j[2]),
                                           cost |-> c.totcost, string |-> node.string,
                                           gw |-> {node.gw}]>> \o b.dis]
                               : j \in {<<OneJet(c.tc, "-", b.done), OneJet(c.tc, "+", b.done)>>}})
                        : b \in {a}}),
           [done |-> NoDesc, dis |-> <<>>], cl).dis

(* Too many disjuncts: a random choice of them is kept, the first one      *)
(* always.                                                                 *)
Trims(dis) ==
  IF o.max_disjuncts = 0 \/ Len(dis) <= o.max_disjuncts
    THEN {dis}
    ELSE {<<Head(dis)>> \o [i \in 1..Cardinality(s) |-> dis[CHOOSE k \in s :
                              Cardinality({m \in s : m < k}) = i - 1]] : s \in SUBSET (2..Len(dis))}

build_disjuncts_for_exp(node) ==
  build_disjunct(build_clause(node.exp, 0).cl, node, o.disjunct_cost)

(* build_sentence_disjuncts(): one word; the disjuncts of its later        *)
(* X_nodes come first.                                                     *)
BuildWord ==
  /\ pc = "build" /\ w \in Words
  /\ \E ds \in {[i \in DOMAIN x[w] |-> build_disjuncts_for_exp(x[w][i])]} :
       \E kept \in [DOMAIN ds -> UNION {Trims(ds[i]) : i \in DOMAIN ds}] :
         /\ \A i \in DOMAIN ds : kept[i] \in Trims(ds[i])
         /\ d' = [d EXCEPT ![w] = FlattenSeq(Reverse([i \in 1..Len(ds) |-> kept[i]]))]
         /\ trimmed' = (trimmed \/ kept # ds)
  /\ w' = w + 1
  /\ UNCHANGED <<sent, opts, x, ct, deleted, dir, pc>>

BuildEnd ==
  /\ pc = "build" /\ w \notin Words
  /\ pc' = "duplicates" /\ w' = 0
  /\ UNCHANGED <<sent, opts, x, ct, deleted, dir, d, trimmed>>

-----------------------------------------------------------------------------
(* prepare_to_parse(), after the disjuncts are built *)

disjuncts_equal(a, b) == a.left = b.left /\ a.right = b.right /\ a.string = b.string

Merge(dx, dj) == [dx EXCEPT !.cost = MIN(@, dj.cost), !.gw = @ \cup dj.gw]

eliminate_duplicate_disjuncts(list) ==
  FoldLeft(LAMBDA a, dj :
             IF \E k \in DOMAIN a : disjuncts_equal(a[k], dj)
               THEN [k \in DOMAIN a |-> IF disjuncts_equal(a[k], dj) THEN Merge(a[k], dj) ELSE a[k]]
               ELSE Append(a, dj),
           <<>>, list)

EliminateWord ==
  /\ pc = "duplicates" /\ w \in Words
  /\ d' = [d EXCEPT ![w] = eliminate_duplicate_disjuncts(@)]
  /\ w' = w + 1
  /\ UNCHANGED <<sent, opts, x, ct, deleted, dir, trimmed, pc>>

Fits(v, dj) == v - Len(dj.left) >= 0 /\ v + Len(dj.right) < length

(* setup_connectors() *)
SetupConnectors ==
  /\ pc = "duplicates" /\ w \notin Words
  /\ d' = [v \in Words |-> Reverse(SelectSeq(d[v], LAMBDA dj : Fits(v, dj)))]
  /\ pc' = "done"
  /\ UNCHANGED <<sent, opts, x, ct, deleted, dir, w, trimmed>>

(* sentence_parse() again, with other options: the disjuncts are freed,    *)
(* the expressions stay as they are.                                       *)
Reparse ==
  /\ pc = "done" /\ Len(opts) = 1
  /\ \E op \in Options : opts' = Append(opts, op)
  /\ StartPrune(x)
  /\ d' = [v \in Words |-> <<>>]
  /\ trimmed' = FALSE
  /\ UNCHANGED sent

Init ==
  /\ sent \in Sentences
  /\ \E op \in Options : opts = <<op>>
  /\ x = sent /\ ct = NoDesc /\ deleted = TRUE /\ dir = "-" /\ w = 0
  /\ d = [v \in Words |-> <<>>]
  /\ trimmed = FALSE
  /\ pc = "prune"

Next == \/ PurgeWord \/ EndPass
        \/ BuildWord \/ BuildEnd
        \/ EliminateWord \/ SetupConnectors
        \/ Reparse

Spec == Init /\ [][Next]_vars

-----------------------------------------------------------------------------
(* What the expressions mean, independently of how they are expanded.      *)

(* The disjuncts of an expression: every way to choose an operand of each  *)
(* OR.  Connectors are listed as the expression has them, nearest first.   *)
RECURSIVE Meaning(_)
Meaning(e) ==
  IF e.type = "CONNECTOR" THEN {[cons |-> <<e.con>>, cost |-> e.cost]}
  ELSE IF e.type = "OR" THEN
    {[m EXCEPT !.cost = @ + e.cost] : m \in UNION {Meaning(e.ops[i]) : i \in DOMAIN e.ops}}
  ELSE
    LET Sum[k \in 0..Len(e.ops)] ==
          IF k = 0 THEN {[cons |-> <<>>, cost |-> e.cost]}
          ELSE {[cons |-> p[1].cons \o p[2].cons, cost |-> p[1].cost + p[2].cost] :
                  p \in Sum[k - 1] \X Meaning(e.ops[k])}
    IN  Sum[Len(e.ops)]

(* The disjuncts of word v that expression exps[v][i] gives.               *)
Expanded(exps) ==
  UNION {UNION {{[v |-> v, string |-> exps[v][i].string, gw |-> exps[v][i].gw,
                  cons |-> m.cons, cost |-> m.cost] : m \in Meaning(exps[v][i].exp)}
                : i \in DOMAIN exps[v]} : v \in Words}

(* Connector c of word v has one to link to among all.                     *)
Reached(c, v, all, op) ==
  IF c.dir = "-"
    THEN \E a \in all : a.v < v /\ \E b \in ToSet(a.cons) :
           b.dir = "+" /\ v <= farthest_word(b, a.v, op) /\ easy_match_desc(b.desc, c.desc)
    ELSE \E a \in all : a.v > v /\ \E b \in ToSet(a.cons) :
           b.dir = "-" /\ v >= farthest_word(b, a.v, op) /\ easy_match_desc(b.desc, c.desc)

(* The largest set of disjuncts whose connectors all have one to link to   *)
(* in the set itself: no other disjunct takes part in any linkage.         *)
RECURSIVE Useful(_, _)
Useful(all, op) ==
  LET keep == {a \in all : \A c \in ToSet(a.cons) : Reached(c, a.v, all, op)}
  IN  IF keep = all THEN all ELSE Useful(keep, op)

(* The options of the second parse allow no connector to be longer.        *)
NotLonger(op, before) ==
  \A a \in Expanded(sent) : \A c \in ToSet(a.cons) :
    get_connector_length_limit(c.desc, op) <= get_connector_length_limit(c.desc, before)

(* expression_prune() deletes all that it can and nothing else: what the   *)
(* expressions mean afterwards, costs included, is the largest set of      *)
(* disjuncts whose connectors can all be matched.  This also holds when    *)
(* the expressions were pruned before, for an earlier parse of the         *)
(* sentence, unless a connector may now be longer than it could then.      *)
PrunedExactly ==
  (pc = "build" /\ w = 0) =>
    \A m \in {Expanded(x)}, r \in {Useful(Expanded(sent), o)} :
      IF \A i \in DOMAIN opts : NotLonger(o, opts[i]) THEN m = r ELSE m \subseteq r

Jet(cons, dr) == Reverse(SelectSeq(cons, LAMBDA c : c.dir = dr))

(* The disjuncts that are handed to the parser are those the expressions   *)
(* of the words mean, within the cost limit and the length of the          *)
(* sentence: none is missing or damaged by the tracons that                *)
(* build_disjunct() shares between clauses, each occurs once, with the     *)
(* least of its costs and the words of all its origins.                    *)
DisjunctsExact ==
  (pc = "done" /\ ~trimmed) =>
    \A all \in {Expanded(x)} : \A v \in Words :
      \A mine \in {{[left |-> Jet(a.cons, "-"), right |-> Jet(a.cons, "+"),
                     string |-> a.string, gw |-> a.gw, cost |-> a.cost] :
                      a \in {b \in all : b.v = v /\ b.cons # <<>> /\ b.cost <= o.disjunct_cost}}} :
        /\ \A i, j \in DOMAIN d[v] : disjuncts_equal(d[v][i], d[v][j]) => i = j
        /\ ToSet(d[v]) =
             {[left |-> m.left, right |-> m.right, string |-> m.string,
               cost |-> CHOOSE c \in {n.cost : n \in {k \in mine : disjuncts_equal(k, m)}} :
                          \A n \in mine : disjuncts_equal(n, m) => c <= n.cost,
               gw |-> {n.gw : n \in {k \in mine : disjuncts_equal(k, m)}}]
              : m \in {k \in mine : Fits(v, k)}}
=============================================================================
