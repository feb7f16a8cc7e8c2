------------------------------ MODULE SatParse ------------------------------
(***************************************************************************)
(* The SAT parser (sat-solver/sat-encoder.cpp, word-tag.cpp,               *)
(* variables.hpp): a sentence is encoded as clauses over variables for     *)
(* links and for parts of expressions, the solver is asked for one model   *)
(* after another, a model that is not connected adds clauses that demand   *)
(* the missing links, and one that is becomes a linkage and is prohibited. *)
(*                                                                         *)
(* The clauses are represented by what satisfies them: models is the set   *)
(* of link sets that are true in some model of all clauses so far.  All    *)
(* other variables are defined by clauses in terms of the link variables,  *)
(* but for those of empty expressions, which may be true or false.         *)
(*                                                                         *)
(* A connector is known by <<w, p>>: its word and its path p in the word's *)
(* expression.  A link is a pair of connectors.  Word 0 is not optional.   *)
(***************************************************************************)
EXTENDS Integers, Sequences, FiniteSets, SequencesExt, FiniteSetsExt

CONSTANTS
  Sentences,   \* a sequence of words [x, optional]; x: [exp, alt] for each X_node
  Rules,       \* contains-one rules: [selector, link_set] of link names
  BadNames,    \* names of links that violate another rule
  Cutoff,      \* opts->disjunct_cost
  Limit        \* opts->linkage_limit

VARIABLES
  sent,
  models,      \* the link sets that satisfy all clauses
  lnkages,     \* the linkages produced so far
  asked,       \* get_next_linkage() is running for "parse" or for "create"
  k,           \* the index of sat_parse()'s loop
  num_valid,   \* sent->num_valid_linkages
  answer,      \* what linkage_create() gave last: an index, or 0 for NULL
  all          \* the complete linkages of the sentence, by definition

vars == <<sent, models, lnkages, asked, k, num_valid, answer, all>>

Words == 0..(Len(sent) - 1)
Word(w) == sent[w + 1]

-----------------------------------------------------------------------------
(* build_word_tags(): the connectors of the words.                         *)

(* join_alternatives() *)
Expr(w) ==
  LET x == Word(w).x
  IN  IF Len(x) = 1 THEN x[1].exp
      ELSE [t |-> "or", ops |-> [i \in DOMAIN x |-> x[i].exp], cost |-> 0]

RECURSIVE Sub(_, _)
Sub(e, p) == IF p = <<>> THEN e ELSE Sub(e.ops[Head(p)], Tail(p))

(* insert_connectors(): the paths of the connectors below an expression.   *)
RECURSIVE Leaves(_, _)
Leaves(e, p) ==
  IF e.t = "con" THEN {p} ELSE UNION {Leaves(e.ops[i], Append(p, i)) : i \in DOMAIN e.ops}

Connectors(w) == IF Word(w).x = <<>> THEN {} ELSE {<<w, p>> : p \in Leaves(Expr(w), <<>>)}

Con(c) == Sub(Expr(c[1]), c[2])
AltOf(c) == IF Len(Word(c[1]).x) = 1 THEN Word(c[1]).x[1].alt ELSE Word(c[1]).x[c[2][1]].alt

(* match(): in reach of each other, of compatible alternatives, and equal. *)
match(c, d) ==
  /\ Con(c).name = Con(d).name /\ Con(c).dir = "+" /\ Con(d).dir = "-"
  /\ d[1] - c[1] <= Con(c).far /\ d[1] - c[1] <= Con(d).far
  /\ (AltOf(c) = 0 \/ AltOf(d) = 0 \/ AltOf(c) = AltOf(d))

(* add_matches_with_word(): the link variables.                            *)
LinkVars ==
  UNION {{<<c, d>> \in Connectors(p[1]) \X Connectors(p[2]) : match(c, d)} :
           p \in {q \in Words \X Words : q[1] < q[2]}}

(* Variables that the links T define: link_cw and linked.                  *)
LinkWords(T, c) == {l[2][1] : l \in {m \in T : m[1] = c}} \cup {l[1][1] : l \in {m \in T : m[2] = c}}
Used(T) == {l[1] : l \in T} \cup {l[2] : l \in T}
Linked(T) == {<<l[1][1], l[2][1]>> : l \in T}
Present(T) == {w \in Words : ~Word(w).optional \/ \E c \in Used(T) : c[1] = w}

-----------------------------------------------------------------------------
(* The clauses, by what satisfies them.                                    *)

(* A connector is true when it is linked, to one word unless it is a multi *)
(* connector, and by one link to each word.                                *)
generate_satisfaction_for_connector(T, c) ==
  /\ \A l, m \in T : l # m /\ c \in {l[1], l[2]} /\ c \in {m[1], m[2]}
                      => <<l[1][1], l[2][1]>> # <<m[1][1], m[2][1]>>
  /\ ~Con(c).multi => Cardinality(LinkWords(T, c)) <= 1

(* The values that the variable of an expression may have: all operands of *)
(* an AND have the value of the AND; of an OR one at most is true.  What   *)
(* costs too much is not true.                                             *)
RECURSIVE Values(_, _, _, _, _)
Values(T, w, e, p, parent_cost) ==
  LET cost == parent_cost + e.cost
      dear == IF cost > Cutoff THEN {TRUE} ELSE {}
      of == [i \in DOMAIN e.ops |-> Values(T, w, e.ops[i], Append(p, i), cost)]
  IN  IF e.t = "con" THEN {(<<w, p>> \in Used(T))} \ dear
      ELSE IF e.ops = <<>> THEN BOOLEAN \ dear
      ELSE IF e.t = "and" THEN {v \in BOOLEAN : \A i \in DOMAIN of : v \in of[i]}
      ELSE (IF \A i \in DOMAIN of : FALSE \in of[i] THEN {FALSE} ELSE {})
           \cup (IF \E i \in DOMAIN of : TRUE \in of[i] /\ \A j \in DOMAIN of \ {i} : FALSE \in of[j]
                 THEN {TRUE} ELSE {})

(* The word is true, or, if it is optional, true when it has a link.       *)
generate_satisfaction_conditions(T) ==
  \A w \in Words :
    IF Word(w).x = <<>> THEN Word(w).optional
    ELSE (w \in Present(T)) \in Values(T, w, Expr(w), <<>>, 0)

(* An expression that may do without connectors in this direction.         *)
RECURSIVE empty_connectors(_, _)
empty_connectors(e, dir) ==
  CASE e.t = "con" -> e.dir # dir
    [] e.t = "or" -> \E i \in DOMAIN e.ops : empty_connectors(e.ops[i], dir)
    [] e.t = "and" -> \A i \in DOMAIN e.ops : empty_connectors(e.ops[i], dir)

(* The connectors that may be the last and the first ones of an expression *)
(* in this direction; of an AND, operands from the i-th one on.            *)
RECURSIVE trailing_connectors(_, _, _)
trailing_connectors(e, p, dir) ==
  IF e.t = "con" THEN (IF e.dir = dir THEN {p} ELSE {})
  ELSE UNION {trailing_connectors(e.ops[i], Append(p, i), dir) :
                i \in {j \in DOMAIN e.ops : \/ e.t = "or" \/ j = Len(e.ops)
                                            \/ empty_connectors(e.ops[j + 1], dir)}}

RECURSIVE leading_connectors(_, _, _, _)
leading_connectors(e, p, dir, first) ==
  IF e.t = "con" THEN (IF e.dir = dir THEN {p} ELSE {})
  ELSE UNION {leading_connectors(e.ops[i], Append(p, i), dir, 1) :
                i \in {j \in first..Len(e.ops) :
                         e.t = "or" \/ \A h \in first..(j - 1) : empty_connectors(e.ops[h], dir)}}

(* An operand against the next one only.                                   *)
OrderNext(T, w, e, p, i) ==
  \A dir \in {"+", "-"} :
    \A c \in trailing_connectors(e.ops[i], Append(p, i), dir),
       d \in leading_connectors(e.ops[i + 1], Append(p, i + 1), dir, 1) :
      \A m \in LinkWords(T, <<w, c>>), n \in LinkWords(T, <<w, d>>) : IF dir = "+" THEN m < n ELSE m > n

(* An operand against the AND of all that follow.                          *)
generate_conjunct_order_constraints(T, w, e, p, i) ==
  \A dir \in {"+", "-"} :
    \A c \in trailing_connectors(e.ops[i], Append(p, i), dir), d \in leading_connectors(e, p, dir, i + 1) :
      \A m \in LinkWords(T, <<w, c>>), n \in LinkWords(T, <<w, d>>) : IF dir = "+" THEN m < n ELSE m > n

RECURSIVE Ordered(_, _, _, _)
Ordered(T, w, e, p) ==
  \/ e.t = "con"
  \/ /\ \A i \in DOMAIN e.ops : Ordered(T, w, e.ops[i], Append(p, i))
     /\ e.t = "and" => \A i \in 1..(Len(e.ops) - 1) : generate_conjunct_order_constraints(T, w, e, p, i)

generate_planarity_conditions(T) ==
  \A l, m \in Linked(T) : ~(l[1] < m[1] /\ m[1] < l[2] /\ l[2] < m[2])

(* pp_prune(): where a link is that a rule is about, one of the links that *)
(* the rule asks for is in the sentence.                                   *)
Name(l) == Con(l[1]).name
pp_prune(T) ==
  \A r \in Rules : (\E l \in T : Name(l) = r.selector) => \E l \in T : Name(l) \in r.link_set

(* The connectors before <<w, p>>, in this direction, in the same          *)
(* conjunction: those that its epsilon variables are about.                *)
Before(c, dir) ==
  {d \in Connectors(c[1]) :
     /\ Con(d).dir = dir
     /\ \E n \in 0..(Len(c[2]) - 1) :
          /\ Len(d[2]) > n /\ SubSeq(d[2], 1, n) = SubSeq(c[2], 1, n) /\ d[2][n + 1] < c[2][n + 1]
          /\ Sub(Expr(c[1]), SubSeq(c[2], 1, n)).t = "and"}

(* power_prune(): over a gap with a word that is not optional, no link may *)
(* join two connectors that are both the deepest ones of their words.      *)
power_prune(T) ==
  \A l \in T :
    l[2][1] > l[1][1] + 2 /\ ~Con(l[1]).multi /\ ~Con(l[2]).multi
      /\ (\E w \in (l[1][1] + 1)..(l[2][1] - 1) : ~Word(w).optional)
    => (Before(l[1], "+") \cup Before(l[2], "-")) \cap Used(T) # {}

encode(T) ==
  /\ \A c \in Used(T) : generate_satisfaction_for_connector(T, c)
  /\ generate_planarity_conditions(T)
  /\ pp_prune(T)
  /\ generate_satisfaction_conditions(T)
  /\ \A w \in Words : Word(w).x # <<>> => Ordered(T, w, Expr(w), <<>>)
  /\ power_prune(T)

-----------------------------------------------------------------------------
(* Decoding.                                                               *)

(* The words of the linkage that the words in ws are connected with.       *)
RECURSIVE ReachFrom(_, _)
ReachFrom(T, ws) ==
  LET more == ws \cup {v \in Words : \E l \in Linked(T) : v \in ToSet(l) /\ ToSet(l) \cap ws # {}}
  IN  IF more = ws THEN ws ELSE ReachFrom(T, more)

Reach(T, w) == ReachFrom(T, {w})

(* connectivity_components() *)
Components(T) == {Reach(T, w) : w \in Present(T)}
Connected(T) == Cardinality(Components(T)) = 1

(* One clause of generate_disconnectivity_prohibiting(): component C has a *)
(* link to a word outside of it; or an optional word at the end of such a  *)
(* link is missing, or a word that is missing in T is there.               *)
ConnectClause(T, C, U) ==
  \/ \E l \in Linked(U) : (l[1] \in C) # (l[2] \in C)
  \/ \E l \in {q \in Words \X Words : q[1] < q[2]} :
       /\ (l[1] \in C) # (l[2] \in C)
       /\ \E w \in {l[1], l[2]} : Word(w).optional /\ w \in Present(T) /\ w \notin Present(U)
  \/ \E w \in Words \ Present(T) : w \in Present(U)

(* With two components, one clause says it all.                            *)
generate_disconnectivity_prohibiting(T, U) ==
  LET first == Reach(T, 0)
      cs == IF Cardinality(Components(T)) = 2 THEN {first} ELSE Components(T)
  IN  \A C \in cs : ConnectClause(T, C, U)

generate_linkage_prohibiting(T, U) == U # T

(* sat_extract_links(): the links, and with them the alternative of each   *)
(* word.                                                                   *)
sat_extract_links(T) == [links |-> T, xnode_word |-> {<<c[1], AltOf(c)>> : c \in Used(T)}]

(* sane_linkage_morphism(): the words are of one alternative.              *)
sane_linkage_morphism(T) == Cardinality({x[2] : x \in sat_extract_links(T).xnode_word} \ {0}) <= 1

(* The post-processing of a linkage.                                       *)
Violates(T) == \E l \in T : Name(l) \in BadNames

-----------------------------------------------------------------------------
(* get_next_linkage(): one round of its loop.                              *)

(* What its caller does with what it returns.                              *)
Finish(linkage) ==
  IF asked = "parse"
  THEN LET last == k + 1 = Limit
           good == linkage # {} /\ ~Violates(linkage)
       IN  /\ asked' = IF linkage = {} \/ good \/ last THEN "" ELSE "parse"
           /\ num_valid' = IF good THEN Limit ELSE 0
           /\ k' = IF linkage = {} \/ good THEN k ELSE k + 1
           /\ UNCHANGED answer
  ELSE /\ asked' = "" /\ answer' = IF linkage = {} THEN 0 ELSE Len(lnkages) + 1
       /\ UNCHANGED <<k, num_valid>>

Unsatisfiable ==
  /\ asked # "" /\ models = {}
  /\ Finish({})
  /\ UNCHANGED <<sent, models, lnkages, all>>

Disconnected ==
  /\ asked # ""
  /\ \E T \in models :
       /\ ~Connected(T)
       /\ models' = {U \in models : generate_disconnectivity_prohibiting(T, U)}
  /\ UNCHANGED <<sent, lnkages, asked, k, num_valid, answer, all>>

Insane ==
  /\ asked # ""
  /\ \E T \in models :
       /\ Connected(T) /\ ~sane_linkage_morphism(T)
       /\ models' = {U \in models : generate_linkage_prohibiting(T, U)}
  /\ UNCHANGED <<sent, lnkages, asked, k, num_valid, answer, all>>

Found ==
  /\ asked # ""
  /\ \E T \in models :
       /\ Connected(T) /\ sane_linkage_morphism(T)
       /\ models' = {U \in models : generate_linkage_prohibiting(T, U)}
       /\ lnkages' = Append(lnkages, T)
       /\ Finish(T)
  /\ UNCHANGED <<sent, all>>

(* sat_create_linkage(): the user asks for linkages by their index.        *)
CreateLinkage ==
  /\ asked = ""
  /\ \E n \in 1..(Limit + 1) :
       /\ n <= Len(lnkages) + 2
       /\ IF n <= Len(lnkages) /\ n <= Limit THEN answer' = n /\ UNCHANGED asked
          ELSE IF n > Limit \/ n > Len(lnkages) + 1 THEN answer' = 0 /\ UNCHANGED asked
          ELSE asked' = "create" /\ answer' = 0
  /\ UNCHANGED <<sent, models, lnkages, k, num_valid, all>>

-----------------------------------------------------------------------------
(* The linkages of a sentence, from disjuncts.                             *)

RECURSIVE Disjuncts(_, _, _)
Disjuncts(e, p, parent_cost) ==
  LET cost == parent_cost + e.cost
      of == [i \in DOMAIN e.ops |-> Disjuncts(e.ops[i], Append(p, i), cost)]
  IN  IF e.t = "con" THEN IF cost > Cutoff THEN {} ELSE {<<p>>}
      ELSE IF e.ops = <<>> THEN IF cost > Cutoff THEN {} ELSE {<<>>}
      ELSE IF e.t = "or" THEN UNION {of[i] : i \in DOMAIN of}
      ELSE FoldLeft(LAMBDA ds, n : {d \o c : d \in ds, c \in n}, {<<>>}, of)

(* The links of a word use the connectors of a disjunct, nearer words      *)
(* first.                                                                  *)
UsesDisjunct(T, w, d) ==
  /\ {c[2] : c \in {b \in Used(T) : b[1] = w}} = ToSet(d)
  /\ \A i \in DOMAIN d : /\ Con(<<w, d[i]>>).multi \/ Cardinality({l \in T : <<w, d[i]>> \in {l[1], l[2]}}) = 1
                         /\ \A j \in DOMAIN d : i < j /\ Con(<<w, d[i]>>).dir = Con(<<w, d[j]>>).dir =>
                              \A m \in LinkWords(T, <<w, d[i]>>), n \in LinkWords(T, <<w, d[j]>>) :
                                IF Con(<<w, d[i]>>).dir = "+" THEN m < n ELSE m > n

Complete(T) ==
  /\ Cardinality(Linked(T)) = Cardinality(T)
  /\ generate_planarity_conditions(T)
  /\ \A w \in Present(T) : /\ Word(w).x # <<>>
                           /\ \E d \in Disjuncts(Expr(w), <<>>, 0) : UsesDisjunct(T, w, d)
  /\ Connected(T) /\ sane_linkage_morphism(T) /\ pp_prune(T)

Init ==
  /\ sent \in Sentences
  /\ models = {T \in SUBSET LinkVars : encode(T)}
  /\ all = {T \in SUBSET LinkVars : Complete(T)}
  /\ lnkages = <<>> /\ asked = "parse" /\ k = 0 /\ num_valid = 0 /\ answer = 0

Next == Unsatisfiable \/ Disconnected \/ Insane \/ Found \/ CreateLinkage

Spec == Init /\ [][Next]_vars

-----------------------------------------------------------------------------
(* Properties.                                                             *)

(* Whatever models the solver happens to find, in whatever order, and      *)
(* whichever clauses their missing connections added, the SAT parser       *)
(* produces linkages of the sentence only, none of them twice, and never   *)
(* prohibits one that it has not produced: what it has produced when it    *)
(* runs out of models is all that the grammar has.  So sat_parse() reports *)
(* valid linkages only when it has one, and reports none only when the     *)
(* limit was reached or there is none.                                     *)
SatExact ==
  /\ IsInjective(lnkages) /\ ToSet(lnkages) \subseteq all
  /\ all \ ToSet(lnkages) \subseteq models
  /\ asked = "" => /\ num_valid > 0 => \E i \in DOMAIN lnkages : ~Violates(lnkages[i])
                   /\ num_valid = 0 /\ k < Limit => \A T \in all : Violates(T)
=============================================================================
