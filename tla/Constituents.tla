--------------------------- MODULE Constituents ----------------------------
(***************************************************************************)
(* The constituent tree of a linkage (constituents.c): constituents are    *)
(* read from the domains that post-processing with the HPSG knowledge      *)
(* finds, complements are generated, the spans are adjusted until they are *)
(* nested, printed as a bracketed string, and the string is parsed into a  *)
(* tree.                                                                   *)
(*                                                                         *)
(* A word is known by its place; its string is "," or "when" or "$" or     *)
(* another.  The first word is the left wall and the last one the right    *)
(* wall.  A constituent is a record [type, link, dom, left, right, valid]; *)
(* link is the name of its start link.                                     *)
(***************************************************************************)
EXTENDS PPDomains, FiniteSetsExt

CONSTANTS Trees   \* the linkages printed: records [word, links]

VARIABLES
  linkage,   \* the linkage printed
  domains,   \* constituent_pp->pp_data.domain_array
  cons,      \* ctxt->constituent
  stage,     \* where do_print_flat_constituents() is
  step,      \* the domain, the case of gen_comp() or the word it is at
  out        \* the tokens printed

cvars == <<linkage, domains, cons, stage, step, out>>

links == linkage.links
word == linkage.word
Last1 == NumWords - 2          \* the last word that is not a wall

N(uc, sub) == [uc |-> uc, sub |-> sub]
Match(s, name) == PostProcessMatch(s, name)
MatchAny(ss, name) == LinksetMatch(ss, name)

Comma(w) == word[w] = ","
SkipComma(w) == IF Comma(w) THEN w + 1 ELSE w

(* adjust_for_left_comma(), adjust_for_right_comma() *)
AdjustLeft(c) == [c EXCEPT !.left = SkipComma(@)]
AdjustRight(c) == [c EXCEPT !.right = IF Comma(@) \/ @ = NumWords - 1 THEN @ - 1 ELSE @]

-----------------------------------------------------------------------------
(* generate_misc_word_info() *)

Finite(name) == name.uc \in {"S", "SX", "SF"}

TypeBy(l) ==
  LET name == links[l].name
      next == {links[k].name : k \in {j \in DOMAIN links : links[j].lw = links[l].rw}}
  IN  IF Finite(name)
      THEN IF \E m \in next : m.uc \in {"I", "PP"} \/ MatchAny({N("P", <<"g", "#", "b">>), N("P", <<"v">>)}, m)
           THEN "PTYPE" ELSE "STYPE"
      ELSE IF Match(N("QI", <<"#", "d">>), name)
      THEN IF \E m \in next : Match(N("D", <<"#", "#", "w">>), m) THEN "QDTYPE" ELSE "QTYPE"
      ELSE IF MatchAny({N("M", <<"r">>), N("MX", <<"#", "d">>)}, name) THEN "QDTYPE" ELSE "NONE"

(* The last link that gives the word a type decides. *)
wordtype(w) ==
  LET by == {l \in DOMAIN links : links[l].rw = w /\ TypeBy(l) # "NONE"}
  IN  IF by = {} THEN "NONE" ELSE TypeBy(Max(by))

-----------------------------------------------------------------------------
(* read_constituents_from_domains(): the constituents of one domain.       *)

cons_of_domain ==
  [a |-> "ADJP", b |-> "SBAR", c |-> "VP", d |-> "QP", e |-> "ADVP", f |-> "SBAR", g |-> "PP",
   h |-> "QP", i |-> "ADVP", k |-> "PRT", n |-> "NP", p |-> "PP", q |-> "SINV", s |-> "S",
   t |-> "VP", u |-> "ADJP", v |-> "VP", y |-> "NP", z |-> "VP"]

(* add_constituent(): the bounds are kept off the walls; "negative" is the *)
(* failed assertion.                                                       *)
add_constituent(d, l, r, type) ==
  LET left  == Min({Max({l, 1}), Last1})
      right == Min({r, Last1})
  IN  <<[type |-> IF left <= right THEN type ELSE "negative", link |-> links[d.start].name,
         dom |-> d.type, left |-> left, right |-> right, valid |-> TRUE]>>

When(cond, seq) == IF cond THEN seq ELSE <<>>

(* The span of a domain: from the right word of its start link, or for     *)
(* some domains the left one, as far as its links go.                      *)
FromLeft(d) == d.type \in {"c", "d", "e", "f", "g", "u", "y"}
Span(d) ==
  LET root  == IF FromLeft(d) THEN links[d.start].lw ELSE links[d.start].rw
      limit == IF FromLeft(d) THEN 0 ELSE links[d.start].lw + 1
      lws   == {links[l].lw : l \in ToSet(d.lol)}
  IN  [left  |-> Min({root} \cup {w \in lws : w >= limit}),
       right |-> Max({root} \cup {links[l].rw : l \in ToSet(d.lol)})]

(* The question word of a clause, and the S after it when it is a          *)
(* determiner.                                                             *)
QuestionWord(d, w, right) ==
  LET verbs == {v \in (w + 1)..(right - 1) : wordtype(v) \in {"STYPE", "PTYPE"}}
      w2    == IF verbs = {} THEN Max({w + 1, right}) ELSE Min(verbs)
      one(type) == add_constituent(d, w, w, type)
  IN  CASE wordtype(w) = "NONE" -> one("WHADVP")
        [] wordtype(w) = "QTYPE" -> one("WHNP")
        [] wordtype(w) = "QDTYPE" ->
             <<[one("WHNP")[1] EXCEPT !.right = w2 - 1]>> \o add_constituent(d, w2, right, "S")
        [] OTHER -> one("negative")

(* The tests look at the name of the start link, which all constituents of *)
(* the domain have.                                                        *)
ReadDomain(d) ==
  LET name  == links[d.start].name
      l     == Span(d).left
      r     == Span(d).right
      w     == SkipComma(l)
      start == links[d.start].lw
      add(a, b, type) == add_constituent(d, a, b, type)
      main  == add(l, r, cons_of_domain[d.type])[1]
      isCP  == name.uc = "CP"
      first == IF isCP /\ Comma(l) THEN [main EXCEPT !.left = @ + 1] ELSE main
  IN  <<first>>
      \o When(d.type \in {"z", "c"}, add(l, r, "S"))
      \o When(MatchAny({N("C", <<"e", "*">>), N("R", <<"n">>)}, name), add(l, r, "SBAR"))
      \o When(MatchAny({N("R", <<"*">>), N("MX", <<"#", "r">>)}, name), add(w, w, "WHNP"))
      \o When(Match(N("M", <<"j">>), name), add(w, w + 1, "WHPP") \o add(w + 1, w + 1, "WHNP"))
      \o When(MatchAny({N("S", <<"s", "#", "d">>), N("B", <<"#", "d">>)}, name),
              add(start, start, "WHNP") \o add(start, main.right, "SBAR"))
      \o When(isCP, add(1, NumWords - 1, "S"))
      \o When((Match(N("MV", <<"s">>), name) \/ d.type = "f") /\ word[SkipComma(main.left)] = "when",
              add(SkipComma(main.left), SkipComma(main.left), "WHADVP"))
      \o When(d.type = "t", add(l, r, "S"))
      \o When(MatchAny({N("QI", <<>>), N("M", <<"r">>), N("MX", <<"#", "d">>)}, name),
              QuestionWord(d, w, r))

-----------------------------------------------------------------------------
(* gen_comp(): for a constituent c1 of type1 the smallest larger one of    *)
(* type2; what it has besides c1 becomes a new constituent of type3.       *)

Case(type1, type2, type3, x) == [type1 |-> type1, type2 |-> type2, type3 |-> type3, x |-> x]

Cases ==
  <<Case("SBAR", "S", "S", "OPENER"), Case("PP", "S", "S", "PPOPEN"), Case("S", "S", "S", "PART_OPEN"),
    Case("VP", "S", "NP", "S"), Case("SBAR", "NP", "NP", "REL_CLAUSE"), Case("VP", "NP", "NP", "PART_MOD"),
    Case("PP", "NP", "NP", "PART_MOD"), Case("NP", "NP", "NP", "APPOS"), Case("NP", "SINV", "VP", "SVINV")>>

Qualifies(x, c) ==
  LET m(ss) == MatchAny(ss, c.link)
  IN  /\ c.dom # "z"
      /\ CASE x = "APPOS" -> m({N("MX", <<"#", "*">>)})
           [] x = "S" -> m({N("S", <<>>), N("SX", <<>>), N("SF", <<>>)}) /\ ~m({N("S", <<"#", "#", "w">>)})
           [] x = "REL_CLAUSE" -> m({N("R", <<"n">>), N("R", <<"*">>), N("MX", <<"#", "r">>),
                                     N("M", <<"r">>), N("MX", <<"#", "d">>)})
           [] x = "OPENER" -> c.dom = "f"
           [] x = "PPOPEN" -> c.dom = "g"
           [] x = "SVINV" -> m({N("SI", <<>>)})
           [] x = "PART_MOD" -> m({N("M", <<>>)})
           [] x = "PART_OPEN" -> m({N("CO", <<"p">>)})

(* The first constituent of the type met when the left bound moves left    *)
(* and, for each place of it, the right bound moves right.                 *)
Larger(cs, n, c1, type) ==
  LET found == {c \in (1..n) \ {c1} : /\ cs[c].type = type
                                      /\ cs[c].left <= cs[c1].left /\ cs[c].right >= cs[c1].right}
      before(a, b) == \/ cs[a].left > cs[b].left
                      \/ cs[a].left = cs[b].left /\ cs[a].right < cs[b].right
                      \/ cs[a].left = cs[b].left /\ cs[a].right = cs[b].right /\ a <= b
  IN  {c \in found : \A b \in found : before(c, b)}

(* The new constituent for c1 inside c2, if there is anything of c2 on     *)
(* that side of c1.                                                        *)
Complement(k, c1, c2) ==
  LET opens == k.x \in {"OPENER", "PPOPEN", "PART_OPEN"}
      left  == IF opens THEN c1.right + 1 ELSE c2.left
      right == IF opens THEN c2.right ELSE c1.left - 1
  IN  When(left <= right, <<[type |-> k.type3, link |-> N("XX", <<>>), dom |-> "x",
                             left |-> left, right |-> right, valid |-> TRUE]>>)

GenOne(k, n, cs, c1) ==
  LET c2s == Larger(cs, n, c1, k.type2)
      new == Complement(k, cs[c1], cs[CHOOSE c \in c2s : TRUE])
  IN  IF cs[c1].type = k.type1 /\ Qualifies(k.x, cs[c1]) /\ c2s # {} /\ new # <<>>
      THEN [cs EXCEPT ![c1] = AdjustRight(AdjustLeft(@))] \o new
      ELSE cs

gen_comp(k, cs) ==
  FoldLeft(LAMBDA a, c1 : Once(GenOne(k, Len(cs), a, c1)), cs, [i \in 1..Len(cs) |-> i])

-----------------------------------------------------------------------------
(* adjust_subordinate_clauses(): verb and adjective phrases around an      *)
(* MVs or MVg constituent, up to an S or NP, end before it.                *)

Subordinate(cs, c) ==
  LET inside(d) == cs[d].left < cs[c].left /\ cs[d].right >= cs[c].right
      stops == {d \in DOMAIN cs : inside(d) /\ cs[d].type \in {"S", "NP"}}
      \* the leftward search meets d before a stop
      seen(d) == \A s \in stops : \/ cs[s].left < cs[d].left
                                  \/ cs[s].left = cs[d].left /\ d < s
      cut == {d \in DOMAIN cs : inside(d) /\ seen(d) /\ cs[d].dom \in {"v", "a"}}
  IN  [d \in DOMAIN cs |-> IF d \in cut THEN [cs[d] EXCEPT !.right = cs[c].left - 1]
                           ELSE IF d = c THEN AdjustLeft(cs[d]) ELSE cs[d]]

adjust_subordinate_clauses(cs) ==
  FoldLeft(LAMBDA a, c : IF MatchAny({N("MV", <<"s">>), N("MV", <<"g">>)}, a[c].link)
                         THEN Once(Subordinate(a, c)) ELSE a,
           cs, [i \in 1..Len(cs) |-> i])

(* A prepositional phrase does not begin with a comma. *)
TrimPhrase(c) == IF c.dom = "p" THEN AdjustLeft(c) ELSE c

-----------------------------------------------------------------------------
(* The loop that makes the constituents nested: c with all others.         *)

Overlap(a, b) == a.left < b.left /\ a.right < b.right /\ a.right >= b.left

Shift(p, c, c2) == [p EXCEPT !.cs[c].left = p.cs[c2].left]

NestPair(p, c, c2) ==
  LET a == p.cs[c]
      b == p.cs[c2]
  IN  IF ~Overlap(a, b) THEN p
      ELSE IF Comma(b.right) \/ b.right = NumWords - 1
      THEN [cs |-> [p.cs EXCEPT ![c2] = AdjustRight(@)], adjusted |-> TRUE]
      ELSE IF Comma(a.left) THEN [cs |-> [p.cs EXCEPT ![c] = AdjustLeft(@)], adjusted |-> TRUE]
      ELSE Shift(p, c, c2)

NestWith(c) ==
  FoldLeft(LAMBDA p, c2 : Once(NestPair(p, c, c2)), [cs |-> cons, adjusted |-> FALSE],
           [i \in 1..Len(cons) |-> i])

-----------------------------------------------------------------------------
(* merge_constituents(): of identical constituents the first stays valid.  *)

Same(a, b) == a.left = b.left /\ a.right = b.right /\ a.type = b.type

merge_constituents(cs) ==
  [c \in DOMAIN cs |-> [cs[c] EXCEPT !.valid = \A b \in 1..(c - 1) : ~Same(cs[b], cs[c])]]

(* last_minute_fixes(): the first loop. *)
Fixed(c) ==
  LET possessive == c.link.uc \in {"YS", "YP"}
      right == IF possessive THEN c.right + 1 ELSE c.right
      single == right = c.left /\ (Match(N("A", <<>>), c.link) \/ c.dom \in {"d", "h"})
      hidden == c.link.uc = "CP" \/ (c.link = N("W", <<"d", "c">>) /\ c.left = 2) \/ single
      noun == c.link \in {N("MV", <<"p", "n">>), N("CO", <<"n">>), N("M", <<"p", "n">>)}
      priced == c.dom = "h" /\ word[c.left - 1] = "$"
  IN  [c EXCEPT !.right = right, !.valid = @ /\ ~hidden,
                !.type = IF noun THEN "NP" ELSE @, !.left = IF priced THEN @ - 1 ELSE @]

(* The main S takes in the final punctuation. *)
Punctuated(c) ==
  IF /\ c.left = 1 /\ c.right = NumWords - 3 /\ c.type = "S"
     /\ \E l \in DOMAIN links : links[l].lw = NumWords - 2 /\ links[l].rw = NumWords - 1
  THEN [c EXCEPT !.right = @ + 1] ELSE c

GlobalS == [type |-> "S", link |-> N("", <<>>), dom |-> "x", left |-> 1, right |-> NumWords - 1, valid |-> TRUE]

(* An S for the whole sentence, if none starts at its left end or none     *)
(* ends at its right end.                                                  *)
WithGlobalS(fixed) ==
  LET main == {c \in ToSet(fixed) : c.type = "S" /\ c.valid}
  IN  fixed \o When({c \in main : c.left = 1} = {} \/ {c \in main : c.right >= Last1} = {}, <<GlobalS>>)

last_minute_fixes(cs) == WithGlobalS(Once([c \in DOMAIN cs |-> Punctuated(Fixed(cs[c]))]))

-----------------------------------------------------------------------------
(* exprint_constituent_structure(): at each word the constituents that     *)
(* open, the widest first, the word, and those that close, the narrowest   *)
(* first; of equal ones the last opens first and the first closes first.   *)

InOrder(S, before(_, _)) ==
  [p \in 1..Cardinality(S) |-> CHOOSE c \in S : Cardinality({b \in S : before(b, c)}) = p - 1]

(* Mutant: of equal ones the first opens first. *)
WiderFirst(b, c) == cons[b].right > cons[c].right \/ (cons[b].right = cons[c].right /\ b < c)

Wider(b, c) == cons[b].right > cons[c].right \/ (cons[b].right = cons[c].right /\ b > c)
Narrower(b, c) == cons[b].left > cons[c].left \/ (cons[b].left = cons[c].left /\ b < c)

Opening(w) == InOrder({c \in DOMAIN cons : cons[c].valid /\ cons[c].left = w}, Wider)
Closing(w) == InOrder({c \in DOMAIN cons : cons[c].valid /\ cons[c].right = w /\ cons[c].left >= 0}, Narrower)

Tokens(kind, s) == [k \in 1..Len(s) |-> [t |-> kind, n |-> s[k]]]

WordTokens(w) ==
  Tokens("[", Opening(w)) \o When(w < NumWords - 1, <<[t |-> "word", n |-> w]>>) \o Tokens("]", Closing(w))

-----------------------------------------------------------------------------
(* linkage_constituent_tree(): parse_string() reads the tokens up to the   *)
(* one that closes the root.  stack has the labels of the open nodes.      *)

ParseToken(p, tok) ==
  IF p.stack = <<>> /\ p.started THEN p
  ELSE CASE tok.t = "[" -> [p EXCEPT !.stack = Append(@, cons[tok.n].type), !.started = TRUE]
         [] tok.t = "word" -> [p EXCEPT !.leaves = Append(@, tok.n), !.ok = @ /\ p.stack # <<>>]
         [] tok.t = "]" -> IF p.stack # <<>> /\ Last(p.stack) = cons[tok.n].type
                           THEN [p EXCEPT !.stack = Front(@)] ELSE [p EXCEPT !.ok = FALSE]

parse_string ==
  FoldLeft(LAMBDA p, tok : Once(ParseToken(p, tok)),
           [stack |-> <<>>, started |-> FALSE, ok |-> TRUE, leaves |-> <<>>], out)

-----------------------------------------------------------------------------
CInit ==
  /\ linkage \in Trees
  /\ domains = BuildDomains(linkage.links)
  /\ cons = <<>> /\ stage = "read" /\ step = 1 /\ out = <<>>

Read ==
  /\ stage = "read" /\ step <= Len(domains)
  /\ cons' = cons \o ReadDomain(domains[step])
  /\ step' = step + 1
  /\ stage' = IF \E c \in ToSet(cons') : c.type = "negative" THEN "assert" ELSE "read"
  /\ UNCHANGED <<linkage, domains, out>>

Generate ==
  /\ stage = "read" /\ step \in Len(domains) + 1..Len(domains) + Len(Cases)
  /\ cons' \in {gen_comp(Cases[step - Len(domains)], cons)}
  /\ step' = step + 1
  /\ UNCHANGED <<linkage, domains, stage, out>>

Adjust ==
  /\ stage = "read" /\ step > Len(domains) + Len(Cases)
  /\ \E cs \in {adjust_subordinate_clauses(cons)} : cons' = [c \in DOMAIN cs |-> TrimPhrase(cs[c])]
  /\ stage' = "nest" /\ step' = 1
  /\ UNCHANGED <<linkage, domains, out>>

(* One constituent with all others; after a pass with a comma adjusted     *)
(* there is another pass.                                                  *)
Nest ==
  /\ stage \in {"nest", "again"} /\ step <= Len(cons)
  /\ \E p \in {NestWith(step)} :
       cons' = p.cs /\ stage' = IF p.adjusted THEN "again" ELSE stage
  /\ step' = step + 1
  /\ UNCHANGED <<linkage, domains, out>>

NestPass ==
  /\ stage \in {"nest", "again"} /\ step > Len(cons)
  /\ stage' = IF stage = "again" THEN "nest" ELSE "fix"
  /\ step' = 1
  /\ UNCHANGED <<linkage, domains, cons, out>>

Fix ==
  /\ stage = "fix"
  /\ \E cs \in {merge_constituents(cons)} : cons' = last_minute_fixes(cs)
  /\ stage' = "print" /\ step' = 1
  /\ UNCHANGED <<linkage, domains, out>>

PrintWord ==
  /\ stage = "print" /\ step < NumWords
  /\ out' = out \o WordTokens(step)
  /\ step' = step + 1
  /\ UNCHANGED <<linkage, domains, cons, stage>>

(* A failed assertion of parse_string() ends the program. *)
BuildTree ==
  /\ stage = "print" /\ step = NumWords
  /\ stage' = IF parse_string.ok /\ parse_string.stack = <<>> THEN "tree" ELSE "assert"
  /\ UNCHANGED <<linkage, domains, cons, step, out>>

CNext == Read \/ Generate \/ Adjust \/ Nest \/ NestPass \/ Fix \/ PrintWord \/ BuildTree

CSpec == CInit /\ [][CNext]_cvars

-----------------------------------------------------------------------------
(* The constituent tree of every sentence is built and has all its words,  *)
(* in order: the trimmed, extended and generated spans are nested when     *)
(* they are printed, brackets that open or close at the same word are      *)
(* printed in an order that agrees, so that parse_string()'s assertions    *)
(* hold, and there is one S around everything.                             *)
WholeTree ==
  stage \in {"tree", "assert"} =>
    stage = "tree" /\ parse_string.leaves = [k \in 1..Last1 |-> k]
=============================================================================
