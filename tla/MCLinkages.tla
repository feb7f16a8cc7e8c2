----------------------------- MODULE MCLinkages -----------------------------
(***************************************************************************)
(* TLC instances of what happens to a sentence but for the pruning of its  *)
(* disjuncts: it is tokenized (Tokenize), the expressions of its words are *)
(* pruned and multiplied out (Expressions), its linkages are counted and   *)
(* extracted (ExtractLinks), or found by the SAT parser (SatParse), post-  *)
(* processed (PostProcess) and sorted (SortLinkages).  In a behaviour one  *)
(* of them runs; the others stay as they are.                              *)
(***************************************************************************)
EXTENDS SortLinkages

CONSTANTS MaxStrip, MaxStripAlt, MaxSplits, MaxNulls,
          LinkageLimit, ParseNumOverflow, MaxTries, NumWords, TCD, Cutoff, Limit,
          Sentences   \* the batches of linkages that are post-processed

VARIABLES which,
          text, tpc, gw, queue, todo, wp, word, chosen, wpp,
          esent, eopts, ex, ect, edeleted, edir, eword, edisjunct, trimmed, stage,
          xword, xislands, xpc, xnulls, xtab, xfound, parse_set, x_table, xoverflowed, itry, xlkg, xlnkages,
          sent, lkg, twopass, batch, seen, pruned, one, none, exhausted, from, ppc, n_valid, n_processed,
          ssent, models, produced, asked, tried, num_valid, given, complete

-----------------------------------------------------------------------------
(* Counted and extracted: all sentences of a few words over a small        *)
(* dictionary with chains, triangles, multi-connectors and connectors with *)
(* a length limit.                                                         *)

cA == [uc |-> "A", multi |-> FALSE, limit |-> 9]
cB == [uc |-> "B", multi |-> FALSE, limit |-> 9]
mA == [uc |-> "A", multi |-> TRUE, limit |-> 9]
nA == [uc |-> "A", multi |-> FALSE, limit |-> 1]

Dj(l, r) == [left |-> l, right |-> r]

(* The words: a sequence of disjuncts each.                                *)
Starts   == <<Dj(<<>>, <<cA>>), Dj(<<>>, <<cB, cA>>), Dj(<<>>, <<mA>>)>>
Middle   == <<Dj(<<cA>>, <<cA>>), Dj(<<cA>>, <<>>), Dj(<<>>, <<cA>>), Dj(<<cA>>, <<cB>>)>>
MultiWord    == <<Dj(<<>>, <<mA>>), Dj(<<mA>>, <<>>), Dj(<<mA>>, <<mA>>), Dj(<<cB>>, <<mA>>)>>
NearWord     == <<Dj(<<nA>>, <<>>), Dj(<<>>, <<nA>>), Dj(<<nA>>, <<cA>>), Dj(<<cA, nA>>, <<>>)>>
Ends     == <<Dj(<<cB, cA>>, <<>>), Dj(<<cA>>, <<>>), Dj(<<cA, cA>>, <<>>), Dj(<<cB>>, <<>>)>>
NoWay    == <<>>

WordKinds == {Starts, Middle, MultiWord, NearWord, Ends, NoWay}

(* Enough linkages for indices and for random selection; every kind of     *)
(* word in every place.                                                    *)
FewSentences ==
  [0..2 -> {Starts, Middle, Ends}] \cup [0..1 -> WordKinds]
  \cup {[w \in 0..2 |-> <<a, b, c>>[w + 1]] : a \in {Starts, MultiWord}, b \in {NearWord, NoWay},
                                             c \in {Ends}}

-----------------------------------------------------------------------------
(* For the SAT parser: sentences of three to five words with nested        *)
(* expressions, islands, optional words, alternatives and costs.           *)

Cn(n, d) == [t |-> "con", name |-> n, dir |-> d, multi |-> FALSE, cost |-> 0, far |-> 9]
Multi(n, d) == [Cn(n, d) EXCEPT !.multi = TRUE]
Near(n, d) == [Cn(n, d) EXCEPT !.far = 1]
Dear(e, n) == [e EXCEPT !.cost = n]
And(ops) == [t |-> "and", ops |-> ops, cost |-> 0]
Or(ops) == [t |-> "or", ops |-> ops, cost |-> 0]
Nothing == And(<<>>)
Opt(e) == Or(<<e, Nothing>>)

Xn(e) == <<[exp |-> e, alt |-> 0]>>
Wx(e) == [x |-> Xn(e), optional |-> FALSE]
Maybe(e) == [x |-> Xn(e), optional |-> TRUE]
Alts(e, f) == [x |-> <<[exp |-> e, alt |-> 1], [exp |-> f, alt |-> 2]>>, optional |-> FALSE]

SatSentences ==
  {\* islands, planarity and the order of three connectors
   <<Wx(And(<<Opt(Cn("A", "+")), Opt(Cn("B", "+"))>>)), Wx(Or(<<Cn("A", "-"), Cn("A", "+")>>)),
     Wx(Or(<<Cn("A", "-"), Cn("B", "-")>>)), Wx(Opt(Cn("B", "-")))>>,
   <<Wx(And(<<Cn("A", "+"), Opt(Multi("B", "+")), Opt(Cn("A", "+"))>>)), Wx(Opt(Cn("A", "-"))),
     Wx(Or(<<Cn("A", "-"), Cn("B", "-")>>)), Wx(Or(<<Cn("B", "-"), Cn("A", "-")>>))>>,
   <<Wx(And(<<Cn("A", "+"), Opt(Cn("B", "+"))>>)), Wx(And(<<Opt(Cn("A", "-")), Opt(Cn("A", "+"))>>)),
     Wx(Opt(Cn("A", "-"))), Wx(And(<<Opt(Cn("A", "-")), Cn("B", "-")>>))>>,
   <<Wx(And(<<Cn("A", "+"), Opt(Cn("B", "+")), Opt(Cn("D", "+"))>>)), Wx(Cn("D", "-")), Wx(Cn("A", "-"))>>,
   \* left connectors, costs and length limits
   <<Wx(Or(<<Cn("A", "+"), Dear(Cn("B", "+"), 3)>>)), Wx(Or(<<Near("A", "+"), And(<<Cn("A", "-"), Cn("A", "+")>>)>>)),
     Wx(And(<<Opt(Cn("A", "-")), Opt(Dear(Or(<<Cn("A", "-"), Cn("B", "-")>>), 1))>>))>>,
   \* optional words that are islands, or bridge two parts
   <<Wx(And(<<Opt(Cn("A", "+")), Opt(Cn("D", "+"))>>)), Maybe(And(<<Opt(Cn("A", "-")), Cn("B", "+")>>)),
     Maybe(And(<<Opt(Cn("B", "-")), Opt(Cn("A", "+"))>>)), Wx(Or(<<Cn("A", "-"), Cn("D", "-"), Nothing>>))>>,
   <<Wx(Opt(Cn("A", "+"))), Maybe(Cn("B", "+")), Maybe(And(<<Cn("B", "-"), Opt(Cn("A", "-"))>>)),
     Wx(Opt(Cn("A", "-")))>>,
   \* words with two alternatives, one of them in two words
   <<Wx(And(<<Opt(Cn("A", "+")), Cn("A", "+")>>)), Alts(Cn("A", "-"), And(<<Cn("A", "-"), Opt(Cn("B", "+"))>>)),
     Alts(Or(<<Cn("A", "-"), Cn("B", "-")>>), Cn("A", "-"))>>,
   \* a rule, a link that violates another one, a gap
   <<Wx(And(<<Opt(Cn("C", "+")), Opt(Cn("A", "+"))>>)), Wx(Or(<<And(<<Cn("C", "-"), Opt(Cn("B", "+"))>>), Cn("A", "-")>>)),
     Wx(Or(<<Cn("B", "-"), And(<<Cn("A", "-"), Cn("V", "+")>>), Cn("C", "-")>>)), Wx(Opt(Cn("V", "-")))>>,
   <<Wx(Cn("A", "+")), Wx(And(<<Cn("A", "-"), Or(<<Cn("V", "+"), Cn("D", "+")>>)>>)), Wx(Or(<<Cn("V", "-"), Cn("D", "-")>>))>>,
   <<Wx(Cn("V", "+")), Wx(Cn("V", "-"))>>,
   \* no expression is left for a word
   <<Wx(Opt(Cn("A", "+"))), [x |-> <<>>, optional |-> TRUE], Wx(Cn("A", "-"))>>,
   <<Wx(Cn("A", "+")), Wx(Cn("A", "-")), [x |-> <<>>, optional |-> FALSE]>>}

SatRules == {[selector |-> "C", link_set |-> {"B"}]}
SatBadNames == {"V"}

-----------------------------------------------------------------------------
(* Post-processed: linkages of four or five words with links that start    *)
(* domains of every kind.                                                  *)

N(uc, sub) == [uc |-> uc, sub |-> sub]
W  == N("W", <<>>)          \* starts a domain
Wd == N("W", <<"d">>)       \* starts a domain and is in it
T  == N("T", <<>>)          \* starts an urfl domain
S  == N("S", <<>>)          \* starts an urfl-only domain
P  == N("P", <<>>)          \* starts a left domain
R  == N("R", <<>>)          \* restricted
X  == N("X", <<>>)          \* ignored; must be in a cycle
O  == N("O", <<>>)
On == N("O", <<"n">>)

Rule(selector, link_set, domain, msg) ==
  [selector |-> selector, link_set |-> link_set, domain |-> domain, msg |-> msg]

MCKnowledge ==
  [domain_starter    |-> {W},
   domain_contains   |-> {Wd},
   urfl_starter      |-> {T},
   urfl_only_starter |-> {S},
   left_starter      |-> {P},
   restricted        |-> {R},
   ignore            |-> {X},
   starting_link     |-> <<[starting_link |-> W, domain |-> "w"], [starting_link |-> T, domain |-> "t"],
                           [starting_link |-> S, domain |-> "s"], [starting_link |-> P, domain |-> "p"]>>,
   contains_one      |-> <<Rule(N("O", <<"#", "*">>), {R, T, On}, "", "O without R, T or On")>>,
   contains_none     |-> <<Rule(R, {O}, "", "R with O"), Rule(T, {R}, "", "T with R")>>,
   form_a_cycle      |-> <<Rule(X, {X}, "", "X not in a cycle")>>,
   bounded           |-> <<Rule(W, {}, "t", "t domain not bounded")>>]

Pairs(n) == {<<a, b>> \in (0..(n - 1)) \X (0..(n - 1)) : a < b}
Crosses(p, q) == p[1] < q[1] /\ q[1] < p[2] /\ p[2] < q[2]
Before(p, q) == p[1] < q[1] \/ (p[1] = q[1] /\ p[2] < q[2])

(* k planar links on n words, every word but the last with a link to a later word *)
PairSeqs(n, k) == {s \in [1..k -> Pairs(n)] : /\ \A n1 \in 1..(k - 1) : Before(s[n1], s[n1 + 1])
                                              /\ \A n1, n2 \in 1..k : ~Crosses(s[n1], s[n2])
                                              /\ \A w \in 0..(n - 2) : \E n1 \in 1..k : s[n1][1] = w}

Link(p, name) == [lw |-> p[1], rw |-> p[2], name |-> name]

Of(n, k, names) == {[n1 \in 1..k |-> Link(s[n1], f[n1])] : s \in PairSeqs(n, k), f \in [1..k -> names]}

ManyLkgs ==
  Of(4, 3, {Wd, S, R, O}) \cup Of(4, 3, {T, P, R}) \cup Of(4, 4, {T, W})
    \cup Of(4, 4, {X, S}) \cup Of(4, 5, {T, X}) \cup Of(5, 4, {P, R})

(* A few linkages that differ in the rules they need. *)
FewLkgs ==
  {<<Link(<<0, 1>>, W), Link(<<1, 2>>, R), Link(<<1, 3>>, N("O", <<"n", "s">>))>>,
   <<Link(<<0, 1>>, W), Link(<<1, 2>>, O), Link(<<2, 3>>, T)>>,
   <<Link(<<0, 1>>, T), Link(<<1, 2>>, R), Link(<<2, 3>>, S)>>,
   <<Link(<<0, 3>>, P), Link(<<0, 1>>, O), Link(<<1, 2>>, R)>>,
   <<Link(<<0, 1>>, X), Link(<<0, 2>>, W), Link(<<2, 3>>, S)>>}

Arrays(n) == UNION {[1..k -> FewLkgs] : k \in 1..n}

(* One sentence with one linkage out of many, one with two batches. *)
MCSentences == <<<<{<<l>> : l \in ManyLkgs}>>, <<Arrays(3), Arrays(1)>>>>

(* Two batches of one linkage. *)
RulesSentences == <<<<Arrays(1), Arrays(1)>>>>

-----------------------------------------------------------------------------
(* For sorting: linkages of a sentence of three words.                     *)

Ln(lw, rw, name, c) == [lw |-> lw, rw |-> rw, name |-> name, lc |-> c, rc |-> c]

LongLn  == Ln(0, 2, 1, 1)
LeftLn  == Ln(0, 1, 2, 2)
RightLn == Ln(1, 2, 3, 3)

(* A linkage with these links; the array beyond them holds the zeros that  *)
(* partial_init_linkage() fills it with, or what is left of a linkage that *)
(* was not sane.                                                           *)
Candidate(viol, cost, links, cd, stale) ==
  [viol |-> viol, cost |-> cost, num_links |-> Len(links), cd |-> cd,
   link_array |-> [k \in 1..4 |-> IF k <= Len(links) THEN links[k]
                                  ELSE IF stale THEN Ln(1, 2, 3, 3) ELSE Ln(0, 0, 0, 0)]]

(* Linkages none of which has, at the same costs, the links of another and *)
(* more: valid ones that differ in what follows the links in the array, in *)
(* a link, a word string or a connector, one with a null word, and two bad *)
(* ones.                                                                   *)
MCCandidates ==
  {Candidate(0, 0, <<LongLn, LeftLn>>, <<1, 1, 1>>, TRUE),
   Candidate(0, 0, <<LongLn, LeftLn>>, <<1, 1, 1>>, FALSE),
   Candidate(0, 0, <<LongLn, LeftLn>>, <<1, 2, 1>>, FALSE),
   Candidate(0, 1, <<LeftLn, RightLn>>, <<1, 1, 1>>, FALSE),
   Candidate(0, 1, <<LeftLn, Ln(1, 2, 3, 4)>>, <<1, 1, 1>>, FALSE),
   Candidate(0, 1, <<LeftLn>>, <<1, 1, 0>>, TRUE),
   Candidate(1, 0, <<RightLn>>, <<0, 1, 1>>, FALSE),
   Candidate(1, 0, <<LongLn, LeftLn>>, <<1, 2, 2>>, FALSE)}

(* Linkages, one of which has a link more: the words 1 and 2 are linked    *)
(* to word 0, and to each other or not.                                    *)
PrefixCandidates ==
  {Candidate(0, 0, <<LongLn, LeftLn, RightLn>>, <<1, 1, 1>>, FALSE),
   Candidate(0, 0, <<LongLn, LeftLn>>, <<1, 1, 1>>, FALSE),
   Candidate(0, 0, <<LeftLn, RightLn>>, <<1, 1, 1>>, FALSE)}

ASSUME StripBounds ==
  MaxStrip \in Nat \ {0} /\ MaxStripAlt \in Nat \ {0, 1} /\ MaxSplits \in Nat

ASSUME PostProcessAssumption == TCD \in Nat \ {0} /\ NumWords \in Nat

(* Under this the proofs about the sweep hold.  It does not hold for       *)
(* PrefixCandidates.                                                       *)
ASSUME CandidatesComparable == Candidates = MCCandidates => Comparable

-----------------------------------------------------------------------------
F == INSTANCE MCFront
TK == INSTANCE Tokenize WITH Texts <- F!MCTexts, pc <- tpc
EX == INSTANCE Expressions WITH
        Sentences <- F!MCSentences, Options <- F!MCOptions, sent <- esent, opts <- eopts,
        x <- ex, ct <- ect, deleted <- edeleted, dir <- edir, w <- eword, d <- edisjunct,
        pc <- stage

Extract == INSTANCE ExtractLinks WITH IntMax <- 7, Sentences <- FewSentences, word <- xword,
                                      islands_ok <- xislands, pc <- xpc, null_count <- xnulls,
                                      tab <- xtab, found <- xfound, overflowed <- xoverflowed,
                                      lkg <- xlkg, lnkages <- xlnkages

Post == INSTANCE PostProcess WITH Knowledge <- MCKnowledge, at <- from, pc <- ppc
SAT     == INSTANCE SatParse WITH Sentences <- SatSentences, Rules <- SatRules, BadNames <- SatBadNames,
                                  sent <- ssent, lnkages <- produced, k <- tried,
                                  answer <- given, all <- complete

tokens == <<text, tpc, gw, queue, todo, wp, word, chosen, wpp>>
exprs == <<esent, eopts, ex, ect, edeleted, edir, eword, edisjunct, trimmed, stage>>
front == <<tokens, exprs>>
extracting == <<xword, xislands, xpc, xnulls, xtab, xfound, parse_set, x_table, xoverflowed, itry,
                xlkg, xlnkages>>
verdicts == <<sent, lkg, twopass, batch, seen, pruned, one, none, exhausted, from, ppc, n_valid,
              n_processed>>
solving == <<ssent, models, produced, asked, tried, num_valid, given, complete>>

NoTokens ==
  /\ text = 0 /\ tpc = "idle" /\ gw = 0 /\ queue = 0 /\ todo = 0 /\ wp = 0 /\ word = 0
  /\ chosen = 0 /\ wpp = 0
NoExprs ==
  /\ esent = 0 /\ eopts = 0 /\ ex = 0 /\ ect = 0 /\ edeleted = 0 /\ edir = 0 /\ eword = 0
  /\ edisjunct = 0 /\ trimmed = 0 /\ stage = "idle"
NoVerdicts ==
  /\ sent = 1 /\ lkg = <<>> /\ twopass = FALSE /\ batch = 0 /\ seen = {} /\ pruned = FALSE
  /\ one = <<>> /\ none = <<>> /\ exhausted = FALSE /\ from = 1 /\ ppc = "idle"
  /\ n_valid = 0 /\ n_processed = 0
NoExtracting ==
  /\ xword = 0 /\ xislands = FALSE /\ xpc = "idle" /\ xnulls = 0 /\ xtab = 0 /\ xfound = 0
  /\ parse_set = 0 /\ x_table = 0 /\ xoverflowed = FALSE /\ itry = 0 /\ xlkg = 0 /\ xlnkages = 0
NoSorting ==
  /\ random = FALSE /\ extracted = <<>> /\ runs = <<>> /\ out = <<>> /\ at = 0 /\ lnkages = <<>>
  /\ alloced = 0 /\ valid = 0 /\ i = 0 /\ tgt = 0 /\ blkstart = 0 /\ blklen = 0
  /\ num_dupes = 0 /\ freed = {} /\ pc = "idle"
NoSolving ==
  /\ ssent = 0 /\ models = 0 /\ produced = 0 /\ asked = 0 /\ tried = 0 /\ num_valid = 0
  /\ given = 0 /\ complete = 0

MCInit ==
  /\ which \in {"tokens", "exprs", "extracting", "verdicts", "sorting", "solving"}
  /\ IF which = "tokens" THEN TK!Init ELSE NoTokens
  /\ IF which = "exprs" THEN EX!Init ELSE NoExprs
  /\ IF which = "extracting" THEN Extract!Init ELSE NoExtracting
  /\ IF which = "verdicts" THEN Post!Init ELSE NoVerdicts
  /\ IF which = "sorting" THEN Init ELSE NoSorting
  /\ IF which = "solving" THEN SAT!Init ELSE NoSolving

TokensNext ==
  which = "tokens" /\ TK!Next /\ UNCHANGED <<which, exprs, vars, extracting, verdicts, solving>>
ExprsNext ==
  which = "exprs" /\ EX!Next /\ UNCHANGED <<which, tokens, vars, extracting, verdicts, solving>>
ExtractingNext ==
  which = "extracting" /\ Extract!Next /\ UNCHANGED <<which, front, vars, verdicts, solving>>
VerdictsNext ==
  which = "verdicts" /\ Post!Next /\ UNCHANGED <<which, front, vars, extracting, solving>>
SortingNext ==
  which = "sorting" /\ Next /\ UNCHANGED <<which, front, extracting, verdicts, solving>>
SolvingNext ==
  which = "solving" /\ SAT!Next /\ UNCHANGED <<which, front, vars, extracting, verdicts>>

MCNext ==
  TokensNext \/ ExprsNext \/ ExtractingNext \/ VerdictsNext \/ SortingNext \/ SolvingNext

allvars == <<which, front, vars, extracting, verdicts, solving>>

MCSpec == MCInit /\ [][MCNext]_allvars

(* Sorting alone, for linkages that are not among MCCandidates.            *)
SortSpec == MCInit /\ which = "sorting" /\ [][SortingNext]_allvars

(* Post-processing alone, of batches that take longer.                     *)
VerdictsSpec == MCInit /\ which = "verdicts" /\ [][VerdictsNext]_allvars

(* Each path of the word graph says the sentence, letter by letter, from   *)
(* its first to its last (issue_word_alternative(): WordgraphSpells).      *)
GraphSpells == which = "tokens" => TK!WordgraphSpells
(* The word array follows the Wordgraph: see SlotsFollowPaths of Tokenize. *)
SlotsFollow == which = "tokens" => TK!SlotsFollowPaths
(* A sane linkage is a path: see SaneIsPath of Tokenize.                   *)
SanePath == which = "tokens" => TK!SaneIsPath
(* expression_prune() deletes what can never link, and no more: see        *)
(* PrunedExactly of Expressions.                                           *)
PrunedExactly == which = "exprs" => EX!PrunedExactly
(* The disjuncts are those the expressions denote: see DisjunctsExact of   *)
(* Expressions.                                                            *)
DisjunctsExact == which = "exprs" => EX!DisjunctsExact
(* do_parse() counts the linkages: CountIsExact of ExtractLinks.           *)
CountIsExact == which = "extracting" => Extract!CountIsExact
(* extract_links() gives linkages of the sentence, and another one for     *)
(* each index: ExtractsLinkages and IndicesEnumerate of ExtractLinks.      *)
ExtractsLinkages == which = "extracting" => Extract!ExtractsLinkages /\ Extract!IndicesEnumerate
(* build_domains() finds the links of each domain: DomainsExact of         *)
(* PostProcess.                                                            *)
DomainsExact == which = "verdicts" => Post!DomainsExact
(* do_post_process() gives a linkage the verdict of the rules, and it      *)
(* stays: VerdictsKept of PostProcess.                                     *)
VerdictsKept == which = "verdicts" => Post!VerdictsKept
(* The verdicts of all batches are those of the rules: VerdictsExact of    *)
(* PostProcess.                                                            *)
VerdictsExact == which = "verdicts" => Post!VerdictsExact
(* The SAT parser produces the linkages of the sentence: SatExact of       *)
(* SatParse.                                                               *)
SatExact == which = "solving" => SAT!SatExact
=============================================================================
