--------------------------- MODULE MCDictionaries ---------------------------
(***************************************************************************)
(* TLC instances of the dictionaries and the dialects: the file            *)
(* dictionary, the AtomSpace dictionary, or the dialects.  In a behaviour  *)
(* one of them runs; the others stay as they are.                          *)
(***************************************************************************)
EXTENDS Dictionary, Atomese

VARIABLES which, dicts, opts, setup

-----------------------------------------------------------------------------
(* Files put together from a few entries, and files with one expression,   *)
(* well formed or not.                                                     *)

a == 97  b == 98  c == 99  x == 120  y == 121

Con(u, l, dr, m) == Conn([hd |-> "", uc |-> u, lc |-> l, dir |-> dr, multi |-> m])
A == Con(<<65>>, <<>>, "+", FALSE)
As == Con(<<65>>, <<115>>, "+", FALSE)
AB == Con(<<65, 66>>, <<>>, "-", FALSE)
Astar == Con(<<65>>, <<STAR>>, "+", FALSE)
B == Con(<<66>>, <<>>, "$", FALSE)
C == Con(<<67>>, <<>>, "-", TRUE)
End == Sp(";")

Plain(ws) == [i \in DOMAIN ws |-> [w |-> ws[i], file |-> ""]]
Entry(ws, ts) == [kind |-> "entry", words |-> Plain(ws), exp |-> ts]
FromFile(f, ts) == [kind |-> "entry", words |-> <<[w |-> <<>>, file |-> f]>>, exp |-> ts]

Items ==
  {Entry(<<<<b>>, <<a, DOT, x>>, <<a, b>>>>, <<A, End>>),
   Entry(<<<<a, UNDERBAR, b>>, <<b>>>>, <<B, End>>),
   Entry(<<<<b, UNDERBAR, c, DOT, y>>, <<a, UNDERBAR, b, UNDERBAR, a>>>>, <<As, Sp("&"), AB, End>>),
   Entry(<<<<a>>, <<a, DOT, x>>, <<c>>, <<a, DOT, UNDERBAR>>, <<a, UNDERBAR, UNDERBAR, b>>>>,
         <<Word(<<b>>), Sp("|"), Sp("["), A, Sp("]"), End>>),
   FromFile("words", <<C, End>>),
   FromFile("none", <<C, End>>),
   Entry(<<UNLIMITED_CONNECTORS_WORD>>, <<As, End>>),
   Entry(<<LIMITED_CONNECTORS_WORD \o <<49>>>>, <<Astar, Sp("&"), C, End>>),
   Entry(<<LIMITED_CONNECTORS_WORD \o <<50>>, LIMITED_CONNECTORS_WORD \o <<x>>>>, <<As, Sp("&"), C, End>>),
   [kind |-> "include", file |-> "sub"],
   [kind |-> "include", file |-> "none"],
   [kind |-> "define", name |-> "allow-duplicate-words", value |-> "true"]}

Sub == <<Entry(<<<<c>>, <<a, c>>, <<b, DOT, x>>>>, <<C, End>>),
         Entry(<<<<a, UNDERBAR, b>>>>, <<A, End>>)>>

WordFile == <<<<a, a>>, <<a, a, DOT, x>>, <<b, a>>, <<c, a>>, <<b, DOT, 49>>>>

Files(main) == [main |-> "main",
                dicts |-> [f \in {"main", "sub"} |-> IF f = "main" THEN main ELSE Sub],
                wordfiles |-> [f \in {"words"} |-> WordFile]]

Upto(n, S) == UNION {[1..k -> S] : k \in 1..n}

Tokens == {Sp(s) : s \in {"(", ")", "{", "}", "[", "]", "&", "|", "^"}}
          \cup {A, B, Num(1), Word(<<a>>)}
Brackets3 == {Sp(s) : s \in {"(", ")", "[", "]", "&", "|", "^"}} \cup {A, C}

Macro == Entry(<<<<a>>>>, <<AB, Sp("|"), Sp("["), C, Sp("]"), Num(3), End>>)

(* Longer expressions: tags, nested costs and the operator words.           *)
orWord == OperatorWord("or", <<111, 114>>)
symWord == OperatorWord("sym", <<115, 121, 109>>)
andWord == OperatorWord("and", <<97, 110, 100>>)
Longer ==
  {<<Sp("["), Sp("["), A, andWord, C, Sp("]"), Sp("]"), Word(<<x>>)>>,
   <<Sp("["), A, Sp("]"), Word(<<x, DOT, y>>)>>,
   <<Sp("["), Sp("["), A, orWord, B, Sp("]"), Word(<<x>>), Sp("]"), Num(-1), Sp("&"), C>>,
   <<Sp("{"), Sp("["), A, Sp("]"), Num(12), Sp("}"), Sp("&"), Sp("{"), B, Sp("^"), Word(<<a>>), Sp("}")>>,
   <<A, symWord, C, Sp("&"), AB, Sp("^"), Sp("("), A, orWord, Sp("["), Sp("]"), Sp(")")>>,
   <<Sp("["), Sp("["), Sp("["), Sp("["), Sp("["), A, Sp("]"), Sp("]"), Sp("]"), Sp("]"), Sp("]"), orWord, C>>,
   <<Sp("["), Sp("("), Sp(")"), Sp("]"), Word(<<y>>), Sp("|"), A, Sp("|"), AB>>,
   <<Sp("["), A, Sp("]"), C>>, <<Sp("["), A, Sp("]"), AB>>}

MCSources ==
  {Files(main) : main \in Upto(3, Items)}
  \cup {Files(<<Entry(<<<<a, UNDERBAR, c>>>>, <<A, End>>), i, j,
                Entry(<<<<b, UNDERBAR, a, UNDERBAR, c>>, <<c, UNDERBAR, c>>, <<c, UNDERBAR, b>>>>, <<C, End>>)>>) :
          i \in Items, j \in Items}
  \cup {Files(<<Macro, Entry(<<<<b>>>>, Append(ts, End))>>) :
          ts \in Upto(3, Tokens) \cup Upto(4, Brackets3) \cup Longer}

MCQueries == {<<a>>, <<b>>, <<a, b>>, <<a, MARK, x>>, <<a, DOT, x>>, <<a, STAR>>, <<STAR>>, <<b, STAR, DOT, x>>,
              <<c, STAR>>, <<b, MARK, UNDERBAR, 73>>, <<b, DOT>>, <<c, MARK, y>>, <<a, STAR, b>>}

-----------------------------------------------------------------------------
(* Dialect files and settings.                                             *)

Section(n) == [k |-> "section", name |-> n, cost |-> 0]
SubDialect(n) == [k |-> "sub", name |-> n, cost |-> 0]
Component(n, v) == [k |-> "tag", name |-> n, cost |-> v]
Malformed == [k |-> "bad", name |-> "", cost |-> 0]

(* A chain of sub-dialects; two that share one; a loop that the default    *)
(* section does not reach; no default section; no sections; a sub-dialect  *)
(* without a section; a section twice; an entry before the first section.  *)
MCDialectFiles ==
  {<<[k |-> "missing", name |-> "", cost |-> 0]>>,
   <<Section("default"), Component("s", 1), SubDialect("p"), Component("t", 2),
     Section("p"), Component("s", 3), SubDialect("q"), Section("q"), Component("t", 4), Component("s", 5)>>,
   <<Section("default"), SubDialect("p"), SubDialect("q"),
     Section("p"), SubDialect("q"), Section("q"), Component("t", 4)>>,
   <<Section("q"), Component("s", 0), Section("default"), Component("t", 99999), SubDialect("q"),
     Section("p"), SubDialect("p")>>,
   <<Section("p"), Component("s", 3), Component("t", 3), Section("q"), SubDialect("p"), Component("t", 1)>>,
   <<Component("s", 7)>>, <<>>, <<Malformed>>,
   <<Section("default"), SubDialect("r")>>, <<Section("p"), Section("p")>>,
   <<Component("s", 1), Section("p")>>}

MCConfs ==
  {<<>>, <<Component("s", 8)>>, <<SubDialect("p"), Component("t", 99999)>>,
   <<Component("t", 9), SubDialect("q")>>, <<SubDialect("q"), SubDialect("q")>>,
   <<Component("u", 1)>>, <<Component("s", 8), Malformed>>, <<Section("p")>>}

OtherFile == <<Section("q"), Component("s", 6), Section("default"), SubDialect("q")>>

L == INSTANCE Dialect WITH
       Dicts <- {"d", "e"}, Options <- {"o", "p"}, TagSets <- {{}, {"s", "t"}},
       DialectFiles <- [d \in {"d", "e"} |-> IF d = "d" THEN MCDialectFiles ELSE {OtherFile}],
       Confs <- [o \in {"o", "p"} |-> IF o = "o" THEN MCConfs ELSE {<<>>, <<Component("s", 8)>>}],
       dict <- dicts, opt <- opts, result <- setup

(***************************************************************************)
(* An AtomSpace with sections, classes and word pairs, in each of the      *)
(* configurations of the dictionary that changes which connectors a word   *)
(* gets.                                                                   *)
(***************************************************************************)
AConn(w, d) == [tgt |-> w, dir |-> d]
Sect(g, cs, ok) == [germ |-> g, conns |-> cs, ok |-> ok]
Pair(l, r, ok) == [link |-> <<l, r>>, ok |-> ok]
Store(ss, ms, ps) == [sections |-> ss, members |-> ms, pairs |-> ps]

(* Sections on both words of a link, on a class, and one below the cutoff; *)
(* pairs within and across the sentences, and one below the cutoff.        *)
MCStores ==
  {Store({Sect("a", <<AConn("b", "+")>>, TRUE), Sect("b", <<AConn("a", "-"), AConn("c", "+")>>, TRUE),
          Sect("c", <<AConn("b", "-")>>, TRUE), Sect("c", <<AConn("a", "-"), AConn("b", "-")>>, FALSE),
          Sect("K", <<AConn("a", "-"), AConn("b", "-")>>, TRUE)},
         {<<"c", "K">>},
         {Pair("a", "b", TRUE), Pair("a", "c", TRUE), Pair("b", "c", TRUE), Pair("c", "a", FALSE),
          Pair("b", "K", TRUE)}),
   Store({Sect("K", <<AConn("b", "+")>>, TRUE)}, {<<"a", "K">>, <<"c", "K">>},
         {Pair("K", "b", TRUE), Pair("b", "c", TRUE)})}

Config(ext, sto, sentences) ==
  [external |-> ext, storage |-> sto, sections |-> TRUE, extra_pairs |-> TRUE, extra_any |-> TRUE,
   pair_disjuncts |-> TRUE, pair_with_any |-> TRUE, any_disjuncts |-> FALSE, unknown_word |-> TRUE,
   generate |-> FALSE, sentences |-> sentences, sessions |-> 1,
   rounds |-> 2]

(* Two threads whose sentences have different words but the same links.    *)
Apart == <<{<<"a", "b">>}, {<<"c">>}>>
(* One thread, which finds in the second sentence what the first cached.   *)
Alone == <<{<<"a", "b">>, <<"b", "d", "c">>, <<"c">>}, {}>>
(* Two threads that share a word with several sections; in the second      *)
(* contents "a" and "c" are of one class.                                  *)
Together == <<{<<"c">>}, {<<"b", "c">>}>>
OneClass == <<{<<"a">>}, {<<"c">>}>>

MCConfigs ==
  LET two == Config(TRUE, FALSE, Apart)
      one == Config(FALSE, TRUE, Alone)
      both == [Config(TRUE, FALSE, Together) EXCEPT !.rounds = 1]
  IN {two,
      [two EXCEPT !.extra_pairs = FALSE],
      [two EXCEPT !.sections = FALSE, !.extra_pairs = FALSE, !.pair_with_any = FALSE, !.any_disjuncts = TRUE],
      [two EXCEPT !.extra_pairs = FALSE, !.pair_disjuncts = FALSE, !.any_disjuncts = TRUE, !.generate = TRUE,
                  !.sessions = 2],
      [two EXCEPT !.storage = TRUE, !.extra_pairs = FALSE, !.pair_disjuncts = FALSE, !.any_disjuncts = TRUE,
                  !.generate = TRUE, !.sessions = 2],
      one, [one EXCEPT !.storage = FALSE],
      [one EXCEPT !.sessions = 2], [one EXCEPT !.external = TRUE, !.storage = FALSE, !.sessions = 2],
      [one EXCEPT !.external = TRUE, !.extra_any = FALSE, !.pair_with_any = FALSE, !.sessions = 2],
      [one EXCEPT !.sections = FALSE, !.extra_pairs = FALSE, !.pair_with_any = FALSE],
      both, [both EXCEPT !.extra_pairs = FALSE],
      [both EXCEPT !.storage = TRUE, !.extra_pairs = FALSE],
      [both EXCEPT !.external = FALSE, !.storage = TRUE, !.sections = FALSE, !.extra_pairs = FALSE,
                   !.pair_with_any = FALSE, !.rounds = 2],
      [both EXCEPT !.storage = TRUE, !.sentences = Apart],
      [both EXCEPT !.storage = TRUE, !.sentences = OneClass]}

(* Two threads that look up the same word.                                 *)
MCTogether == {[Config(TRUE, FALSE, <<{<<"a">>}, {<<"a", "b">>}>>) EXCEPT !.rounds = 1]}
(* One thread; the dictionary is opened twice on the same AtomSpace.       *)
MCReopened == {[Config(TRUE, FALSE, Alone) EXCEPT !.sessions = 2, !.rounds = 1]}

files == <<source, fcurs, dict, limits, defs, last, pc>>
dialects == <<dicts, opts, setup>>

NoFiles ==
  source = 0 /\ fcurs = 0 /\ dict = 0 /\ limits = 0 /\ defs = 0 /\ last = 0 /\ pc = "idle"
NoDialects == dicts = 0 /\ opts = 0 /\ setup = 0
NoAtoms ==
  /\ conf = CHOOSE settings \in Configs : TRUE
  /\ store = CHOOSE contents \in Stores : TRUE
  /\ as_open /\ sessions = 1

MCInit ==
  /\ which \in {"file", "dialect", "atomese"}
  /\ IF which = "file" THEN Init ELSE NoFiles
  /\ IF which = "dialect" THEN L!Init ELSE NoDialects
  /\ IF which = "atomese" THEN AtomInit ELSE NoAtoms

FileNext == which = "file" /\ Next /\ UNCHANGED <<which, dialects, atomvars>>
DialectNext == which = "dialect" /\ L!Next /\ UNCHANGED <<which, files, atomvars>>
AtomeseNext == which = "atomese" /\ AtomNext /\ UNCHANGED <<which, files, dialects>>

MCNext == FileNext \/ DialectNext \/ AtomeseNext

MCSpec == MCInit /\ [][MCNext]_<<which, files, dialects, atomvars>>

(* The AtomSpace dictionary alone.                                         *)
AtomeseInit == which = "atomese" /\ NoFiles /\ NoDialects /\ AtomInit
AtomeseSpec == AtomeseInit /\ [][AtomeseNext]_<<which, files, dialects, atomvars>>

(* Lookups find what the files define, in a tree that stays balanced, and  *)
(* idioms are chained by links of their own; expressions mean what they    *)
(* say, and read back when printed: see LookupsExact, TreeBalanced,        *)
(* IdiomsChain, ExpressionsRead and PrintedReadsBack of Dictionary.        *)
FilesReadExactly ==
  which = "file" => /\ LookupsExact /\ TreeBalanced /\ IdiomsChain
                    /\ ExpressionsRead /\ PrintedReadsBack
(* The dialect costs are those asked for: see SetupExact of Dialect.       *)
SetupExact == which = "dialect" => L!SetupExact
=============================================================================
