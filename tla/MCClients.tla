----------------------------- MODULE MCClients ------------------------------
(***************************************************************************)
(* TLC instances of the programs that use the library, and of what they    *)
(* print: the Java server with its clients, the link-parser program, and   *)
(* the generator; the words displayed (ChosenWords), the diagram (Diagram) *)
(* and the constituent tree (Constituents) of a linkage.  In a behaviour   *)
(* one of them runs; the others stay as they are.                          *)
(***************************************************************************)
EXTENDS LGService, LinkParser, ChosenWords, Generator

CONSTANT Huge

VARIABLES which,
          linkage, domains, cons, stage, tstep, tokens,
          lk, todo, picture, row_of, link_heights, phase, dword, column, dstart

(* The server: a text with complete linkages after one that needs null     *)
(* words, one whose parses take 9 and 4 seconds, and requests that are not *)
(* parsed.  A request without a time limit follows others that have 2 and, *)
(* where the client has no configuration, 60 seconds.                      *)
Text(b, cs, ns, p, s, n) ==
  [bad |-> b, complete |-> cs, nulls |-> ns, panic |-> p, time |-> s, null_time |-> n]
MCTexts == [t \in {"good", "odd", "slow", "refused"} |->
              CASE t = "good" -> Text(FALSE, 3, 4, 1, 1, 1)
                [] t = "odd" -> Text(FALSE, 0, 2, 1, 1, 1)
                [] t = "slow" -> Text(FALSE, 2, 2, 1, 9, 4)
                [] t = "refused" -> Text(TRUE, 0, 0, 0, 1, 1)]

Request(t, s, m) == [get |-> FALSE, text |-> t, config |-> TRUE, seconds |-> s, maxLinkages |-> m]
Unlimited(t) == Request(t, -1, 3)
NoConfig(t) == [Request(t, 0, 0) EXCEPT !.config = FALSE]
Version == [Request("none", 0, 0) EXCEPT !.get = TRUE]

MCCallSets ==
  {[c \in {"c1", "c2"} |->
     IF c = "c1" THEN <<Request("odd", 5, 3), Request("good", 5, 2)>> ELSE <<Request("slow", 5, 1)>>],
   [c \in {"c1", "c2"} |->
     IF c = "c1" THEN <<Request("malformed", 5, 3), Version>>
     ELSE <<Request("blank", 5, 1), Request("refused", 5, 1)>>],
   [c \in {"c1", "c2"} |->
     IF c = "c1" THEN <<Request("slow", 2, 1), Unlimited("slow")>> ELSE <<NoConfig("odd")>>]}

(* The link-parser program: sessions of up to three lines, with files.     *)
(* With a limit of 5 seconds the parse without null words of "slow" times  *)
(* out, the one with null words of "hard", and the sorting after that of   *)
(* "late"; 1 second of panic mode is over before "slow" is prepared.       *)
Sent(l, c, b, n, len) ==
  [label |-> l, refused |-> FALSE, complete |-> c, bad |-> b, nulls |-> n, cost |-> 1,
   longest |-> 14, length |-> len, prepare |-> 0, time |-> 1, null_time |-> 1, rest |-> 0]
MCOutcomes == [s \in {"good", "poor", "slow", "hard", "late", "wrong", "void"} |->
                  CASE s = "good" -> Sent(" ", 3, 0, 1, 5)
                    [] s = "poor" -> Sent("*", 0, 1, 2, 5)
                    [] s = "slow" -> [Sent(" ", 1, 0, 1, 20) EXCEPT !.prepare = 2, !.time = 7]
                    [] s = "hard" -> [Sent(" ", 0, 2, 1, 20) EXCEPT !.null_time = 9]
                    [] s = "late" -> [Sent(" ", 2, 0, 1, 20) EXCEPT !.rest = 6]
                    [] s = "wrong" -> Sent("*", 2, 1, 1, 5)
                    [] s = "void" -> [Sent(" ", 0, 0, 0, 5) EXCEPT !.refused = TRUE]]

Line(k) == [k |-> k]
S(n) == [k |-> "sentence", name |-> n]
File(n) == [k |-> "file", name |-> n]
Flip(v) == [k |-> "flip", var |-> v]
Set(v, n) == [k |-> "set", var |-> v, val |-> n]

FileLines == {<<S("good"), S("poor")>>, <<Set("timeout", 5), S("slow"), S("good")>>,
              <<Set("timeout", 5), S("hard"), S("late")>>, <<Set("panic_timeout", 1), S("slow")>>,
              <<S("good"), File("g"), S("wrong")>>, <<S("wrong"), File("missing"), S("good")>>}
Terminal == {Line("blank"), Line("comment"), Line("wrong"), Line("exit"), S("good"), S("slow"), S("void"),
             File("f"), File("directory"), Flip("batch"), Flip("bad"), Flip("null"), Flip("panic"),
             Set("timeout", 5)}

MCSessions ==
  {[stdin |-> in, files |-> [x \in {"f", "g"} |-> IF x = "f" THEN f ELSE <<S("poor"), Line("help")>>]] :
     in \in UNION {[1..n -> Terminal] : n \in 0..3}, f \in FileLines}

(* The generator: words with one, two or no categories.                    *)
Fixed(w) == [word |-> w, cats |-> <<>>]
From(cs) == [word |-> "*", cats |-> cs]
MCGenerations ==
  {[catlist |-> <<<<"a", "b">>, <<"c">>, <<"d", "e", "f">>>>, linkages |-> ls, nsentences |-> n, explode |-> x] :
     ls \in {<<>>, <<<<Fixed("w"), From(<<1, 2>>), From(<<2>>)>>>>,
             <<<<From(<<2, 1>>), From(<<2, 1>>)>>, <<From(<<1>>), Fixed("w")>>>>},
     n \in {1, 2, 4, 18}, x \in BOOLEAN}

(* Diagrams: planar linkages of four and five words, with names of         *)
(* different lengths, and screens on which they wrap.                      *)
Link(p, len, d) == [lw |-> p[1], rw |-> p[2], len |-> len, wall |-> p[1] = 0 \/ p[2] = 4,
                    ldir |-> IF d THEN "h" ELSE "", rdir |-> IF d THEN "d" ELSE ""]

Shapes ==
  {<<<<0, 1>>, <<1, 2>>, <<2, 3>>, <<3, 4>>>>,
   <<<<0, 4>>, <<0, 3>>, <<1, 3>>, <<1, 2>>>>,
   <<<<0, 2>>, <<1, 2>>, <<2, 4>>, <<2, 3>>, <<3, 4>>>>,
   <<<<0, 3>>, <<0, 1>>, <<1, 3>>, <<2, 3>>, <<3, 4>>>>,
   <<<<0, 1>>, <<1, 4>>, <<1, 3>>, <<2, 3>>>>,
   <<<<1, 4>>, <<1, 2>>, <<2, 4>>, <<2, 3>>, <<0, 1>>>>}

Links5(s, len, ds) == [k \in DOMAIN s |-> Link(s[k], len[1 + (k % 3)], k \in ds)]

Of(widths, screens) ==
  {[width |-> w, links |-> Links5(s, len, ds), walls |-> walls, screen |-> n] :
     w \in widths, s \in Shapes, len \in {<<1, 1, 1>>, <<1, 4, 2>>, <<3, 1, 5>>},
     ds \in {{}, {1, 4}, {2, 3}}, walls \in BOOLEAN, n \in screens}

(* The last word width is wider than the narrow screen. *)
MCPictures == Of({<<4, 1, 1, 1, 4>>, <<4, 3, 20, 2, 4>>}, {16, 80})

-----------------------------------------------------------------------------
(* Words displayed: paths of words split into morphemes or punctuation,    *)
(* with any of the possible links, and skipped words.                      *)

Gw(idx, sw, unsplit, type, first) ==
  [idx |-> idx, sw |-> sw, unsplit |-> unsplit, type |-> type, first |-> first]

Wall == Gw(1, 1, 0, "wall", FALSE)

(* A word split in two alternatives after its left punctuation. *)
Stripped ==
  <<Wall, Gw(2, 2, 2, "punc", TRUE), Gw(3, 2, 9, "stem", TRUE), Gw(4, 2, 9, "suffix", FALSE), Gw(5, 3, 0, "word", FALSE)>>

Gwords ==
  {<<Wall, Gw(2, 2, 2, "stem", TRUE), Gw(3, 2, 2, "suffix", FALSE), Gw(4, 3, 0, "word", FALSE), Gw(5, 4, 4, "punc", TRUE)>>,
   <<Wall, Gw(2, 2, 2, "prefix", TRUE), Gw(3, 2, 2, "stem", FALSE), Gw(4, 2, 2, "suffix", FALSE), Gw(5, 3, 0, "word", FALSE)>>,
   <<Wall, Gw(3, 2, 2, "word", TRUE), Gw(4, 2, 2, "punc", FALSE), Gw(5, 3, 3, "stem", TRUE), Gw(6, 3, 3, "suffix", FALSE)>>,
   <<Wall, Gw(2, 2, 2, "punc", TRUE), Gw(4, 2, 2, "stem", FALSE), Gw(5, 2, 2, "suffix", FALSE), Gw(7, 3, 0, "word", FALSE)>>,
   Stripped}

(* Links between words of the path by their places. *)
Possible == {<<1, 2>>, <<2, 3>>, <<3, 4>>, <<2, 4>>, <<4, 5>>, <<1, 5>>}

Linkage(p, ls, hide) ==
  LET seq == SetToSeq(ls)
  IN  [path |-> p, n |-> p[5].idx, hide |-> hide,
       cdj |-> [w \in 1..p[5].idx |-> \E l \in ls : w \in {p[l[1]].idx, p[l[2]].idx}],
       links |-> [k \in 1..Len(seq) |->
                    [lw |-> p[seq[k][1]].idx, rw |-> p[seq[k][2]].idx,
                     morph |-> p[seq[k][1]].sw = p[seq[k][2]].sw /\ p[seq[k][2]].type = "suffix"]]]

MCPaths == {Linkage(p, ls, hide) : p \in Gwords, ls \in SUBSET Possible, hide \in BOOLEAN}

-----------------------------------------------------------------------------
(* Constituent trees: sentences of five words and the walls, with the      *)
(* links and the HPSG knowledge of the English dictionary.                 *)

N(uc, sub) == [uc |-> uc, sub |-> sub]
Ty(uc, sub, type) == [starting_link |-> N(uc, sub), domain |-> type]

(* From data/en/4.0.constituent-knowledge. *)
StartingLinks ==
  <<Ty("S", <<"#", "#", "d">>, "z"), Ty("S", <<>>, "v"), Ty("W", <<"d">>, "s"), Ty("C", <<"e">>, "s"),
    Ty("TH", <<>>, "b"), Ty("O", <<>>, "n"), Ty("J", <<"s">>, "n"), Ty("MV", <<"p">>, "p"),
    Ty("M", <<"p">>, "p"), Ty("R", <<"*">>, "b"), Ty("R", <<"n">>, "s"), Ty("P", <<"a">>, "a"),
    Ty("A", <<>>, "u"), Ty("I", <<>>, "v"), Ty("MX", <<"#", "*">>, "n"), Ty("MX", <<"#", "r">>, "b"),
    Ty("MV", <<"s">>, "b"), Ty("TO", <<>>, "t"), Ty("M", <<"v">>, "v"), Ty("CO", <<"#", "s">>, "f"),
    Ty("CO", <<"*">>, "g"), Ty("CO", <<"p">>, "c"), Ty("YS", <<>>, "y"), Ty("QI", <<>>, "b"),
    Ty("CP", <<>>, "s"), Ty("SI", <<>>, "n"), Ty("M", <<"r">>, "b"), Ty("M", <<"j">>, "b"), Ty("NI", <<"a", "x">>, "h")>>

LeftStarters == {N("A", <<>>), N("CO", <<"#", "s">>), N("CO", <<"*">>), N("CO", <<"p">>), N("YS", <<>>)}

MCKnowledge ==
  [domain_starter |-> {StartingLinks[k].starting_link : k \in DOMAIN StartingLinks} \ LeftStarters,
   domain_contains |-> {}, urfl_starter |-> {}, urfl_only_starter |-> {}, left_starter |-> LeftStarters,
   restricted |-> {N("B", <<"#", "*">>), N("D", <<"#", "#", "w">>), N("W", <<"d">>)}, ignore |-> {N("X", <<"c", "a">>)},
   starting_link |-> StartingLinks,
   contains_one |-> <<>>, contains_none |-> <<>>, form_a_cycle |-> <<>>, bounded |-> <<>>]

L(lw, rw, name) == [lw |-> lw, rw |-> rw, name |-> name]
Ss == N("S", <<"s">>)
Wd == N("W", <<"d">>)
Os == N("O", <<"s">>)
RW == N("RW", <<>>)
MVp == N("MV", <<"p">>)
MVs == N("MV", <<"s">>)
Js == N("J", <<"s">>)
Mp == N("M", <<"p">>)
Mv == N("M", <<"v">>)
Rn == N("R", <<"n">>)
Rs == N("R", <<"*">>)
TO == N("TO", <<>>)
Ix == N("I", <<>>)
Pa == N("P", <<"a">>)
TH == N("TH", <<>>)
Ce == N("C", <<"e">>)
MX == N("MX", <<"s">>)
MXr == N("MX", <<"s", "r">>)
COs == N("CO", <<"*", "s">>)
COp == N("CO", <<"p">>)
CO == N("CO", <<>>)
QI == N("QI", <<"s", "d">>)
Dw == N("D", <<"*", "*", "w">>)
Mr == N("M", <<"r">>)
A == N("A", <<>>)
YS == N("YS", <<>>)
Ds == N("D", <<"s">>)
NIax == N("NI", <<"a", "x">>)
W(sub) == N("W", sub)
Xp == N("X", <<"p">>)
SI == N("SI", <<"s">>)
Mj == N("M", <<"j">>)
Bsd == N("B", <<"s", "d">>)

Xd == N("X", <<"d">>)
Xc == N("X", <<"c">>)
Xca == N("X", <<"c", "a">>)

W5(a, b, c, d, e) == [w \in 0..6 |-> <<"wall", a, b, c, d, e, "wall">>[w + 1]]
Plain == W5("x", "x", "x", "x", ".")

After == {Os, MVp, MVs, TO, TH, Pa, QI}
Inner == {Js, Mp, Mv, Rn, Rs, Ix, Ce, MX, Ss, Mj}

Parsed(ws, ls) == [word |-> ws, links |-> ls]

(* A subject, its verb and what follows it; the final stop. *)
Verbs == {Parsed(ws, <<L(0, 1, Wd), L(0, 5, Xp), L(1, 2, Ss), L(2, 3, a), L(3, 4, b), L(5, 6, RW)>>) :
            a \in After, b \in Inner, ws \in {Plain, W5("x", "x", "when", "x", ".")}}

(* A modifier of the subject, between commas or not. *)
Modified ==
  {Parsed(W5("x", ",", "x", ",", "x"),
        <<L(0, 1, Wd), L(1, 3, i), L(1, 5, Ss), L(2, 3, Xd), L(3, 4, c)>>) :
     i \in {MX, MXr, Mp, Mv, Rn}, c \in {Xc, Xca}}
  \cup
  {Parsed(Plain, <<L(0, 1, Wd), L(1, 2, i), L(1, 4, Ss), L(2, 3, j), L(4, 5, a)>>) :
     i \in Inner \cup {Rs}, j \in Inner, a \in {Os, Pa, TO}}
  \cup
  {Parsed(Plain, <<L(0, 1, Wd), L(1, 2, Mr), L(1, 5, Ss), L(2, 3, Dw), L(3, 4, Ss)>>),
   Parsed(Plain, <<L(0, 1, Wd), L(1, 2, Ss), L(2, 3, QI), L(3, 4, Dw), L(3, 5, Bsd), L(4, 5, Ss)>>)}

(* An opener or a subordinate clause with its comma. *)
Clauses ==
  {Parsed(W5(first, "x", ",", "x", "x"),
        <<L(0, 4, Wd), L(1, 2, j), L(1, 3, c), L(1, 4, o), L(4, 5, Ss)>>) :
     first \in {"when", "x"}, j \in {Js, Ss, Ce, Os}, c \in {Xc, Xca}, o \in {COs, COp, CO}}
  \cup
  {Parsed(W5("x", "x", ",", "when", "x"),
        <<L(0, 1, Wd), L(1, 2, Ss), L(2, 4, m), L(3, 4, Xd), L(4, 5, j)>>) :
     m \in {MVs, MVp, MX}, j \in {Js, Ss, Ce, Os}}

(* Possessives, adjectives, numbers and an inverted subject. *)
Nouns ==
  {Parsed(W5("x", "x", "x", "x", "x"), <<L(0, n, W(w)), L(1, 2, o), L(2, 3, Ds), L(3, 4, s), L(4, 5, a)>>) :
     n \in {3}, w \in {<<"d">>, <<"d", "c">>}, o \in {A, YS}, s \in {Ss, SI}, a \in After}
  \cup
  {Parsed(W5("x", "x", "$", "x", "x"), <<L(0, 1, Wd), L(1, 2, Ss), L(2, 4, o), L(3, 4, Ds), L(4, 5, NIax)>>) :
     o \in {Os, MVp}}

MCTrees == Verbs \cup Modified \cup Clauses \cup Nouns

-----------------------------------------------------------------------------
(* What is printed of a linkage.                                           *)
Tree    == INSTANCE Constituents WITH NumWords <- 7, Knowledge <- MCKnowledge, Trees <- MCTrees,
                                      step <- tstep, out <- tokens
Drawing == INSTANCE Diagram WITH Pictures <- MCPictures, i <- dword, c <- column, start <- dstart

(* What ChosenProofs assumes of the linkages. *)
ASSUME PathsDisplayable == \A l \in MCPaths : Displayable(l)

server == <<Calls, up, dict, dict_is_init, queue, thread, client, losses>>
tree == <<linkage, domains, cons, stage, tstep, tokens>>
drawing == <<lk, todo, picture, row_of, link_heights, phase, dword, column, dstart>>
display == <<lw_in, cdj, larray, chosen, npath, nbsize, place, words, cpc>>

NoParser ==
  /\ session = [stdin |-> <<>>, files |-> <<>>] /\ pos = [f \in Streams |-> 0]
  /\ handled = [f \in Streams |-> <<>>] /\ input_fh = "stdin" /\ pending = 0
  /\ opts = 0 /\ local = 0 /\ batch_errors = 0 /\ show = 0 /\ user = 0 /\ mode = "idle"
NoGenerator ==
  /\ gen = 0 /\ li = 0 /\ odom = 0 /\ num_word_choices = 0 /\ nprinted = 0 /\ printed = 0
  /\ num_printed = 0 /\ gpc = "idle"
NoTree ==
  linkage = 0 /\ domains = 0 /\ cons = 0 /\ stage = "idle" /\ tstep = 0 /\ tokens = 0
NoDrawing ==
  /\ lk = 0 /\ todo = 0 /\ picture = 0 /\ row_of = 0 /\ link_heights = 0 /\ phase = "idle"
  /\ dword = 0 /\ column = 0 /\ dstart = 0
NoDisplay ==
  /\ lw_in = 0 /\ cdj = 0 /\ larray = 0 /\ chosen = 0 /\ npath = 0 /\ nbsize = 0 /\ place = 0
  /\ words = 0 /\ cpc = "idle"

MCInit ==
  /\ which \in {"server", "parser", "generator", "tree", "drawing", "display"}
  /\ Init
  /\ which # "server" => Calls = CHOOSE cs \in CallSets : TRUE
  /\ IF which = "parser" THEN SessionInit ELSE NoParser
  /\ IF which = "generator" THEN GenInit ELSE NoGenerator
  /\ IF which = "tree" THEN Tree!CInit ELSE NoTree
  /\ IF which = "drawing" THEN Drawing!DInit ELSE NoDrawing
  /\ IF which = "display" THEN WInit ELSE NoDisplay

ServerNext ==
  which = "server" /\ Next /\ UNCHANGED <<which, sessionVars, genVars, tree, drawing, display>>
ParserNext ==
  which = "parser" /\ SessionNext /\ UNCHANGED <<which, server, genVars, tree, drawing, display>>
GeneratorNext ==
  which = "generator" /\ GenNext /\ UNCHANGED <<which, server, sessionVars, tree, drawing, display>>
TreeNext ==
  which = "tree" /\ Tree!CNext /\ UNCHANGED <<which, server, sessionVars, genVars, drawing, display>>
DrawingNext ==
  which = "drawing" /\ Drawing!DNext /\ UNCHANGED <<which, server, sessionVars, genVars, tree, display>>
DisplayNext ==
  which = "display" /\ WNext /\ UNCHANGED <<which, server, sessionVars, genVars, tree, drawing>>

MCNext == ServerNext \/ ParserNext \/ GeneratorNext \/ TreeNext \/ DrawingNext \/ DisplayNext

allvars == <<which, server, sessionVars, genVars, tree, drawing, display>>

MCSpec == MCInit /\ [][MCNext]_allvars /\ Fairness

(* print_flat_constituents() prints a tree of all words: see WholeTree of  *)
(* Constituents.                                                           *)
WholeTree == which = "tree" => Tree!WholeTree
(* The links of a diagram can be followed: see LinksReadable of Diagram.   *)
LinksReadable == which = "drawing" => Drawing!LinksReadable
=============================================================================
