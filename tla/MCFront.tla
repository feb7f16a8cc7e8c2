------------------------------ MODULE MCFront -------------------------------
(***************************************************************************)
(* The instances of what happens to a sentence before it is parsed: texts  *)
(* for Tokenize, expressions and options for Expressions.                  *)
(***************************************************************************)
EXTENDS Integers, Sequences

-----------------------------------------------------------------------------
(* The tokenizer: a dictionary with punctuation, units, regexes, capitals, *)
(* contractions and spell guesses, like the English one, and ones with     *)
(* stems and suffixes, like the Russian one, or prefixes, with short       *)
(* sentences.                                                              *)

T(t) == [txt |-> t, inf |-> "", sub |-> ""]
Sub(t, s) == [T(t) EXCEPT !.sub = s]
Suf(t) == [T(t) EXCEPT !.inf = "suf"]
Pre(t) == [T(t) EXCEPT !.inf = "pre"]

None == [words |-> {}, regex |-> {}, lpunc |-> <<>>, rpunc |-> <<>>, mpunc |-> <<>>,
         units |-> <<>>, pre |-> <<>>, suf |-> <<>>, stemsubscr |-> <<>>,
         infix |-> FALSE, presuf |-> TRUE, digits |-> {"5"},
         alpha |-> {"a", "b", "s", "A", "B", "f"}, lower |-> [c \in {"A"} |-> "a"],
         capafter |-> {<<".">>}, entities |-> {}, spell |-> [t \in {} |-> <<>>],
         maxguess |-> 1, zzz |-> {}, leftwall |-> TRUE, rightwall |-> FALSE,
         unknown |-> TRUE, nodowncase |-> FALSE]

English ==
  [None EXCEPT
     !.words = {T(<<"a">>), T(<<"b">>), T(<<"a", "b">>), T(<<"5">>), T(<<",">>), T(<<".">>),
                T(<<"$">>), T(<<"'", "s">>), T(<<"a", ".">>), T(<<"-">>),
                Sub(<<"f">>, "u"), Sub(<<"f">>, "v"), T(<<"'">>)},
     !.regex = {<<"A", "b">>, <<"A">>, <<"5", "f">>, <<"A", "s">>, <<"5", "'", "s">>},
     !.lpunc = <<T(<<"$">>), T(<<"'">>)>>,
     !.rpunc = <<T(<<",">>), T(<<".">>), T(<<"'">>)>>,
     !.mpunc = <<T(<<"-">>)>>,
     !.units = <<Sub(<<"f">>, "u"), Sub(<<"f">>, "v")>>,
     !.suf = <<T(<<"'", "s">>)>>,
     !.entities = {<<"A">>},
     !.spell = [t \in {<<"s", "a">>, <<"a", "a">>, <<"s", "b">>} |->
                  CASE t = <<"a", "a">> -> <<<<<<"a">>, <<"a">>>>, <<<<"a">>>>, <<<<"b">>>>>>
                    [] t = <<"s", "a">> -> <<<<<<"s">>>>, <<<<"a", "b">>>>>>
                    [] t = <<"s", "b">> -> <<<<<<"b", "'", "s">>>>>>],
     !.zzz = {T(<<"'">>)}]

Russian ==
  [None EXCEPT
     !.words = {Sub(<<"a">>, "="), Sub(<<"a">>, "=x"), Sub(<<"a", "b">>, "="),
                Suf(<<"b">>), Suf(<<>>), Suf(<<"s">>), T(<<"b">>), T(<<"a", "b">>), T(<<".">>)},
     !.suf = <<T(<<"b">>), T(<<"s">>), T(<<>>)>>, !.stemsubscr = <<"=", "=x">>,
     !.rpunc = <<T(<<".">>)>>, !.infix = TRUE, !.presuf = FALSE, !.rightwall = TRUE, !.leftwall = FALSE,
     !.unknown = FALSE]

Hebrew ==
  [None EXCEPT
     !.words = {T(<<"b">>), Pre(<<"a">>), T(<<"a", "b">>), T(<<"s">>), T(<<"b", "s">>)},
     !.pre = <<T(<<"a">>), T(<<"b">>)>>, !.infix = TRUE]

Upto(n, letters) == UNION {[1..k -> letters] : k \in 1..n}

Letters == {"a", "b", "f", "s", "A", "5", ".", "$", "-", "'"}

(* Words that every part of separate_word() has something to do with.       *)
Long == {<<"$", "5", "f", ",">>, <<"5", "f", "f", ".">>, <<"b", "'", "s", ".">>,
         <<"5", "'", "s", ",">>, <<"'", "a", ".", "'">>, <<"a", "-", "b", ",">>,
         <<"'", "A", "b", "'">>, <<"s", "a">>, <<"a", "a">>}

One(d, ws) == {[dict |-> d, words |-> <<w>>] : w \in ws}
Two(d, us, ws) == {[dict |-> d, words |-> <<u, w>>] : u \in us, w \in ws}

MCTexts ==
  One(English, Upto(3, Letters)) \cup Two(English, Long \cup {<<"a", ".">>}, Long)
  \cup Two(English, Upto(2, {"a", "A", "'"}), Upto(2, {"a", "A", "."}))
  \cup One(Russian, Upto(3, {"a", "b", "s", "."}))
  \cup Two(Russian, Upto(2, {"a", "b", "s"}), Upto(2, {"a", "b", "s"}))
  \cup Two(Hebrew, Upto(2, {"a", "b", "s"}), Upto(2, {"a", "b", "s"}))

-----------------------------------------------------------------------------
(* The expressions of sentences of three words: they nest, have empty      *)
(* operands and share connectors.                                          *)

Desc(u, l, h, n) == [uc |-> u, lc |-> l, hd |-> h, limit |-> n]
A == Desc("A", <<>>, "", 0)
As == Desc("A", <<"s">>, "", 9)
Ap == Desc("A", <<"p">>, "", 1)
Bh == Desc("B", <<"*", "x">>, "h", 9)
Bd == Desc("B", <<"q">>, "d", 9)

Con(c, dr, n) == [type |-> "CONNECTOR", con |-> [desc |-> c, dir |-> dr, multi |-> FALSE],
                  ops |-> <<>>, cost |-> n]
And(ops, n) == [type |-> "AND", con |-> <<>>, ops |-> ops, cost |-> n]
Or(ops, n) == [type |-> "OR", con |-> <<>>, ops |-> ops, cost |-> n]
Opt(e) == Or(<<And(<<>>, 0), e>>, 0)

Node(e, s, g) == [exp |-> e, string |-> s, gw |-> g]

Firsts ==
  {<<Node(Or(<<Con(A, "+", 0), Con(Ap, "+", 1)>>, 1), "a", 1)>>,
   <<Node(And(<<Con(As, "+", 0), Con(Bh, "+", 1)>>, 0), "a", 1)>>,
   <<Node(And(<<Or(<<Con(Bd, "+", 0)>>, 1), Opt(Con(As, "+", 1))>>, 0), "a", 1),
     Node(Con(Bd, "+", 0), "a", 2)>>}

Middles ==
  {<<Node(And(<<Or(<<Con(A, "-", 1), Con(Bd, "-", 0)>>, 0), Con(Ap, "+", 0)>>, 0), "b", 1)>>,
   <<Node(And(<<Opt(Con(As, "-", 0)), Opt(Con(Bh, "+", 1)), Opt(Con(As, "+", 0))>>, 0), "b", 1)>>,
   <<Node(Or(<<And(<<Con(Bh, "-", 0), Con(As, "-", 0)>>, 1),
               And(<<Con(Bh, "-", 0), Opt(Con(A, "+", 0)), Con(As, "-", 0)>>, 0)>>, 0), "b", 1),
     Node(Con(As, "-", 2), "b", 2)>>}

Lasts ==
  {<<Node(Or(<<Con(Ap, "-", 0), And(<<Con(Bd, "-", 1), Con(As, "-", 1)>>, 0)>>, 0), "c", 1)>>,
   <<Node(And(<<Con(As, "-", 0), Opt(Con(Bh, "-", 0)), Opt(Con(As, "-", 0))>>, 0), "c", 1),
     Node(Opt(Con(As, "-", 3)), "c", 2)>>,
   <<>>}

Single(f, m, l) == [v \in 0..2 |-> CASE v = 0 -> f [] v = 1 -> m [] v = 2 -> l]

MCSentences == {Single(f, m, l) : f \in Firsts, m \in Middles, l \in Lasts}

MCOptions == {[short_length |-> s, all_short |-> a, disjunct_cost |-> c, max_disjuncts |-> m] :
                s \in {1, 6}, a \in BOOLEAN, c \in {1, 3}, m \in {0, 2}}
=============================================================================
