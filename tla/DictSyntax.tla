----------------------------- MODULE DictSyntax -----------------------------
(***************************************************************************)
(* The expressions of a dictionary file: make_expression() builds the tree *)
(* of an expression from its tokens, print_expression_parens() writes a    *)
(* tree as tokens again.                                                   *)
(*                                                                         *)
(* A character is its ASCII code.  A token is a record [k, v, w, con, n]:  *)
(* k = "sp" is a special character v, "con" a connector con, "num" a cost  *)
(* n, and "word" a word w (v names the operators among the words).  Costs  *)
(* are in halves.  A connector is [hd, uc, lc, dir, multi].  A tree is     *)
(* [type, con, ops, cost, tag], tag = <<>> when it has no dialect tag.     *)
(* What a token is, link_advance() and check_connector() have decided.     *)
(***************************************************************************)
EXTENDS Integers, Sequences, FiniteSets, SequencesExt

Only(S) == CHOOSE e \in S : TRUE

MARK == 3               \* SUBSCRIPT_MARK
DOT == 46               \* SUBSCRIPT_DOT
UNDERBAR == 95
STAR == 42              \* WILD_TYPE
BACKSLASH == 92
IsDigit(c) == c \in 48..57

NoCon == [hd |-> "", uc |-> <<>>, lc |-> <<>>, dir |-> "", multi |-> FALSE]
Sp(c) == [k |-> "sp", v |-> c, w |-> <<>>, con |-> NoCon, n |-> 0]
Conn(c) == [k |-> "con", v |-> "", w |-> <<>>, con |-> c, n |-> 0]
Num(i) == [k |-> "num", v |-> "", w |-> <<>>, con |-> NoCon, n |-> i]
Word(s) == [k |-> "word", v |-> "", w |-> s, con |-> NoCon, n |-> 0]
OperatorWord(name, s) == [Word(s) EXCEPT !.v = name]

is_equal(tok, c) == tok.k = "sp" /\ tok.v = c

(* patch_subscript(): the last dot becomes a mark, unless it is the last   *)
(* character or a digit follows it.                                        *)
patch_subscript(s) ==
  LET dots == {i \in DOMAIN s : s[i] = DOT}
      ds == CHOOSE i \in dots : \A j \in dots : j <= i
  IN  IF dots = {} \/ ds = Len(s) \/ IsDigit(s[ds + 1]) THEN s
      ELSE [s EXCEPT ![ds] = MARK]

-----------------------------------------------------------------------------
(* Expression trees *)

Exp_create(type, ops) == [type |-> type, con |-> NoCon, ops |-> ops, cost |-> 0, tag |-> <<>>]
make_zeroary_node == Exp_create("AND", <<>>)
make_unary_node(e) == Exp_create("AND", <<e>>)
make_and_node(a, b) == Exp_create("AND", <<a, b>>)
make_or_node(a, b) == Exp_create("OR", <<a, b>>)
make_optional_node(e) == make_or_node(make_zeroary_node, e)
make_connector_node(c) == [Exp_create("CONNECTOR", <<>>) EXCEPT !.con = c]

(* Mutant: A ^ B is taken as A & B. *)
FixedOrder(a, b) == make_and_node(a, b)

(* A ^ B is (A & B) or (B & A). *)
SymAnd(a, b) == make_or_node(make_and_node(a, b), make_and_node(b, a))

-----------------------------------------------------------------------------
(* make_expression().  A result is [e, at], at the first token that is not *)
(* part of the expression; at = 0 is the error NULL.  ts ends in ";".      *)
(* macros[s] has the expressions of the words that are s exactly.          *)

NULL == [e |-> make_zeroary_node, at |-> 0]
Result(e, i) == [e |-> e, at |-> i]

Lookup(macros, s) == IF s \in DOMAIN macros THEN macros[s] ELSE <<>>

make_connector(tok, i, macros) ==
  IF tok.k = "con"
    THEN LET c == tok.con
             Dir(dr) == make_connector_node([c EXCEPT !.dir = dr])
         IN  Result(IF c.dir = "$" THEN make_or_node(Dir("+"), Dir("-")) ELSE Dir(c.dir), i + 1)
    ELSE LET dn == IF tok.k = "num" THEN <<>> ELSE Lookup(macros, patch_subscript(tok.w))
         IN  IF Len(dn) = 1 THEN Result(make_unary_node(dn[1]), i + 1) ELSE NULL

valid_dialect_name(tok) == tok.k = "word" /\ \A i \in DOMAIN tok.w : tok.w[i] # DOT

IsAlpha(tok) == tok.k = "word" \/ (tok.k = "con" /\ ~tok.con.multi)

(* What follows a "]": a cost, a dialect tag or nothing (a cost of 1).     *)
AfterBracket(e, ts, i) ==
  IF ts[i].k = "num" THEN Result([e EXCEPT !.cost = @ + ts[i].n], i + 1)
  ELSE IF IsAlpha(ts[i]) /\ ts[i].v \notin {"or", "and"}
    THEN IF ~valid_dialect_name(ts[i]) THEN NULL
         ELSE LET n == IF e.type = "CONNECTOR" \/ e.tag # <<>> THEN make_unary_node(e) ELSE e
              IN  Result([n EXCEPT !.tag = ts[i].w], i + 1)
  ELSE Result([e EXCEPT !.cost = @ + 2], i)

Operator(tok) ==
  CASE is_equal(tok, "&") \/ tok.v = "and" -> "AND"
    [] is_equal(tok, "|") \/ tok.v = "or" -> "OR"
    [] is_equal(tok, "^") \/ tok.v = "sym" -> "SYM"
    [] OTHER -> ""

(* The operand chain when nl has been read; sym says that ^ precedes it.   *)
Extend(ops, nl, sym) ==
  IF sym THEN [ops EXCEPT ![Len(ops)] = SymAnd(@, nl)] ELSE Append(ops, nl)

RECURSIVE make_expression(_, _, _), Operand(_, _, _), Operands(_, _, _, _, _)

make_expression(ts, i, macros) == Operands(ts, Operand(ts, i, macros), macros, <<>>, "")

Closed(ts, r, c) == r.at # 0 /\ is_equal(ts[r.at], c)

Operand(ts, i, macros) ==
  CASE is_equal(ts[i], "(") ->
         Only({IF Closed(ts, r, ")") THEN Result(r.e, r.at + 1) ELSE NULL :
                 r \in {make_expression(ts, i + 1, macros)}})
    [] is_equal(ts[i], "{") ->
         Only({IF Closed(ts, r, "}") THEN Result(make_optional_node(r.e), r.at + 1) ELSE NULL :
                 r \in {make_expression(ts, i + 1, macros)}})
    [] is_equal(ts[i], "[") ->
         Only({IF Closed(ts, r, "]") THEN AfterBracket(r.e, ts, r.at + 1) ELSE NULL :
                 r \in {make_expression(ts, i + 1, macros)}})
    [] ts[i].k # "sp" -> make_connector(ts[i], i, macros)
    [] is_equal(ts[i], ")") \/ is_equal(ts[i], "]") -> Result(make_zeroary_node, i)
    [] OTHER -> NULL

(* The loop: r is the operand just read, op the operator before it and     *)
(* ops the operand chain before it.                                        *)
Operands(ts, r, macros, ops, op) ==
  IF r.at = 0 THEN NULL
  ELSE LET chain == Extend(ops, r.e, op = "SYM")
           type == IF op = "OR" THEN "OR" ELSE "AND"
           next == Operator(ts[r.at])
       IN  CASE next = "" -> Result(IF op = "" THEN r.e ELSE Exp_create(type, chain), r.at)
             [] op # "" /\ (next = "OR") # (op = "OR") -> NULL
             [] OTHER -> Operands(ts, Operand(ts, r.at + 1, macros), macros, chain, next)

-----------------------------------------------------------------------------
(* print_expression_parens() *)

(* get_expression_cost(): how many brackets, and the number after them.    *)
get_expression_cost(e) ==
  CASE e.cost < 0 -> [icost |-> 1, dcost |-> e.cost]
    [] e.cost % 2 = 0 /\ e.cost \div 2 <= 4 -> [icost |-> e.cost \div 2, dcost |-> 0]
    [] OTHER -> [icost |-> 1, dcost |-> e.cost]

is_expression_optional(e) ==
  e.type = "OR" /\ e.ops # <<>> /\ e.ops[1] = make_zeroary_node

Times(n, tok) == [i \in 1..n |-> tok]

RECURSIVE print_expression_parens(_, _)
print_expression_parens(e, need_parens) ==
  LET c == get_expression_cost(e)
      parens == (c.icost = 0 /\ need_parens) \/ e.ops = <<>>
      opr == Sp(IF e.type = "AND" THEN "&" ELSE "|")
      Operand_(i) == (IF i = 1 THEN <<>> ELSE <<opr>>) \o print_expression_parens(e.ops[i], TRUE)
      body == CASE e.type = "CONNECTOR" -> <<Conn(e.con)>>
                [] is_expression_optional(e) ->
                     <<Sp("{")>> \o print_expression_parens(e.ops[2], FALSE) \o <<Sp("}")>>
                [] OTHER -> (IF parens THEN <<Sp("(")>> ELSE <<>>)
                            \o FlattenSeq([i \in DOMAIN e.ops |-> Operand_(i)])
                            \o (IF parens THEN <<Sp(")")>> ELSE <<>>)
      tagged == e.type # "CONNECTOR" /\ e.tag # <<>>
  IN  Times(c.icost, Sp("[")) \o (IF tagged THEN <<Sp("[")>> ELSE <<>>) \o body
      \o Times(c.icost, Sp("]")) \o (IF c.dcost # 0 THEN <<Num(c.dcost)>> ELSE <<>>)
      \o (IF tagged THEN <<Sp("]"), Word(e.tag)>> ELSE <<>>)

-----------------------------------------------------------------------------
(* What an expression stands for: the sequences of connectors that satisfy *)
(* it, each with its cost and the dialect tags it depends on.              *)

One(cs, n, tags) == [cs |-> cs, cost |-> n, tags |-> tags]
Then(A, B) == {One(a.cs \o b.cs, a.cost + b.cost, a.tags \cup b.tags) : a \in A, b \in B}
Plus(A, n, tags) == {One(a.cs, a.cost + n, a.tags \cup tags) : a \in A}
Empty == {One(<<>>, 0, {})}

RECURSIVE Meaning(_)
Meaning(e) ==
  Plus(CASE e.type = "CONNECTOR" -> {One(<<e.con>>, 0, {})}
         [] e.type = "AND" -> FoldLeft(LAMBDA A, o : Then(A, Meaning(o)), Empty, e.ops)
         [] e.type = "OR" -> UNION {Meaning(e.ops[i]) : i \in DOMAIN e.ops},
       e.cost, IF e.tag = <<>> THEN {} ELSE {e.tag})

(* The format as read-dict.c documents it: operators of one level are all  *)
(* "or", or all "and" and "^", of which "^" binds tighter; {} is an option *)
(* and [] a cost.  An operand may be left out before ")" and "]".  Invalid *)
(* is {}, which no valid expression means.                                 *)
Opening == {"(", "{", "["}
Closing == {")", "}", "]"}
Depth(ts, i) == Cardinality({j \in 1..i : ts[j].k = "sp" /\ ts[j].v \in Opening})
                - Cardinality({j \in 1..i : ts[j].k = "sp" /\ ts[j].v \in Closing})

Operators(ts, O) == {i \in DOMAIN ts : Depth(ts, i) = 0 /\ Operator(ts[i]) \in O}

(* The parts of ts between the positions P. *)
Parts(ts, P) ==
  LET cuts == {0, Len(ts) + 1} \cup P
      At(m) == CHOOSE c \in cuts : Cardinality({p \in cuts : p < c}) = m
  IN  [m \in 1..(Cardinality(P) + 1) |-> SubSeq(ts, At(m - 1) + 1, At(m) - 1)]

Comm(A, B) == Then(A, B) \cup Then(B, A)
Between(ts, m) == SubSeq(ts, 2, m)
Brackets(ts, m, open, close) ==
  /\ m > 1 /\ is_equal(ts[1], open) /\ is_equal(ts[m], close)
  /\ \A i \in 1..(m - 1) : Depth(ts, i) > 0

RECURSIVE Denotes(_, _, _)
Denotes(ts, macros, empty) ==
  LET n == Len(ts)
      D(s, last) == Denotes(s, macros, empty /\ last)
      ors == Operators(ts, {"OR"})  ands == Operators(ts, {"AND"})  syms == Operators(ts, {"SYM"})
      all == Parts(ts, ors \cup ands \cup syms)
      Inner(m, e) == Denotes(Between(ts, m - 1), macros, e)
      SymChain(s, last) ==
        LET ps == Parts(s, Operators(s, {"SYM"}))
        IN  FoldLeft(LAMBDA A, i : IF i = 1 THEN D(ps[1], last /\ Len(ps) = 1)
                                   ELSE Comm(A, D(ps[i], last /\ i = Len(ps))),
                     {}, [i \in DOMAIN ps |-> i])
  IN  CASE ors # {} /\ ands \cup syms # {} -> {}
        [] \E i \in 1..(n - 1) : ts[i].k = "sp" /\ ts[i].v \in Closing /\ Depth(ts, i) < 0 -> {}
        [] ors # {} -> IF \E i \in DOMAIN all : D(all[i], i = Len(all)) = {} THEN {}
                       ELSE UNION {D(all[i], i = Len(all)) : i \in DOMAIN all}
        [] ands \cup syms # {} ->
             LET ps == Parts(ts, ands)
             IN  FoldLeft(LAMBDA A, i : Then(A, SymChain(ps[i], i = Len(ps))), Empty,
                          [i \in DOMAIN ps |-> i])
        [] n = 0 -> IF empty THEN Empty ELSE {}
        [] n = 1 /\ ts[1].k = "con" ->
             {One(<<[ts[1].con EXCEPT !.dir = d]>>, 0, {}) :
                d \in IF ts[1].con.dir = "$" THEN {"+", "-"} ELSE {ts[1].con.dir}}
        [] n = 1 /\ ts[1].k = "word" ->
             LET m == Lookup(macros, patch_subscript(ts[1].w))
             IN  IF Len(m) = 1 THEN Meaning(m[1]) ELSE {}
        [] Brackets(ts, n, "(", ")") -> Inner(n, TRUE)
        [] Brackets(ts, n, "{", "}") -> LET in == Inner(n, FALSE)
                                        IN  IF in = {} THEN {} ELSE Empty \cup in
        [] Brackets(ts, n, "[", "]") -> Plus(Inner(n, TRUE), 2, {})
        [] n > 2 /\ Brackets(ts, n - 1, "[", "]") /\ ts[n].k = "num" ->
             Plus(Inner(n - 1, TRUE), ts[n].n, {})
        [] n > 2 /\ Brackets(ts, n - 1, "[", "]") /\ valid_dialect_name(ts[n]) ->
             Plus(Inner(n - 1, TRUE), 0, {ts[n].w})
        [] OTHER -> {}

(* What is read from the tokens of an entry's expression, with the ";".    *)
ReadEntryExp(ts, macros) ==
  Only({IF Closed(ts, r, ";") THEN Result(r.e, r.at) ELSE NULL :
          r \in {make_expression(ts, 1, macros)}})

(* An "or" of three or more operands that starts with () is printed as the *)
(* option of its second operand alone.                                     *)
RECURSIVE Printable(_)
Printable(e) ==
  /\ ~(is_expression_optional(e) /\ Len(e.ops) > 2)
  /\ \A i \in DOMAIN e.ops : Printable(e.ops[i])
=============================================================================
