----------------------------- MODULE Dictionary -----------------------------
(***************************************************************************)
(* Reading a dictionary file into memory: read_entry() reads the words of  *)
(* an entry and its expression, insert_list() puts them into the binary    *)
(* tree dict->root, insert_idiom() takes the idioms apart, and fread_dict()*)
(* balances the tree at the end of every file, included ones too.  When    *)
(* the last file is read, condesc_setup() gives the connectors their       *)
(* length limits and the dictionary answers lookups.                       *)
(*                                                                         *)
(* A dictionary file is a sequence of complete entries; a word file is a   *)
(* sequence of words.  Words are 7-bit, without "*".  The test option      *)
(* disallow-dup-idioms is off, and the dictionary is not for generation.   *)
(***************************************************************************)
EXTENDS DictSyntax

CONSTANTS
  Sources,          \* the files: [main, dicts, wordfiles]
  Queries,          \* words that are looked up
  IDIOM_LINK_SZ,    \* size of current_idiom, with its end mark
  LastLetter        \* 'Z'

ASSUME IdiomNames == IDIOM_LINK_SZ \in Nat /\ IDIOM_LINK_SZ > 1 /\ LastLetter \in 65..90

VARIABLES
  source,   \* the files read
  fcurs,    \* the files being read: a stack of [file, at]
  dict,     \* the Dictionary
  limits,   \* the length limits of the connectors
  defs,     \* the entries read so far: [words, exp]
  last,     \* the last expression read: [ts, macros, result]
  pc

vars == <<source, fcurs, dict, limits, defs, last, pc>>

UNLIMITED_LEN == 255
MAX_SENTENCE == 254
UNLIMITED_CONNECTORS_WORD == <<85>>
LIMITED_CONNECTORS_WORD == <<76>>
IdiomMark == <<MARK, UNDERBAR, 73>>

-----------------------------------------------------------------------------
(* Words *)

Char(s, i) == IF i <= Len(s) THEN s[i] ELSE 0
FirstWith(s, P(_)) == CHOOSE i \in 1..(Len(s) + 1) : P(i) /\ \A j \in 1..(i - 1) : ~P(j)

Marks(s) == {i \in DOMAIN s : s[i] = MARK}

(* get_word_subscript(): from the last mark; <<>> is no subscript.         *)
get_word_subscript(s) ==
  IF Marks(s) = {} THEN <<>>
  ELSE SubSeq(s, CHOOSE i \in Marks(s) : \A j \in Marks(s) : j <= i, Len(s))

is_idiom_word(s) == get_word_subscript(s) = IdiomMark

contains_underbar(s) ==
  /\ s # <<>> /\ s[1] # UNDERBAR
  /\ \E i \in 2..Len(s) : /\ s[i] = UNDERBAR /\ s[i - 1] # BACKSLASH
                          /\ \A j \in 2..i : s[j] # MARK

dict_order_strict(s, t) ==
  LET Stop(i) == Char(s, i) # Char(t, i) \/ Char(s, i) = 0
      k == FirstWith(s, Stop)
  IN  Char(s, k) - Char(t, k)

Unmarked(c) == IF c = MARK THEN 0 ELSE c

dict_order_bare(s, t) ==
  LET Stop(i) == Char(s, i) # Char(t, i) \/ Char(s, i) = 0
      k == FirstWith(s, Stop)
  IN  Char(s, k) - Unmarked(Char(t, k))

dict_order_wild(s, t) ==
  LET Stop(i) == Char(s, i) # Char(t, i) \/ Char(s, i) \in {0, MARK}
      k == FirstWith(s, Stop)
  IN  IF Char(s, k) = STAR THEN 0 ELSE Unmarked(Char(s, k)) - Unmarked(Char(t, k))

dict_order(order, s, t) ==
  CASE order = "strict" -> dict_order_strict(s, t)
    [] order = "bare" -> dict_order_bare(s, t)
    [] order = "wild" -> dict_order_wild(s, t)

subscr_match(s, t) ==
  IF get_word_subscript(s) = <<>> THEN ~is_idiom_word(t)
  ELSE get_word_subscript(s) = get_word_subscript(t)

-----------------------------------------------------------------------------
(* The tree *)

Nil == [k |-> "nil"]
Node(s, e) == [k |-> "node", string |-> s, exp |-> e, left |-> Nil, right |-> Nil]

(* rdictionary_lookup(): the list is in the order of the tree.             *)
RECURSIVE rdictionary_lookup(_, _, _)
rdictionary_lookup(dn, s, order) ==
  IF dn.k = "nil" THEN <<>>
  ELSE LET m == dict_order(order, s, dn.string)
       IN  CASE m > 0 -> rdictionary_lookup(dn.right, s, order)
             [] m < 0 -> rdictionary_lookup(dn.left, s, order)
             [] m = 0 -> rdictionary_lookup(dn.left, s, order)
                         \o (IF order # "wild" \/ subscr_match(s, dn.string)
                               THEN <<[string |-> dn.string, exp |-> dn.exp]>> ELSE <<>>)
                         \o rdictionary_lookup(dn.right, s, order)

strict_lookup_list(root, s) == rdictionary_lookup(root, s, "strict")
dict_node_lookup(root, s) == rdictionary_lookup(root, s, "bare")

(* The last dot of the query is a subscript's, unless it is the last       *)
(* character or before the "*".                                            *)
dict_node_wild_lookup(root, s) ==
  LET Rightmost(c) == {i \in DOMAIN s : s[i] = c /\ \A j \in (i + 1)..Len(s) : s[j] # c}
      sub == {d \in Rightmost(DOT) : d # Len(s) /\ \A w \in Rightmost(STAR) : d > w}
  IN  rdictionary_lookup(root, [i \in DOMAIN s |-> IF i \in sub THEN MARK ELSE s[i]], "wild")

(* dict_node_insert(), where an equal word is an error or not.             *)
RECURSIVE Insert(_, _, _)
Insert(n, new, error) ==
  IF n.k = "nil" THEN new
  ELSE LET comp == dict_order_strict(new.string, n.string)
       IN  IF comp < 0 \/ (comp = 0 /\ error)
             THEN [n EXCEPT !.left = Insert(@, new, error)]
             ELSE [n EXCEPT !.right = Insert(@, new, error)]

dup_word_status(d, s) ==
  IF d.allow_duplicate_words = d.allow_duplicate_idioms \/ ~contains_underbar(s)
    THEN d.allow_duplicate_words
    ELSE d.allow_duplicate_idioms

(* dup_word_error(): the first duplicate decides about all of them.        *)
DecideDup(d, s) ==
  IF dup_word_status(d, s) = 1 \/ d.allow_duplicate_words # 0 THEN d
  ELSE [d EXCEPT !.allow_duplicate_words =
                    IF "allow-duplicate-words" \in DOMAIN d.dfine
                       /\ d.dfine["allow-duplicate-words"] = "true" THEN 1 ELSE -1,
                 !.allow_duplicate_idioms = 1]

(* A word that may not be a duplicate is inserted with a null expression.  *)
dict_node_insert(d, s, e) ==
  IF strict_lookup_list(d.root, s) = <<>>
    THEN [d EXCEPT !.root = Insert(@, Node(s, e), FALSE)]
    ELSE LET dd == DecideDup(d, s)
             error == dup_word_status(dd, s) # 1
         IN  [dd EXCEPT !.root = Insert(@, Node(s, IF error THEN make_zeroary_node ELSE e), error)]

-----------------------------------------------------------------------------
(* The DSW algorithm *)

rotate_right(root) ==
  [root.left EXCEPT !.right = [root EXCEPT !.left = root.left.right]]

RECURSIVE dsw_tree_to_vine(_)
dsw_tree_to_vine(rest) ==
  IF rest.k = "nil" THEN Nil
  ELSE IF rest.left.k = "nil" THEN [rest EXCEPT !.right = dsw_tree_to_vine(@)]
  ELSE dsw_tree_to_vine(rotate_right(rest))

RECURSIVE dsw_compression(_, _)
dsw_compression(pivot, count) ==
  IF count = 0 THEN pivot
  ELSE LET root == pivot.right
       IN  [root EXCEPT !.left = [pivot EXCEPT !.right = root.left],
                        !.right = dsw_compression(@, count - 1)]

RECURSIVE PowerUpTo(_, _)
PowerUpTo(pk, size) == IF pk < size THEN PowerUpTo(2 * pk + 1, size) ELSE pk
full_tree_size(size) == PowerUpTo(1, size) \div 2

RECURSIVE CompressAll(_, _)
CompressAll(root, size) ==
  IF size > 1 THEN CompressAll(dsw_compression(root, size \div 2), size \div 2) ELSE root

dsw_vine_to_tree(root, size) ==
  LET full_count == full_tree_size(size + 1)
  IN  CompressAll(dsw_compression(root, size - full_count), full_count)

-----------------------------------------------------------------------------
(* Idioms *)

is_idiom_string(s) ==
  /\ s[1] # UNDERBAR /\ s[Len(s)] # UNDERBAR
  /\ \A i \in 1..(Len(s) - 1) : ~(s[i] = UNDERBAR /\ s[i + 1] = UNDERBAR)

(* The words of the idiom, the last one first; it keeps the subscript.     *)
make_idiom_Dict_nodes(s) ==
  LET sm == Len(s) - Len(get_word_subscript(s))
      bars == {i \in 1..sm : s[i] = UNDERBAR}
      cuts == {0, Len(s) + 1} \cup bars
      At(m) == CHOOSE c \in cuts : Cardinality({p \in cuts : p < c}) = m
  IN  Reverse([m \in 1..(Cardinality(bars) + 1) |-> SubSeq(s, At(m - 1) + 1, At(m) - 1)])

(* The next name; <<>> when assert() finds an overflow.                    *)
increment_current_name(name) ==
  LET up == {i \in DOMAIN name : name[i] < LastLetter}
      i == CHOOSE m \in up : \A j \in up : j <= m
  IN  IF up = {} THEN <<>>
      ELSE [j \in DOMAIN name |-> IF j < i THEN name[j] ELSE IF j = i THEN name[i] + 1 ELSE 65]

generate_id_connector(name, dr) ==
  LET Letter(i) == i > Len(name) \/ name[i] # 65
  IN  make_connector_node([NoCon EXCEPT !.uc = <<UNDERBAR, 73>> \o SubSeq(name, FirstWith(name, Letter), Len(name)),
                                        !.dir = dr])

RECURSIVE Leaves(_)
Leaves(e) == IF e.type = "CONNECTOR" THEN {e.con} ELSE UNION {Leaves(e.ops[i]) : i \in DOMAIN e.ops}
Desc(c) == [hd |-> c.hd, uc |-> c.uc, lc |-> c.lc]
Descs(e) == {Desc(c) : c \in Leaves(e)}

AddConnectors(d, S) == [d EXCEPT !.contable = @ \cup S]

(* The expressions of the words before the last one, backwards.            *)
RECURSIVE IdiomExps(_, _)
IdiomExps(n, name) ==
  IF n = 1 THEN <<generate_id_connector(name, "+")>>
  ELSE LET next == increment_current_name(name)
       IN  <<make_and_node(generate_id_connector(name, "+"), generate_id_connector(next, "-"))>>
           \o IdiomExps(n - 1, next)

RECURSIVE Names(_, _)
Names(name, n) == IF n = 0 \/ name = <<>> THEN name ELSE Names(increment_current_name(name), n - 1)

RECURSIVE SetExp(_, _, _)
SetExp(n, s, e) ==
  LET comp == dict_order_strict(s, n.string)
  IN  CASE comp = 0 -> [n EXCEPT !.exp = e]
        [] comp < 0 -> [n EXCEPT !.left = SetExp(@, s, e)]
        [] comp > 0 -> [n EXCEPT !.right = SetExp(@, s, e)]

(* One word of an idiom: inserted, or its expression joins those of the    *)
(* other idioms that the word is part of.                                  *)
InsertIdiomWord(d, s, e) ==
  LET word_name == s \o IdiomMark
      t == dict_node_lookup(d.root, word_name)
  IN  IF t = <<>>
        THEN [dict_node_insert(d, word_name, e) EXCEPT !.num_entries = @ + 1]
        ELSE LET others == IF t[1].exp.type = "OR" THEN t[1].exp.ops ELSE <<t[1].exp>>
             IN  [d EXCEPT !.root = SetExp(@, word_name, Exp_create("OR", <<e>> \o others))]

RECURSIVE InsertIdiomWords(_, _, _)
InsertIdiomWords(d, ws, exps) ==
  IF ws = <<>> THEN d
  ELSE Only({InsertIdiomWords(di, Tail(ws), Tail(exps)) :
               di \in {AddConnectors(InsertIdiomWord(d, Head(ws), Head(exps)), Descs(Head(exps)))}})

(* The words of an idiom, when its names start with name.                  *)
IdiomOf(d, s, e, name) ==
  LET ws == make_idiom_Dict_nodes(s)
  IN  InsertIdiomWords(d, ws, <<make_and_node(generate_id_connector(name, "-"), e)>>
                              \o IdiomExps(Len(ws) - 1, name))

(* Mutant: the name is not advanced after the first word of the idiom. *)
insert_idiom_reusing(d, s, e) ==
  IF ~is_idiom_string(s) THEN d
  ELSE IdiomOf([d EXCEPT !.current_idiom = Names(@, Len(make_idiom_Dict_nodes(s)) - 2)],
               s, e, d.current_idiom)

(* insert_idiom(): a malformed idiom is not taken apart.                   *)
insert_idiom(d, s, e) ==
  IF ~is_idiom_string(s) THEN d
  ELSE LET final == Names(d.current_idiom, Len(make_idiom_Dict_nodes(s)) - 1)
       IN  IF final = <<>> THEN [d EXCEPT !.current_idiom = <<>>]
           ELSE IdiomOf([d EXCEPT !.current_idiom = final], s, e, d.current_idiom)

-----------------------------------------------------------------------------
(* Entries *)

(* The number at the start of a string, as strtol() reads it.              *)
Number(s) == FoldLeft(LAMBDA n, c : 10 * n + c - 48, 0, s)

insert_length_limit(d, s, e) ==
  LET rest == SubSeq(s, 2, Len(s))
      End(i) == i > Len(rest) \/ ~IsDigit(rest[i])
      endp == FirstWith(rest, End)
      n == Number(SubSeq(rest, 1, endp - 1))
      Add(len) == [d EXCEPT !.length_limit_def = Append(@, [length_limit |-> len, defexp |-> e])]
  IN  CASE s = UNLIMITED_CONNECTORS_WORD -> Add(UNLIMITED_LEN)
        [] /\ s # <<>> /\ SubSeq(s, 1, 1) = LIMITED_CONNECTORS_WORD
           /\ n <= MAX_SENTENCE /\ Char(rest, endp) \in {0, MARK} -> Add(n)
        [] OTHER -> d

Reserved(s) == LET sub == get_word_subscript(s) IN sub # <<>> /\ Char(sub, 2) = UNDERBAR

(* The expression that the inserted node has: dup_word_error() may have    *)
(* replaced it.                                                            *)
InsertWord(d, s, e) ==
  IF Reserved(s) \/ d.current_idiom = <<>> THEN d
  ELSE Only({LET dup == strict_lookup_list(di.root, s) # <<>>
                 ni == dict_node_insert(di, s, e)
                 null == dup /\ dup_word_status(ni, s) # 1
             IN  [insert_length_limit(ni, s, IF null THEN make_zeroary_node ELSE e)
                    EXCEPT !.num_entries = @ + 1] :
               di \in {IF contains_underbar(s) THEN insert_idiom(d, s, e) ELSE d}})

(* insert_list(): the middle word, then the ones before and after it.      *)
RECURSIVE insert_list(_, _, _)
insert_list(d, p, e) ==
  IF p = <<>> THEN d
  ELSE LET k == (Len(p) - 1) \div 2
       IN  Only({insert_list(d2, SubSeq(p, k + 2, Len(p)), e) :
                   d2 \in {insert_list(d1, SubSeq(p, 1, k), e) :
                             d1 \in {InsertWord(d, p[k + 1], e)}}})

(* read_word_file(): "/file" stands for the words in it.                   *)
read_word_file(item) ==
  IF item.file = "" THEN <<item.w>> ELSE source.wordfiles[item.file]

Opens(item) == item.file = "" \/ item.file \in DOMAIN source.wordfiles

Item == source.dicts[Last(fcurs).file][Last(fcurs).at]
More == Last(fcurs).at <= Len(source.dicts[Last(fcurs).file])
Advance(stack) == [stack EXCEPT ![Len(stack)].at = @ + 1]

MacrosOf(ts) ==
  LET ws == {patch_subscript(ts[i].w) : i \in {j \in DOMAIN ts : ts[j].k = "word"}}
  IN  [s \in ws |-> LET dn == strict_lookup_list(dict.root, s) IN [i \in DOMAIN dn |-> dn[i].exp]]

Words == FlattenSeq([i \in DOMAIN Item.words |-> read_word_file(Item.words[i])])

(* read_entry(): words, a colon, an expression and a semicolon.            *)
ReadEntry ==
  /\ pc = "read" /\ More /\ Item.kind = "entry"
  /\ \A i \in DOMAIN Item.words : Opens(Item.words[i])
  /\ LET macros == MacrosOf(Item.exp)
     IN  \E r \in {ReadEntryExp(Item.exp, macros)}, ws \in {Words} :
           /\ r.at # 0 /\ ws # <<>>
           /\ last' = [ts |-> Item.exp, macros |-> macros, result |-> r]
           /\ \E d \in {insert_list(dict, Reverse([i \in DOMAIN ws |-> patch_subscript(ws[i])]), r.e)} :
                /\ dict' = AddConnectors(d, Descs(r.e))
                /\ pc' = IF d.current_idiom = <<>> THEN "abort" ELSE "read"
           /\ defs' = Append(defs, [words |-> [i \in DOMAIN ws |-> patch_subscript(ws[i])], exp |-> r.e])
  /\ fcurs' = Advance(fcurs)
  /\ UNCHANGED <<source, limits>>

(* A word file that cannot be opened, an expression that cannot be read or *)
(* an entry without words: the whole dictionary is given up.               *)
SyntaxError ==
  /\ pc = "read" /\ More /\ Item.kind = "entry"
  /\ IF \E i \in DOMAIN Item.words : ~Opens(Item.words[i])
       THEN UNCHANGED last
       ELSE \E macros \in {MacrosOf(Item.exp)} : \E r \in {ReadEntryExp(Item.exp, macros)} :
              /\ r.at = 0 \/ Words = <<>>
              /\ last' = [ts |-> Item.exp, macros |-> macros, result |-> r]
  /\ pc' = "failed"
  /\ UNCHANGED <<source, fcurs, dict, limits, defs>>

(* add_define(): a later definition replaces the earlier one.              *)
AddDefine ==
  /\ pc = "read" /\ More /\ Item.kind = "define"
  /\ dict' = [dict EXCEPT !.dfine = [n \in DOMAIN @ \cup {Item.name} |->
                                       IF n = Item.name THEN Item.value ELSE @[n]]]
  /\ fcurs' = Advance(fcurs)
  /\ UNCHANGED <<source, limits, defs, last, pc>>

(* "#include" reads another file before the next entry.                    *)
Include ==
  /\ pc = "read" /\ More /\ Item.kind = "include"
  /\ IF Item.file \in DOMAIN source.dicts
       THEN fcurs' = Append(Advance(fcurs), [file |-> Item.file, at |-> 1]) /\ UNCHANGED pc
       ELSE pc' = "failed" /\ UNCHANGED fcurs
  /\ UNCHANGED <<source, dict, limits, defs, last>>

(* The end of fread_dict().                                                *)
EndFile ==
  /\ pc = "read" /\ ~More
  /\ dict' = [dict EXCEPT !.root = dsw_vine_to_tree(dsw_tree_to_vine(@), dict.num_entries)]
  /\ fcurs' = Front(fcurs)
  /\ pc' = IF Len(fcurs) = 1 THEN "setup" ELSE "read"
  /\ UNCHANGED <<source, limits, defs, last>>

-----------------------------------------------------------------------------
(* condesc_setup() *)

HasPrefix(s, p) == Len(p) <= Len(s) /\ SubSeq(s, 1, Len(p)) = p

lc_easy_match(a, b) ==
  /\ \A i \in DOMAIN a.lc \cap DOMAIN b.lc : STAR \in {a.lc[i], b.lc[i]} \/ a.lc[i] = b.lc[i]
  /\ a.hd # "" /\ b.hd # "" => a.hd # b.hd

(* The connectors that c sets the limit of.  A "*" makes the name before   *)
(* it a prefix.  The names with a "*" are in uppercase up to it, and no    *)
(* connector with such a prefix is a head or a dependent.                  *)
Limited(c, t) ==
  IF \E i \in DOMAIN c.lc : c.lc[i] = STAR THEN HasPrefix(t.uc, c.uc)
  ELSE c.uc = t.uc /\ lc_easy_match(c, t)

(* The words' expressions are lists of connectors.                         *)
set_condesc_length_limit(lim, def) ==
  [t \in DOMAIN lim |->
     IF \E c \in Descs(def.defexp) : Limited(c, t) THEN def.length_limit ELSE lim[t]]

set_all_condesc_length_limit(table, deflist) ==
  LET lim == FoldLeft(set_condesc_length_limit, [t \in table |-> 0], deflist)
      unlimited_len_found == \E i \in DOMAIN deflist : deflist[i].length_limit = UNLIMITED_LEN
  IN  [t \in table |-> IF ~unlimited_len_found /\ lim[t] = 0 THEN UNLIMITED_LEN ELSE lim[t]]

Setup ==
  /\ pc = "setup"
  /\ limits' = set_all_condesc_length_limit(dict.contable, dict.length_limit_def)
  /\ dict' = [dict EXCEPT !.length_limit_def = <<>>]
  /\ pc' = "done"
  /\ UNCHANGED <<source, fcurs, defs, last>>

-----------------------------------------------------------------------------
NewDictionary ==
  [root |-> Nil, num_entries |-> 0, dfine |-> [n \in {} |-> ""],
   allow_duplicate_words |-> 0, allow_duplicate_idioms |-> 0,
   current_idiom |-> [i \in 1..(IDIOM_LINK_SZ - 1) |-> 65],
   length_limit_def |-> <<>>, contable |-> {}]

Init ==
  /\ source \in Sources
  /\ fcurs = <<[file |-> source.main, at |-> 1]>>
  /\ dict = NewDictionary
  /\ limits = [t \in {} |-> 0]
  /\ defs = <<>>
  /\ last = [ts |-> <<Sp(")"), Sp(";")>>, macros |-> [s \in {} |-> <<>>], result |-> NULL]
  /\ pc = "read"

Next == ReadEntry \/ SyntaxError \/ AddDefine \/ Include \/ EndFile \/ Setup

Spec == Init /\ [][Next]_vars

-----------------------------------------------------------------------------
(* Properties *)

Occurrences == {o \in UNION {{<<k, i>> : i \in DOMAIN defs[k].words} : k \in DOMAIN defs} :
                  ~Reserved(defs[o[1]].words[o[2]])}
W(o) == defs[o[1]].words[o[2]]
Idioms == {o \in Occurrences : contains_underbar(W(o)) /\ is_idiom_string(W(o))}
IdiomWords == UNION {{p \o IdiomMark : p \in ToSet(make_idiom_Dict_nodes(W(o)))} : o \in Idioms}

Base(s) == IF Marks(s) = {} THEN s
           ELSE SubSeq(s, 1, (CHOOSE i \in Marks(s) : \A j \in Marks(s) : i <= j) - 1)

(* Which words a query is for. *)
StrictlyIs(q, s) == s = q
BarelyIs(q, s) == s = q \/ (HasPrefix(s, q) /\ Char(s, Len(q) + 1) = MARK)
WildlyIs(q, s) ==
  LET stars == {i \in DOMAIN q : q[i] = STAR}
      sub == get_word_subscript(patch_subscript(q))
  IN  /\ IF stars # {} THEN HasPrefix(s, SubSeq(q, 1, (CHOOSE i \in stars : \A j \in stars : i <= j) - 1))
         ELSE Base(s) = Base(patch_subscript(q))
      /\ IF sub # <<>> THEN get_word_subscript(s) = sub ELSE ~is_idiom_word(s)

Allowed(s) == contains_underbar(s) \/ dict.allow_duplicate_words = 1

(* The expressions that the nodes of s should have.                        *)
ExpsOf(s) ==
  LET K == {o[1] : o \in {p \in Occurrences : W(p) = s}}
      first == CHOOSE k \in K : \A j \in K : k <= j
  IN  IF Allowed(s) THEN {defs[k].exp : k \in K}
      ELSE {defs[first].exp}
           \cup IF Cardinality({p \in Occurrences : W(p) = s}) > 1 THEN {make_zeroary_node} ELSE {}

FindsExactly(R, Is(_, _), q) ==
  LET found == {s \in {W(o) : o \in Occurrences} : Is(q, s)}
      idioms == {s \in IdiomWords : Is(q, s)}
      of(s) == {i \in DOMAIN R : R[i].string = s}
  IN  /\ {R[i].string : i \in DOMAIN R} = found \cup idioms
      /\ \A s \in found : /\ Cardinality(of(s)) = Cardinality({o \in Occurrences : W(o) = s})
                           /\ {R[i].exp : i \in of(s)} = ExpsOf(s)
      /\ \A s \in idioms : Cardinality(of(s)) = 1

(* However the tree has been built, balanced in the middle (#include) and  *)
(* rebuilt, each of the three lookups finds the words that the entries     *)
(* define, each as often as it is defined and with the expression of its   *)
(* definition, and no other word: the orders of dict_order_strict(),       *)
(* dict_order_bare() and dict_order_wild() agree with that of the tree.    *)
(* A repeated word has the first expression and null ones, unless          *)
(* duplicates are allowed.                                                 *)
LookupsExact ==
  pc = "done" =>
    \A q \in Queries :
      /\ FindsExactly(strict_lookup_list(dict.root, q), StrictlyIs, q)
      /\ FindsExactly(dict_node_lookup(dict.root, q), BarelyIs, q)
      /\ FindsExactly(dict_node_wild_lookup(dict.root, q), WildlyIs, q)

RECURSIVE Size(_), Height(_), Nodes(_)
Size(n) == IF n.k = "nil" THEN 0 ELSE 1 + Size(n.left) + Size(n.right)
Height(n) == IF n.k = "nil" THEN 0
             ELSE LET l == Height(n.left)  r == Height(n.right) IN 1 + IF l > r THEN l ELSE r
Nodes(n) == IF n.k = "nil" THEN {} ELSE {n} \cup Nodes(n.left) \cup Nodes(n.right)

(* num_entries is the number of nodes whatever insert_idiom() merges and   *)
(* insert_list() ignores, so the tree that dsw_vine_to_tree() makes of the *)
(* vine is as flat as can be: no tree of its size is lower.                *)
TreeBalanced ==
  pc \in {"setup", "done"} =>
    /\ Size(dict.root) = dict.num_entries
    /\ dict.root.k # "nil" => 2 ^ (Height(dict.root) - 1) <= Size(dict.root)

IsId(c) == HasPrefix(c.uc, <<UNDERBAR, 73>>)

(* A way to use a word of an idiom: its idiom connectors to the left and   *)
(* to the right, and the other connectors.                                 *)
Uses == UNION {{[word |-> Base(n.string),
                 l |-> {c.uc : c \in {x \in ToSet(m.cs) : IsId(x) /\ x.dir = "-"}},
                 r |-> {c.uc : c \in {x \in ToSet(m.cs) : IsId(x) /\ x.dir = "+"}},
                 rest |-> One(SelectSeq(m.cs, LAMBDA x : ~IsId(x)), m.cost, m.tags)] : m \in Meaning(n.exp)}
               : n \in {x \in Nodes(dict.root) : is_idiom_word(x.string)}}

(* The phrases that n uses in a row, joined by their idiom connectors,     *)
(* make from a word with the connector name to its left.                   *)
RECURSIVE Phrases(_, _, _)
Phrases(U, name, n) ==
  IF n = 0 THEN {}
  ELSE UNION {IF u.r = {} THEN {[ws |-> <<u.word>>, rest |-> u.rest]}
              ELSE {[ws |-> <<u.word>> \o p.ws, rest |-> p.rest] : p \in Phrases(U, u.r, n - 1)} :
                u \in {v \in U : v.l = name}}

LongestIdiom == 4

(* The idiom connectors tie the words of one idiom together and never a    *)
(* word of one with a word of another, however many idioms the words       *)
(* share: the phrases that can be linked through them are the idioms       *)
(* defined, with their expressions on the last word.                       *)
IdiomsChain ==
  pc = "done" =>
    \A U \in {Uses} :
      UNION {{[ws |-> <<u.word>> \o p.ws, rest |-> p.rest] : p \in Phrases(U, u.r, LongestIdiom)} :
               u \in {v \in U : v.l = {}}}
      = UNION {LET ps == make_idiom_Dict_nodes(W(o))
               IN  {[ws |-> Reverse([i \in DOMAIN ps |-> Base(ps[i])]), rest |-> m] :
                      m \in Meaning(defs[o[1]].exp)} : o \in Idioms}

(* make_expression(), one loop over the operands with its operand chain    *)
(* and the "^" left for the next operand, reads what the format says: the  *)
(* expression means the same, and is refused exactly when it is invalid.   *)
ExpressionsRead ==
  (IF last.result.at = 0 THEN {} ELSE Meaning(last.result.e))
  = Denotes(Front(last.ts), last.macros, FALSE)

(* What print_expression_parens() prints of an expression that was read,   *)
(* with its costs, tags and options, reads back with the same meaning.     *)
PrintedReadsBack ==
  last.result.at # 0 /\ Printable(last.result.e) =>
    \E r \in {ReadEntryExp(Append(print_expression_parens(last.result.e, FALSE), Sp(";")), last.macros)} :
      r.at # 0 /\ Meaning(r.e) = Meaning(last.result.e)
=============================================================================
