------------------------------- MODULE Dialect ------------------------------
(***************************************************************************)
(* The dialects of a dictionary (link-grammar/dict-common/dialect.c,       *)
(* link-grammar/dict-file/read-dialect.c and the dialect option of         *)
(* options.c).                                                             *)
(*                                                                         *)
(* A dialect file is a sequence of section headers, names of sub-dialects  *)
(* and components "tag:cost"; the dialect option is a text of the same     *)
(* kind without sections.  A malformed label, delimiter or cost is one     *)
(* "bad" entry.  setup_dialect() turns them into a table of costs, which   *)
(* it keeps in the options and reuses for the next sentence.  Dictionaries *)
(* and options are known by their addresses, which are used again.  A file *)
(* has fewer sections than the section array starts with, and a dictionary *)
(* fewer tags than the tag array.                                          *)
(***************************************************************************)
EXTENDS Integers, Sequences, FiniteSets, Functions, SequencesExt

CONSTANTS
  Dicts,                 \* addresses of dictionaries
  Options,               \* addresses of parse options
  TagSets,               \* the expression tags a dictionary may have
  DialectFiles,          \* contents of 4.0.dialect, for each dictionary
  Confs                  \* values of the dialect option, for each of the options

DIALECT_COST_DISABLE == 10000
NoCost == 99999          \* a component without a cost
NoFile == <<[k |-> "missing", name |-> "", cost |-> 0]>>
NoTable == <<>>
Nobody == "nobody"
NoResult == [o |-> Nobody, d |-> Nobody, ok |-> FALSE]

VARIABLES
  dict,     \* what a dictionary address holds
  opt,      \* what an options address holds; partial: its last build failed
  result    \* the last call, if it was setup_dialect()

vars == <<dict, opt, result>>

Closed == [open |-> FALSE, tags |-> {}, table |-> <<>>, dflt |-> 0, cached |-> Nobody]
Fresh == [conf |-> <<>>, cost |-> NoTable, dict |-> Nobody, partial |-> FALSE]

-----------------------------------------------------------------------------
(* Reading.                                                                *)

SectionAt(table, n) == {i \in DOMAIN table : table[i].k = "section" /\ table[i].name = n}

(* The entries at which dialect_read_from_str() gives up.                  *)
Refused(text, tags) ==
  {i \in DOMAIN text :
     \/ text[i].k = "bad"
     \/ text[i].k = "tag" /\ text[i].name \notin tags
     \/ \E j \in 1..(i - 1) :
          text[i].k = "section" /\ j \in SectionAt(text, text[i].name)}

dialect_read_from_str(text, tags) == Refused(text, tags) = {}

(* A component without a cost gets the one that disables it.               *)
dialect_table(text) ==
  [i \in DOMAIN text |->
     IF text[i].k = "tag" /\ text[i].cost = NoCost
     THEN [text[i] EXCEPT !.cost = DIALECT_COST_DISABLE] ELSE text[i]]

dialect_read_from_one_line_str(lines, tags) ==
  /\ \A i \in DOMAIN lines : lines[i].k # "section"
  /\ dialect_read_from_str(lines, tags)

-----------------------------------------------------------------------------
(* Applying.                                                               *)

RECURSIVE apply_table_entry(_, _, _, _)

(* The index of a section's header; none has index 0.                      *)
SectionIndex(table, n) == IF SectionAt(table, n) = {} THEN 0 ELSE CHOOSE i \in SectionAt(table, n) : TRUE

apply_component(e, tags, st) ==
  IF e.name \in tags THEN [st EXCEPT !.cost = [@ EXCEPT ![e.name] = e.cost]] ELSE [st EXCEPT !.ok = FALSE]

(* A sub-dialect that was met before counts as a loop.                     *)
apply_sub(e, to, st) ==
  LET n == SectionIndex(to, e.name)
  IN  IF n = 0 \/ e.name \in st.met THEN [st EXCEPT !.ok = FALSE]
      ELSE apply_table_entry(to, n + 1, to, [st EXCEPT !.met = @ \cup {e.name}])

apply_table_entry(from, i, to, st) ==
  IF ~st.ok \/ i > Len(from) \/ from[i].k = "section" THEN st
  ELSE apply_table_entry(from, i + 1, to,
         IF from[i].k = "sub" THEN apply_sub(from[i], to, st)
         ELSE apply_component(from[i], DOMAIN st.cost, st))

apply_dialect(from, i, to, cost) ==
  apply_table_entry(from, i, to, [ok |-> TRUE, cost |-> cost, met |-> {}])

-----------------------------------------------------------------------------
(* Opening and closing dictionaries.                                       *)

(* Every section is supposed to be tried, but it is the default section    *)
(* that each turn of the loop applies.                                     *)
NoLoops(table, tags) ==
  apply_dialect(table, SectionIndex(table, "default") + 1, table, [t \in tags |-> 0]).ok

dialect_file_read(text, tags) ==
  IF text = NoFile THEN tags = {}
  ELSE \/ tags = {}
       \/ /\ dialect_read_from_str(text, tags)
          /\ (\E i \in DOMAIN text : text[i].k = "section") =>
               /\ text[1].k = "section"
               /\ \A i \in DOMAIN text : text[i].k = "sub" => SectionAt(text, text[i].name) # {}
               /\ NoLoops(dialect_table(text), tags)

(* dictionary_create(): a file that cannot be read loses the dictionary;   *)
(* an empty table is dropped.                                              *)
dictionary_create(d, tags, text) ==
  /\ ~dict[d].open
  /\ dialect_file_read(text, tags)
  /\ LET table == IF tags = {} \/ text = NoFile THEN <<>> ELSE dialect_table(text)
     IN  dict' = [dict EXCEPT ![d] = [open |-> TRUE, tags |-> tags, table |-> table,
                                      dflt |-> SectionIndex(table, "default"), cached |-> Nobody]]
  /\ result' = NoResult
  /\ UNCHANGED opt

dictionary_delete(d) ==
  /\ dict[d].open
  /\ dict' = [dict EXCEPT ![d] = Closed]
  /\ result' = NoResult
  /\ UNCHANGED opt

-----------------------------------------------------------------------------
(* The option and the table made from it.                                  *)

parse_options_set_dialect(o, conf) ==
  /\ conf # opt[o].conf
  /\ opt' = [opt EXCEPT ![o] = [@ EXCEPT !.conf = conf, !.cost = NoTable]]
  /\ result' = NoResult
  /\ UNCHANGED dict

parse_options_delete(o) ==
  /\ opt' = [opt EXCEPT ![o] = Fresh]
  /\ result' = NoResult
  /\ UNCHANGED dict

(* What the check of the cache would be without the dictionary's side.     *)
SameDict(o, d) == opt[o].dict = d

Cached(o, d) == opt[o].dict = d /\ dict[d].cached = o

(* The costs a new table gets.  The table is in place, all disabled, when  *)
(* the default section and then the option are applied to it, and stays    *)
(* there when one of them fails.                                           *)
Built(o, d) ==
  LET D == dict[d]
      blank == [t \in D.tags |-> DIALECT_COST_DISABLE]
      dflt == IF D.dflt = 0 THEN [ok |-> TRUE, cost |-> blank, met |-> {}]
              ELSE apply_dialect(D.table, D.dflt + 1, D.table, blank)
  IN  IF ~dflt.ok \/ opt[o].conf = <<>> THEN dflt
      ELSE IF ~dialect_read_from_one_line_str(opt[o].conf, D.tags) THEN [dflt EXCEPT !.ok = FALSE]
      ELSE apply_dialect(dialect_table(opt[o].conf), 1, D.table, dflt.cost)

(* The dictionary has no tags: the option must be blank.                   *)
setup_without_tags(o, d) ==
  /\ dict[d].open /\ dict[d].tags = {}
  /\ result' = [o |-> o, d |-> d, ok |-> opt[o].conf = <<>>]
  /\ UNCHANGED <<dict, opt>>

setup_cached(o, d) ==
  /\ dict[d].open /\ dict[d].tags # {}
  /\ opt[o].cost # NoTable /\ Cached(o, d)
  /\ result' = [o |-> o, d |-> d, ok |-> TRUE]
  /\ UNCHANGED <<dict, opt>>

setup_dialect(o, d) ==
  /\ dict[d].open /\ dict[d].tags # {}
  /\ opt[o].cost # NoTable => ~Cached(o, d)
  /\ \E r \in {Built(o, d)} :
       /\ opt' = [opt EXCEPT ![o] = [@ EXCEPT !.cost = r.cost, !.dict = d, !.partial = ~r.ok]]
       /\ result' = [o |-> o, d |-> d, ok |-> r.ok]
  /\ dict' = [dict EXCEPT ![d].cached = o]

-----------------------------------------------------------------------------
Init ==
  /\ dict = [d \in Dicts |-> Closed]
  /\ opt = [o \in Options |-> Fresh]
  /\ result = NoResult

Next ==
  \/ \E d \in Dicts :
       \/ \E tags \in TagSets, text \in DialectFiles[d] : dictionary_create(d, tags, text)
       \/ dictionary_delete(d)
  \/ \E o \in Options :
       \/ \E conf \in Confs[o] : parse_options_set_dialect(o, conf)
       \/ parse_options_delete(o)
       \/ \E d \in Dicts : setup_without_tags(o, d) \/ setup_cached(o, d) \/ setup_dialect(o, d)

Spec == Init /\ [][Next]_vars

-----------------------------------------------------------------------------
(* Properties.                                                             *)

(* The entries under a section's header.                                   *)
Body(table, n) ==
  LET at == SectionIndex(table, n)
      after == {i \in (at + 1)..Len(table) : \A j \in (at + 1)..i : table[j].k # "section"}
  IN  SubSeq(table, at + 1, at + Cardinality(after))

(* A text with each sub-dialect replaced by its section, once per section. *)
Unfold(table, text) ==
  FlattenSeq([i \in DOMAIN text |-> IF text[i].k = "sub" THEN Body(table, text[i].name) ELSE <<text[i]>>])

Unfolded(table, text) ==
  LET u[n \in 0..Len(table)] == IF n = 0 THEN text ELSE Unfold(table, u[n - 1])
  IN  u[Len(table)]

(* The cost of a tag is the one its last component gives.                  *)
CostOf(t, text) ==
  LET S == {i \in DOMAIN text : text[i].k = "tag" /\ text[i].name = t}
  IN  IF S = {} THEN DIALECT_COST_DISABLE ELSE text[CHOOSE i \in S : \A j \in S : j <= i].cost

(* When setup_dialect() reports success, the costs are those of this       *)
(* dictionary's default section overridden by this option, sub-dialects    *)
(* included: a cached table is never that of a closed dictionary, of other *)
(* options or of an earlier setting, although all addresses are used       *)
(* again.  The one exception is a table a failed setup left behind, which  *)
(* the next call takes for a cached one.                                   *)
SetupExact ==
  LET o == result.o d == result.d
  IN  result.ok /\ dict[d].tags # {} /\ ~opt[o].partial =>
        LET D == dict[d]
            text == Unfolded(D.table, (IF D.dflt = 0 THEN <<>> ELSE Body(D.table, "default"))
                                      \o dialect_table(opt[o].conf))
        IN  opt[o].cost = [t \in D.tags |-> CostOf(t, text)]
=============================================================================
