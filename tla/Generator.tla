------------------------------ MODULE Generator -----------------------------
(***************************************************************************)
(* The sentence generator (link-parser/link-generator.c and                *)
(* generator-utilities.c): for each linkage of a sentence of wildcards it  *)
(* prints sentences, choosing for each word one of the dictionary          *)
(* categories of its disjunct and one of the words of that category.       *)
(* With the explode option, an odometer goes over all choices of a         *)
(* linkage, once to count them and then to print them; when there are more *)
(* than wanted, each is printed at random, and the odometer starts again   *)
(* if none was.                                                            *)
(***************************************************************************)
EXTENDS Integers, Sequences, FiniteSets, Functions, FiniteSetsExt

CONSTANT
  Generations  \* [catlist, linkages, nsentences, explode]: a linkage is a
               \* sequence of words, a word [word, cats]

(* A linkage has words, a word without categories (cc == NULL) stands for  *)
(* itself, and a category has words: catlist ends at the first without.    *)
ASSUME GenerationsAssumption ==
  \A g \in Generations :
    /\ g.nsentences \in Nat /\ g.explode \in BOOLEAN
    /\ g.catlist \in Seq(Seq(STRING) \ {<<>>})
    /\ g.linkages \in Seq(Seq([word : STRING, cats : Seq(DOMAIN g.catlist)]) \ {<<>>})

VARIABLES
  gen,              \* the sentence of wildcards and its dictionary
  li,               \* the linkage, from 1
  odom,             \* the odometer: a choice for each word; <<>> when it has wrapped
  num_word_choices, \* the choices of this linkage, as counted
  nprinted,         \* sentences printed for this linkage
  printed,          \* what was printed: [linkage, choice, sent]
  num_printed,
  gpc

genVars == <<gen, li, odom, num_word_choices, nprinted, printed, num_printed, gpc>>

WordsOf(l) == gen.linkages[l]

(* Mutant: only the first category of a disjunct is used.                  *)
FirstCategory(w) == IF w.cats = <<>> THEN <<<<w.word>>>> ELSE <<gen.catlist[w.cats[1]]>>

(* The words that may stand for a word, by category.                       *)
Categories(w) ==
  IF w.cats = <<>> THEN <<<<w.word>>>> ELSE [c \in DOMAIN w.cats |-> gen.catlist[w.cats[c]]]

(* The choices of a word: a category and a word of it, by their indices.   *)
WordChoices(w) == UNION {{<<c, k>> : k \in DOMAIN Categories(w)[c]} : c \in DOMAIN Categories(w)}

ChoicesOf(l) ==
  {o \in [DOMAIN WordsOf(l) -> UNION {WordChoices(w) : w \in Range(WordsOf(l))}] :
     \A w \in DOMAIN o : o[w] \in WordChoices(WordsOf(l)[w])}

SentenceOf(l, o) == [w \in DOMAIN o |-> Categories(WordsOf(l)[w])[o[w][1]][o[w][2]]]

FirstChoice(l) == [w \in DOMAIN WordsOf(l) |-> <<1, 1>>]

(* The two loops of a word: the words of a category, and the categories.   *)
LastWord(w, ch) == ch[2] = Len(Categories(w)[ch[1]])
LastChoice(w, ch) == ch[1] = Len(Categories(w)) /\ LastWord(w, ch)
NextChoice(w, ch) == IF LastWord(w, ch) THEN <<ch[1] + 1, 1>> ELSE <<ch[1], ch[2] + 1>>

(* The next position of the odometer: the last word turns fastest.         *)
sent_odom(l, o) ==
  LET more == {w \in DOMAIN o : ~LastChoice(WordsOf(l)[w], o[w])}
      turn == Max(more)
  IN  IF more = {} THEN <<>>
      ELSE [w \in DOMAIN o |-> IF w < turn THEN o[w]
                               ELSE IF w = turn THEN NextChoice(WordsOf(l)[w], o[w]) ELSE <<1, 1>>]

(* samples > 1, and chance >= 1, without fractions.                        *)
Several == gen.explode /\ gen.nsentences > Len(gen.linkages)
Always == gen.nsentences >= Len(gen.linkages) * num_word_choices

PrintSent(o) == printed' = Append(printed, [linkage |-> li, choice |-> o, sent |-> SentenceOf(li, o)])

-----------------------------------------------------------------------------
(* print_sentences() with at most one sample: one random sentence.         *)
PrintOne ==
  /\ gpc = "linkage" /\ li <= Len(gen.linkages) /\ ~Several
  /\ \E o \in ChoicesOf(li) : PrintSent(o)
  /\ nprinted' = 1 /\ gpc' = "printed"
  /\ UNCHANGED <<gen, li, odom, num_word_choices, num_printed>>

StartSeveral ==
  /\ gpc = "linkage" /\ li <= Len(gen.linkages) /\ Several
  /\ odom' = FirstChoice(li) /\ num_word_choices' = 0 /\ nprinted' = 0 /\ gpc' = "count"
  /\ UNCHANGED <<gen, li, printed, num_printed>>

(* count_choices() *)
CountChoice ==
  /\ gpc = "count" /\ odom # <<>>
  /\ num_word_choices' = num_word_choices + 1
  /\ odom' = sent_odom(li, odom)
  /\ UNCHANGED <<gen, li, nprinted, printed, num_printed, gpc>>

Counted ==
  /\ gpc = "count" /\ odom = <<>>
  /\ odom' = FirstChoice(li) /\ gpc' = "odometer"
  /\ UNCHANGED <<gen, li, num_word_choices, nprinted, printed, num_printed>>

(* print_word_choices(): always, or by chance.                             *)
PrintChoice ==
  /\ gpc = "odometer" /\ odom # <<>>
  /\ PrintSent(odom) /\ nprinted' = nprinted + 1
  /\ odom' = sent_odom(li, odom)
  /\ UNCHANGED <<gen, li, num_word_choices, num_printed, gpc>>

SkipChoice ==
  /\ gpc = "odometer" /\ odom # <<>> /\ ~Always
  /\ odom' = sent_odom(li, odom)
  /\ UNCHANGED <<gen, li, num_word_choices, nprinted, printed, num_printed, gpc>>

(* Print at least one sentence: keep trying until there is one.            *)
TurnAgain ==
  /\ gpc = "odometer" /\ odom = <<>> /\ nprinted = 0
  /\ odom' = FirstChoice(li)
  /\ UNCHANGED <<gen, li, num_word_choices, nprinted, printed, num_printed, gpc>>

HasPrinted ==
  /\ gpc = "odometer" /\ odom = <<>> /\ nprinted # 0
  /\ gpc' = "printed"
  /\ UNCHANGED <<gen, li, odom, num_word_choices, nprinted, printed, num_printed>>

NextLinkage ==
  /\ gpc = "printed"
  /\ num_printed' = num_printed + nprinted
  /\ nprinted' = 0 /\ odom' = <<>> /\ num_word_choices' = 0
  /\ IF num_printed' >= gen.nsentences THEN gpc' = "done" /\ UNCHANGED li
     ELSE gpc' = "linkage" /\ li' = li + 1
  /\ UNCHANGED <<gen, printed>>

Finish ==
  /\ gpc = "linkage" /\ li > Len(gen.linkages)
  /\ gpc' = "done"
  /\ UNCHANGED <<gen, li, odom, num_word_choices, nprinted, printed, num_printed>>

-----------------------------------------------------------------------------
GenInit ==
  /\ gen \in Generations
  /\ li = 1 /\ odom = <<>> /\ num_word_choices = 0 /\ nprinted = 0
  /\ printed = <<>> /\ num_printed = 0 /\ gpc = "linkage"

GenNext ==
  \/ PrintOne \/ StartSeveral \/ CountChoice \/ Counted \/ PrintChoice \/ SkipChoice
  \/ TurnAgain \/ HasPrinted \/ NextLinkage \/ Finish

GenSpec == GenInit /\ [][GenNext]_genVars

-----------------------------------------------------------------------------
(* The sentences of a linkage: every word from a category of its disjunct. *)
SentencesOf(l) ==
  {s \in [DOMAIN WordsOf(l) -> UNION {UNION {Range(c) : c \in Range(Categories(w))} : w \in Range(WordsOf(l))}] :
     \A w \in DOMAIN s : IF WordsOf(l)[w].cats = <<>> THEN s[w] = WordsOf(l)[w].word
                         ELSE \E c \in Range(WordsOf(l)[w].cats) : s[w] \in Range(gen.catlist[c])}

PrintedFor(l) == {n \in DOMAIN printed : printed[n].linkage = l}

(* Every linkage that was dealt with got at least one sentence, only       *)
(* sentences of its own; the choices were counted right; and, when no more *)
(* word choices exist than samples are wanted, "one sentence for each      *)
(* possible word-choice" was printed.                                      *)
GeneratesChoices ==
  gpc = "printed" =>
    /\ PrintedFor(li) # {} /\ \A n \in PrintedFor(li) : printed[n].sent \in SentencesOf(li)
    /\ Several => num_word_choices = Cardinality(ChoicesOf(li))
    /\ Several /\ Always =>
         /\ {printed[n].sent : n \in PrintedFor(li)} = SentencesOf(li)
         /\ {printed[n].choice : n \in PrintedFor(li)} = ChoicesOf(li)
         /\ \A m, n \in PrintedFor(li) : printed[m].choice = printed[n].choice => m = n
=============================================================================
