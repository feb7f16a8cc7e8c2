------------------------------- MODULE Atomese -------------------------------
(***************************************************************************)
(* The AtomSpace dictionary (link-grammar/dict-atomese/).  Threads that    *)
(* parse sentences share one dictionary: its AtomSpace, which is filled on *)
(* demand from a StorageNode, the link names issued for pairs of words,    *)
(* and the caches made from them: the dictionary tree with the expressions *)
(* of the sections of a word, the tree with its word-pair connectors and   *)
(* the table of words known to have pairs.                                 *)
(*                                                                         *)
(* A thread asks for each word of its sentence whether the dictionary has  *)
(* it (as_boolean_lookup(), which fetches), then looks up the expressions  *)
(* (as_lookup_list(), which reads the AtomSpace only) and copies them into *)
(* its sentence.  One step is one critical section of dict_mutex or        *)
(* pair_mutex, one access of the AtomSpace, or one part of a fetch: what   *)
(* is fetched arrives in pieces and is complete after barrier().  Only     *)
(* get_pair_exprs() holds dict_mutex over several steps.                   *)
(*                                                                         *)
(* An expression is the set of its alternatives: for each section the      *)
(* connectors in expression order, and the word-pair connectors that are   *)
(* or-ed together.  Costs matter only against the cutoffs.  A pointer that *)
(* may be null is a set with at most one member.  A link name is the       *)
(* number idtostr() spells; AnyId is the one that spells "ANY".            *)
(***************************************************************************)
EXTENDS Integers, Sequences, FiniteSets, SequencesExt

CONSTANTS
  Threads, Vocabulary,
  Stores,         \* the contents a StorageNode may have
  Configs,        \* settings of storage.dict, whether an AtomSpace is attached; the sentences
                  \* of each thread, how often the dictionary is opened (sessions) and how
                  \* many sentences a thread parses each time (rounds)
  AnyId           \* the number whose letters are ANY (1064)

(* Settings, and contents: sections have connectors in word order.         *)
Settings ==
  [external : BOOLEAN, storage : BOOLEAN, sections : BOOLEAN, extra_pairs : BOOLEAN, extra_any : BOOLEAN,
   pair_disjuncts : BOOLEAN, pair_with_any : BOOLEAN, any_disjuncts : BOOLEAN, unknown_word : BOOLEAN,
   generate : BOOLEAN, sentences : [Threads -> SUBSET (Seq(Vocabulary) \ {<<>>})], sessions : Nat,
   rounds : Nat]

WordOrder(cs) ==
  /\ Len(cs) \in Nat /\ DOMAIN cs = 1..Len(cs)
  /\ \A i \in DOMAIN cs : cs[i].dir \in {"-", "+"}
  /\ \A i, j \in DOMAIN cs : i < j /\ cs[j].dir = "-" => cs[i].dir = "-"

ASSUME AtomSettings == AnyId \in Nat /\ Configs \subseteq Settings
ASSUME AtomContents ==
  \A s \in Stores :
    /\ IsFiniteSet(s.sections) /\ IsFiniteSet(s.pairs)
    /\ \A x \in s.sections : WordOrder(x.conns)

VARIABLES
  conf, store,    \* the settings; the contents of the storage
  asp,            \* the AtomSpace: words, sections, members, pairs, tagged
  names, stored,  \* (Edge (Bond name) link) in the AtomSpace and in the storage
  last_id,        \* Local::last_id
  dict_tree,      \* the nodes that dict_node_lookup() lists for a word
  tail,           \* operand_next of a word's cached expression
  pair_dict,      \* Local::pair_dict
  have_pword,     \* Local::have_pword
  contable, uc_num, num_uc, \* connector names; the numbers of their upper-case parts
  category,       \* the categories for generation
  dict_mutex,     \* the thread inside get_pair_exprs() (a set of at most one)
  th,             \* the threads
  fault,          \* what ended the program, if anything
  sessions

issued == <<names, stored, last_id>>
caches == <<dict_tree, tail, pair_dict, have_pword>>
connectors == <<contable, uc_num, num_uc>>
setting == <<conf, store, category, fault, sessions>>
shared == <<asp, issued, caches, connectors, dict_mutex>>
atomvars == <<setting, shared, th>>

(***************************************************************************)
(* The AtomSpace.  A section is [germ, conns, ok], where ok says that its  *)
(* MI is not below the cutoff; a pair is [link, ok].                       *)
(***************************************************************************)
None == "none"

link_of(germ, c) == IF c.dir = "+" THEN <<germ, c.tgt>> ELSE <<c.tgt, germ>>

SectionsOf(space, g) == {s \in space.sections : s.germ = g}
ClassesOf(space, w) == {m[2] : m \in {x \in space.members : x[1] = w}}
PairsOf(space, g) == {p \in space.pairs : g \in {p.link[1], p.link[2]}}
Links(g, sections) == UNION {{link_of(g, s.conns[i]) : i \in DOMAIN s.conns} : s \in sections}

Fetches == conf.storage /\ category = <<>>           \* local->stnp is not null
pairs_on == conf.pair_disjuncts \/ conf.extra_pairs

get_lg_conn(lnk) == {e[2] : e \in {x \in names : x[1] = lnk}}
Name(lnk) == CHOOSE n \in get_lg_conn(lnk) : TRUE

(* The connectors of a section are in word order; the expression has them *)
(* by their distance from the word: those to the left are turned around.   *)
section_exp(s) ==
  LET left == Cardinality({i \in DOMAIN s.conns : s.conns[i].dir = "-"})
      Nth(k) == IF k <= left THEN left + 1 - k ELSE k
  IN [k \in DOMAIN s.conns |->
        <<Name(link_of(s.germ, s.conns[Nth(k)])), s.conns[Nth(k)].dir>>]

(* What any_expr holds is not told apart.                                  *)
DictNode(any, sects) == [any |-> any, sects |-> sects]
NullExp == DictNode(FALSE, {})
AnyConns == {<<AnyId, "-">>, <<AnyId, "+">>}

(***************************************************************************)
(* Opening the dictionary.  An attached AtomSpace has its contents; a      *)
(* private one is empty.  last_id is 0 in either case: as_open() returns   *)
(* before fetch_link_id() for an attached AtomSpace, and fetch_link_id()   *)
(* returns at once for a private one.                                      *)
(***************************************************************************)
EmptySpace == [words |-> {}, sections |-> {}, members |-> {}, pairs |-> {}, tagged |-> {}]
WordsIn(s) ==
  Vocabulary \cap ({x.germ : x \in s.sections} \cup {m[1] : m \in s.members}
              \cup UNION {{p.link[1], p.link[2]} : p \in s.pairs}
              \cup UNION {{x.conns[i].tgt : i \in DOMAIN x.conns} : x \in s.sections})
Attached(s) == [words |-> WordsIn(s), sections |-> s.sections, members |-> s.members,
                pairs |-> s.pairs, tagged |-> {}]

Idle(n) ==
  [pc |-> "idle", left |-> n, sent |-> <<>>, i |-> 1, status |-> <<>>, hit |-> FALSE,
   ask |-> None, germ |-> None, germs |-> {}, sent_words |-> {}, links |-> {}, link |-> <<>>,
   sects |-> {}, exp |-> {}, conns |-> {}, all |-> {}, caller |-> None, cpr |-> {},
   extras |-> {}, node |-> {}, result |-> <<>>]

make_any_exprs == /\ contable = {AnyId} /\ uc_num = <<>> /\ num_uc = 0

as_open ==
  /\ asp = IF conf.external /\ ~conf.storage THEN Attached(store) ELSE EmptySpace
  /\ names = {} /\ stored = {} /\ last_id = 0
  /\ dict_tree = [w \in Vocabulary |-> <<>>] /\ tail = [w \in Vocabulary |-> {}]
  /\ pair_dict = [w \in Vocabulary |-> {}] /\ have_pword = <<>>
  /\ make_any_exprs
  /\ category = <<>> /\ dict_mutex = {} /\ fault = None
  /\ th = [t \in Threads |-> Idle(conf.rounds)]

AtomInit ==
  /\ conf \in Configs
  /\ store \in IF conf.external \/ conf.storage THEN Stores
              ELSE {[sections |-> {}, members |-> {}, pairs |-> {}]}
  /\ as_open
  /\ sessions = 1

(* Generation loads the sections of the whole storage, makes a category of *)
(* each class and of each word with expressions, and closes the storage    *)
(* until the dictionary is opened again.  A link of the sections without a *)
(* name, here and in the storage, gets the next one.                       *)
WithCategory(space) ==
  LET ok(g) == \E s \in SectionsOf(space, g) : s.ok
      Classes == {c \in {s.germ : s \in space.sections} \ Vocabulary :
                    ok(c) /\ \E m \in space.members : m[2] = c}
      Single == {w \in space.words : ok(w)}
  IN {[name |-> c, words |-> {m[1] : m \in {x \in space.members : x[2] = c}}] : c \in Classes}
     \cup {[name |-> w, words |-> {w}] : w \in Single}

as_add_categories ==
  /\ conf.generate /\ category = <<>> /\ \A t \in Threads : th[t] = Idle(conf.rounds)
  /\ asp' = IF Fetches THEN [asp EXCEPT !.sections = store.sections,
                                        !.words = WordsIn([store EXCEPT !.members = {}, !.pairs = {}])]
            ELSE asp
  /\ category' = <<WithCategory(asp')>>
  /\ \E ls \in {UNION {Links(s.germ, {s}) : s \in {x \in asp'.sections : x.ok}}} :
     \E known \in {IF Fetches THEN names \cup {e \in stored : e[1] \in ls} ELSE names} :
     \E new \in {SetToSeq({l \in ls : \A e \in known : e[1] # l})} :
       LET Id(k) == IF k - 1 < AnyId THEN k - 1 ELSE k
           given == {<<new[k], Id(k)>> : k \in DOMAIN new}
       IN /\ names' = known \cup given
          /\ contable' = contable \cup {e[2] : e \in {x \in names' : x[1] \in ls}}
          /\ last_id' = IF new = <<>> THEN 0 ELSE Id(Len(new)) + 1
          /\ stored' = IF Fetches THEN stored \cup given ELSE stored
  /\ UNCHANGED <<conf, store, caches, uc_num, num_uc, dict_mutex, th, fault, sessions>>

(***************************************************************************)
(* Steps of a thread.                                                      *)
(***************************************************************************)
Updated(T, r) == [f \in DOMAIN T |-> IF f \in DOMAIN r THEN r[f] ELSE T[f]]
Become(t, r) == th' = [th EXCEPT ![t] = Updated(th[t], r)]
At(t, here) == fault = None /\ th[t].pc = here
Unlocked == dict_mutex = {}
word(t) == th[t].sent[th[t].i]

(* sentence_split(): the tokenizer asks for every word.                    *)
StartSentence(t) ==
  /\ At(t, "idle") /\ th[t].left > 0
  /\ conf.generate => category # <<>>
  /\ \E s \in conf.sentences[t] : Become(t, [Idle(th[t].left - 1) EXCEPT !.pc = "exists", !.sent = s])
  /\ UNCHANGED <<setting, shared>>

(* as_boolean_lookup() is answered: the next word, or the expressions.     *)
Answered(t, found) ==
  [status |-> Append(th[t].status, found), hit |-> FALSE,
   i |-> th[t].i + 1,
   pc |-> IF th[t].i = Len(th[t].sent) THEN "start" ELSE "exists"]

as_boolean_lookup(t) ==
  /\ At(t, "exists") /\ Unlocked
  /\ Become(t, IF dict_tree[word(t)] # <<>> THEN Answered(t, TRUE)
               ELSE IF conf.sections THEN [pc |-> "sections", germ |-> word(t), ask |-> "sections"]
               ELSE IF pairs_on THEN [pc |-> "have_pword"]
               ELSE Answered(t, FALSE))
  /\ UNCHANGED <<setting, shared>>

(* A fetch brings the atoms it asks for in any order until barrier().      *)
Arrives(old, new) == {old \cup part : part \in SUBSET new}

(***************************************************************************)
(* section_boolean_lookup(): the sections of the word and of its classes   *)
(* are counted, and fetched when there are none.                           *)
(***************************************************************************)
Counted(t, n) ==
  [hit |-> th[t].hit \/ n # {}, pc |-> IF th[t].germ = word(t) THEN "members" ELSE "class"]

count_sections(t) ==
  LET n == SectionsOf(asp, th[t].germ)
  IN /\ At(t, "sections")
     /\ asp' = [asp EXCEPT !.words = @ \cup {word(t)}]
     /\ Become(t, IF n # {} \/ ~Fetches THEN Counted(t, n) ELSE [pc |-> "fetch sections"])
     /\ UNCHANGED <<setting, issued, caches, connectors, dict_mutex>>

FetchSections(t) ==
  /\ \/ /\ At(t, "fetch sections")
        /\ \E x \in Arrives(asp.sections, SectionsOf(store, th[t].germ)) : asp' = [asp EXCEPT !.sections = x]
        /\ Become(t, [pc |-> "sections barrier"])
     \/ /\ At(t, "sections barrier")
        /\ asp' = [asp EXCEPT !.sections = @ \cup SectionsOf(store, th[t].germ)]
        /\ Become(t, Counted(t, SectionsOf(asp', th[t].germ)))
  /\ UNCHANGED <<setting, issued, caches, connectors, dict_mutex>>

(* The classes of the word: MemberLinks are fetched when there are none.   *)
Members(t) ==
  /\ \/ /\ At(t, "members")
        /\ IF ClassesOf(asp, word(t)) = {} /\ Fetches
           THEN /\ \E x \in Arrives(asp.members, {m \in store.members : m[1] = word(t)}) :
                     asp' = [asp EXCEPT !.members = x]
                /\ Become(t, [pc |-> "members barrier"])
           ELSE /\ asp' = asp
                /\ Become(t, [pc |-> "class", germs |-> ClassesOf(asp, word(t))])
     \/ /\ At(t, "members barrier")
        /\ asp' = [asp EXCEPT !.members = @ \cup {m \in store.members : m[1] = word(t)}]
        /\ Become(t, [pc |-> "class", germs |-> ClassesOf(asp', word(t))])
  /\ UNCHANGED <<setting, issued, caches, connectors, dict_mutex>>

NextClass(t) ==
  /\ At(t, "class")
  /\ \/ \E c \in th[t].germs :
          Become(t, [germ |-> c, germs |-> th[t].germs \ {c},
                     pc |-> IF th[t].ask = "sections" THEN "sections" ELSE "tag"])
     \/ /\ th[t].germs = {}
        /\ Become(t, IF th[t].ask = "pairs" THEN [pc |-> "no pairs"]
                     ELSE IF pairs_on THEN [pc |-> "have_pword"]
                     ELSE Answered(t, th[t].hit))
  /\ UNCHANGED <<setting, shared>>

(***************************************************************************)
(* pair_boolean_lookup(): from the table, or by fetching the pairs of the  *)
(* word and of its classes until there is one.  need_pair_fetch() tags the *)
(* word before its pairs are there (two threads that both find no tag      *)
(* fetch them twice, which changes nothing).                               *)
(***************************************************************************)
pair_boolean_lookup(t) ==
  /\ At(t, "have_pword") /\ Unlocked
  /\ asp' = [asp EXCEPT !.words = @ \cup {word(t)}]
  /\ Become(t, IF word(t) \in DOMAIN have_pword
               THEN Answered(t, th[t].hit \/ have_pword[word(t)])
               ELSE [pc |-> "tag", germ |-> word(t), ask |-> "pairs"])
  /\ UNCHANGED <<setting, issued, caches, connectors, dict_mutex>>

need_pair_fetch(t) ==
  /\ At(t, "tag")
  /\ IF Fetches /\ th[t].germ \notin asp.tagged
     THEN /\ asp' = [asp EXCEPT !.tagged = @ \cup {th[t].germ}]
          /\ Become(t, [pc |-> "fetch pairs"])
     ELSE /\ asp' = asp
          /\ Become(t, [pc |-> "pairs"])
  /\ UNCHANGED <<setting, issued, caches, connectors, dict_mutex>>

(* With a pair come its edges: its MI and the name it was stored with.     *)
Edges(pairs) == {e \in stored : \E p \in pairs : p.link = e[1]}

fetch_pairs(t) ==
  LET mine == PairsOf(store, th[t].germ)
  IN /\ \/ /\ At(t, "fetch pairs")
           /\ \E x \in Arrives(asp.pairs, mine) : asp' = [asp EXCEPT !.pairs = x]
           /\ names' = names
           /\ Become(t, [pc |-> "pairs barrier"])
        \/ /\ At(t, "pairs barrier")
           /\ asp' = [asp EXCEPT !.pairs = @ \cup mine]
           /\ names' = names \cup Edges(mine)
           /\ Become(t, [pc |-> "pairs"])
     /\ UNCHANGED <<setting, stored, last_id, caches, connectors, dict_mutex>>

have_pairs(t) ==
  /\ At(t, "pairs")
  /\ Become(t, [pc |-> IF \E p \in PairsOf(asp, th[t].germ) : p.ok THEN "found"
                       ELSE IF th[t].germ = word(t) THEN "members" ELSE "class"])
  /\ UNCHANGED <<setting, shared>>

(* std::unordered_map::insert() keeps an answer that is there.             *)
insert_pword(t) ==
  LET rc == th[t].pc = "found"
  IN /\ (At(t, "found") \/ At(t, "no pairs")) /\ Unlocked
     /\ have_pword' = [w \in DOMAIN have_pword \cup {word(t)} |->
                       IF w \in DOMAIN have_pword THEN have_pword[w] ELSE rc]
     /\ Become(t, Answered(t, th[t].hit \/ rc))
     /\ UNCHANGED <<setting, asp, issued, dict_tree, tail, pair_dict, connectors, dict_mutex>>

(***************************************************************************)
(* as_lookup_list().  The words of the sentence are noted first, to keep   *)
(* only the word-pairs with both words in the sentence.  A word that the   *)
(* dictionary does not have gets the expression of the unknown word.       *)
(***************************************************************************)
as_start_lookup(t) ==
  /\ At(t, "start")
  /\ Become(t, [pc |-> "list", i |-> 1,
                sent_words |-> IF pairs_on THEN ToSet(th[t].sent) \cap asp.words ELSE {}])
  /\ UNCHANGED <<setting, shared>>

(* copy_Exp() has copied what the lookup returned; the next word, or the   *)
(* end of the lookups.                                                     *)
Copied(t, r) ==
  [result |-> Append(th[t].result, r), i |-> th[t].i + 1,
   cpr |-> {}, extras |-> {}, node |-> {}, exp |-> {},
   pc |-> IF th[t].i = Len(th[t].sent) THEN "end" ELSE "list"]

UnknownWord == [unknown |-> TRUE, any |-> TRUE, sects |-> {}, pairs |-> {}]

as_lookup_list(t) ==
  /\ At(t, "list") /\ Unlocked
  /\ Become(t, IF ~th[t].status[th[t].i] THEN Copied(t, UnknownWord)
               ELSE IF conf.pair_disjuncts THEN [pc |-> "pair exprs", caller |-> "cpr"]
               ELSE IF conf.sections THEN [pc |-> "plain"]
               ELSE [pc |-> "splice"])
  /\ UNCHANGED <<setting, shared>>

(***************************************************************************)
(* cached_linkname(): a link without a name gets one under pair_mutex,     *)
(* after another look at the AtomSpace and the storage.                    *)
(***************************************************************************)
skip_any(id) == IF id = AnyId THEN id + 1 ELSE id

(* Mutant: the look without the lock is the only one.                     *)
cached_unlocked(t, back) ==
  LET id == skip_any(last_id)
  IN /\ names' = names \cup {<<th[t].link, id>>}
     /\ stored' = IF Fetches THEN stored \cup {<<th[t].link, id>>} ELSE stored
     /\ last_id' = id + 1
     /\ Become(t, [pc |-> back])

cached_linkname(t, back) ==
  LET lnk == th[t].link
      known == IF Fetches THEN names \cup {e \in stored : e[1] = lnk} ELSE names
      id == skip_any(last_id)
  IN IF \E e \in known : e[1] = lnk
     THEN /\ names' = known
          /\ UNCHANGED <<stored, last_id>>
          /\ Become(t, [pc |-> back])
     ELSE /\ names' = known \cup {<<lnk, id>>}
          /\ stored' = IF Fetches THEN stored \cup {<<lnk, id>>} ELSE stored
          /\ last_id' = id + 1
          /\ Become(t, [pc |-> back])

(* The next link of the list in work: one that has a name is done.         *)
NextLink(t, naming) ==
  \E l \in th[t].links :
    Become(t, IF get_lg_conn(l) # {} THEN [links |-> th[t].links \ {l}]
              ELSE [link |-> l, pc |-> naming])

IssueName(t) ==
  /\ \/ At(t, "name pair") /\ cached_linkname(t, "make pairs")
     \/ At(t, "name section") /\ cached_linkname(t, "make sections")
  /\ UNCHANGED <<setting, asp, caches, connectors, dict_mutex>>

(***************************************************************************)
(* get_pair_exprs(): the connectors of all word-pairs of the word, cached  *)
(* in pair_dict; dict_mutex is held until they are made.  There is one for *)
(* each link, also when links have the same name.                          *)
(***************************************************************************)
get_pair_exprs(t) ==
  LET good == {p.link : p \in {x \in PairsOf(asp, word(t)) : x.ok}}
  IN /\ At(t, "pair exprs") /\ Unlocked
     /\ IF pair_dict[word(t)] # {}
        THEN /\ dict_mutex' = dict_mutex
             /\ \E e \in pair_dict[word(t)] : Become(t, [pc |-> "prune", all |-> e])
        ELSE /\ dict_mutex' = {t}
             /\ Become(t, [pc |-> "make pairs", links |-> good, conns |-> good])
     /\ UNCHANGED <<setting, asp, issued, caches, connectors>>

make_pair_exprs(t) ==
  LET conns == {<<Name(l), IF l[2] = word(t) THEN "-" ELSE "+", l>> : l \in th[t].conns}
      exp == IF conns = {} THEN {} ELSE {conns}
  IN /\ At(t, "make pairs")
     /\ \/ /\ NextLink(t, "name pair")
           /\ UNCHANGED <<pair_dict, contable, dict_mutex>>
        \/ /\ th[t].links = {}
           /\ pair_dict' = [pair_dict EXCEPT ![word(t)] = {exp}]
           /\ contable' = contable \cup {c[1] : c \in conns}
           /\ dict_mutex' = {}
           /\ Become(t, [pc |-> "prune", all |-> exp])
     /\ UNCHANGED <<setting, asp, issued, dict_tree, tail, have_pword, uc_num, num_uc>>

(* get_sent_pair_exprs() and make_cart_pairs(): the pairs whose link name  *)
(* is that of a pair with a word of the sentence; a single connector is    *)
(* not tested.                                                             *)
right_links(t) == UNION {get_lg_conn(<<word(t), s>>) : s \in th[t].sent_words}

sentence_links(t) ==
  UNION {get_lg_conn(<<s, word(t)>>) \cup get_lg_conn(<<word(t), s>>) : s \in th[t].sent_words}

Prune(t, conns) ==
  IF th[t].sent_words = {} \/ Cardinality(conns) = 1 THEN conns
  ELSE {c \in conns : c[1] \in sentence_links(t)}

make_cart_pairs(t) ==
  LET with_any == IF th[t].caller = "cpr" THEN conf.pair_with_any ELSE conf.extra_any
      epr == {Prune(t, e) : e \in th[t].all}
      cart == IF ~with_any THEN epr ELSE IF epr = {} THEN {AnyConns} ELSE {e \cup AnyConns : e \in epr}
  IN /\ At(t, "prune") /\ Unlocked
     /\ Become(t, IF th[t].caller = "extra" THEN [extras |-> cart, pc |-> "splice"]
                  ELSE [cpr |-> cart, pc |-> IF conf.sections THEN "plain" ELSE "splice"])
     /\ UNCHANGED <<setting, shared>>

(***************************************************************************)
(* lookup_plain_section(): the cached nodes of the word, or a new node for *)
(* the sections of the word and of its classes.  dict_mutex is free while  *)
(* they are made.                                                          *)
(***************************************************************************)
Decorate(found) ==
  IF conf.extra_pairs THEN [node |-> found, pc |-> "pair exprs", caller |-> "extra"]
  ELSE [node |-> found, pc |-> "splice"]

lookup_plain_section(t) ==
  /\ At(t, "plain") /\ Unlocked
  /\ Become(t, IF dict_tree[word(t)] # <<>> THEN Decorate({dict_tree[word(t)]})
               ELSE [pc |-> "next germ", germs |-> {word(t)} \cup ClassesOf(asp, word(t))])
  /\ UNCHANGED <<setting, shared>>

make_sect_exprs(t) ==
  /\ \/ /\ At(t, "next germ")
        /\ \E g \in th[t].germs :
             LET good == {s \in SectionsOf(asp, g) : s.ok}
             IN Become(t, [pc |-> "make sections", germs |-> th[t].germs \ {g}, sects |-> good,
                           links |-> Links(g, good)])
        /\ contable' = contable
     \/ /\ At(t, "make sections") /\ NextLink(t, "name section")
        /\ contable' = contable
     \/ /\ At(t, "make sections") /\ th[t].links = {} /\ Unlocked
        /\ \E made \in {{section_exp(s) : s \in th[t].sects}} :
             /\ contable' = contable \cup UNION {{x[i][1] : i \in DOMAIN x} : x \in made}
             /\ Become(t, [pc |-> "next germ", exp |-> th[t].exp \cup made])
  /\ UNCHANGED <<setting, asp, issued, caches, uc_num, num_uc, dict_mutex>>

(* dict_node_insert() puts a word that is there already to its left with a *)
(* null expression (dup_word_error()), and a lookup lists it first.        *)
make_dn(w, exp) ==
  dict_tree' = [dict_tree EXCEPT ![w] = <<IF @ = <<>> THEN exp ELSE NullExp>> \o @]

CachePlain(t) ==
  LET exp == DictNode(conf.any_disjuncts, th[t].exp)
  IN /\ At(t, "next germ") /\ th[t].germs = {} /\ Unlocked
     /\ IF exp = NullExp
        THEN dict_tree' = dict_tree /\ Become(t, Decorate({}))
        ELSE make_dn(word(t), exp) /\ Become(t, Decorate({dict_tree'[word(t)]}))
     /\ UNCHANGED <<setting, asp, issued, tail, pair_dict, have_pword, connectors, dict_mutex>>

(***************************************************************************)
(* lookup_section() and the end of as_lookup_list().  With extra pairs the *)
(* expression of the first node is wrapped in the sentence's memory.       *)
(* Without them the pairs become operand_next of the cached expression     *)
(* itself, and copy_Exp() reads them from there.                           *)
(***************************************************************************)
LookupResult(nodes, pairs) ==
  [unknown |-> FALSE, any |-> \E i \in DOMAIN nodes : nodes[i].any,
   sects |-> UNION {nodes[i].sects : i \in DOMAIN nodes}, pairs |-> UNION pairs]

Splice(t) ==
  LET w == word(t)
      first == UNION {{<<n[1]>>} : n \in th[t].node}
  IN /\ At(t, "splice") /\ Unlocked
     /\ \/ /\ th[t].extras # {}
           /\ Become(t, Copied(t, LookupResult(IF first = {} THEN <<>> ELSE CHOOSE f \in first : TRUE,
                                         th[t].extras \cup th[t].cpr)))
           /\ UNCHANGED <<dict_tree, tail, fault>>
        \/ /\ th[t].extras = {} /\ th[t].node # {}
           /\ IF th[t].cpr = {}
              THEN /\ \E n \in th[t].node : Become(t, Copied(t, LookupResult(n, {})))
                   /\ tail' = tail
              ELSE /\ Become(t, [pc |-> "copy"])
                   /\ tail' = [tail EXCEPT ![w] = th[t].cpr]
           /\ UNCHANGED <<dict_tree, fault>>
        \/ /\ th[t].extras = {} /\ th[t].node = {} /\ th[t].cpr # {}
           /\ Become(t, Copied(t, LookupResult(<<>>, th[t].cpr)))
           /\ UNCHANGED <<dict_tree, tail, fault>>
        \/ /\ th[t].extras = {} /\ th[t].node = {} /\ th[t].cpr = {}
           /\ IF ~conf.sections /\ conf.any_disjuncts
              THEN /\ IF dict_tree[w] = <<>> THEN make_dn(w, DictNode(TRUE, {})) ELSE dict_tree' = dict_tree
                   /\ Become(t, Copied(t, LookupResult(<<DictNode(TRUE, {})>>, {})))
                   /\ fault' = fault
              ELSE /\ fault' = "Must have sections, pair or any!"
                   /\ UNCHANGED <<dict_tree, th>>
           /\ tail' = tail
     /\ UNCHANGED <<conf, store, category, sessions, asp, issued, pair_dict, have_pword, connectors,
                    dict_mutex>>

copy_Exp(t) ==
  /\ At(t, "copy")
  /\ \E n \in th[t].node : Become(t, Copied(t, LookupResult(n, tail[word(t)])))
  /\ UNCHANGED <<setting, shared>>

(***************************************************************************)
(* update_condesc(): the connectors without a number, sorted, are numbered *)
(* on from the last one.                                                   *)
(***************************************************************************)
Numbered(new) == [n \in new |-> num_uc + Cardinality({m \in new : m < n})]

as_end_lookup(t) ==
  LET new == contable \ DOMAIN uc_num
  IN /\ At(t, "end") /\ Unlocked
     /\ uc_num' = [n \in DOMAIN uc_num \cup new |-> IF n \in new THEN Numbered(new)[n] ELSE uc_num[n]]
     /\ num_uc' = num_uc + Cardinality(new)
     /\ Become(t, [pc |-> "done", sent_words |-> {}])
     /\ UNCHANGED <<setting, asp, issued, caches, contable, dict_mutex>>

DeleteSentence(t) ==
  /\ At(t, "done")
  /\ Become(t, Idle(th[t].left))
  /\ UNCHANGED <<setting, shared>>

(***************************************************************************)
(* as_clear_cache() frees the nodes of both trees, and as_close(), which   *)
(* it calls, frees them again; without pairs there is no pair_dict.        *)
(***************************************************************************)
as_clear_cache ==
  /\ fault = None /\ \A t \in Threads : th[t].pc = "idle"
  /\ \E t \in Threads : th[t].left = 0
  /\ fault' = IF ~pairs_on THEN "null pair_dict"
              ELSE IF conf.unknown_word \/ \E w \in Vocabulary : dict_tree[w] # <<>> \/ pair_dict[w] # {}
              THEN "double free" ELSE "null Exp_pool"
  /\ UNCHANGED <<conf, store, category, sessions, shared, th>>

(* dictionary_delete() and dictionary_create(): as_close() and as_open().  *)
(* An attached AtomSpace and the storage keep their atoms, but last_id is  *)
(* 0 again.                                                                *)
Reopen ==
  /\ fault = None /\ sessions < conf.sessions
  /\ \A t \in Threads : th[t].pc = "idle" /\ (th[t].left = 0 \/ conf.sentences[t] = {})
  /\ sessions' = sessions + 1
  /\ asp' = IF conf.external THEN asp ELSE EmptySpace
  /\ names' = IF conf.external THEN names ELSE {}
  /\ last_id' = 0
  /\ dict_tree' = [w \in Vocabulary |-> <<>>] /\ tail' = [w \in Vocabulary |-> {}]
  /\ pair_dict' = [w \in Vocabulary |-> {}] /\ have_pword' = <<>>
  /\ contable' = {AnyId} /\ uc_num' = <<>> /\ num_uc' = 0
  /\ category' = <<>> /\ th' = [t \in Threads |-> Idle(conf.rounds)]
  /\ UNCHANGED <<conf, store, stored, dict_mutex, fault>>

ThreadStep(t) ==
  \/ StartSentence(t) \/ as_boolean_lookup(t)
  \/ count_sections(t) \/ FetchSections(t) \/ Members(t) \/ NextClass(t)
  \/ pair_boolean_lookup(t) \/ need_pair_fetch(t) \/ fetch_pairs(t) \/ have_pairs(t) \/ insert_pword(t)
  \/ as_start_lookup(t) \/ as_lookup_list(t) \/ IssueName(t)
  \/ get_pair_exprs(t) \/ make_pair_exprs(t) \/ make_cart_pairs(t)
  \/ lookup_plain_section(t) \/ make_sect_exprs(t) \/ CachePlain(t)
  \/ Splice(t) \/ copy_Exp(t) \/ as_end_lookup(t) \/ DeleteSentence(t)

AtomNext == (\E t \in Threads : ThreadStep(t)) \/ as_add_categories \/ as_clear_cache \/ Reopen

AtomSpec == AtomInit /\ [][AtomNext]_atomvars

(***************************************************************************)
(* Properties.                                                             *)
(***************************************************************************)
(* What the storage says of a word: for generation only its sections are   *)
(* read.                                                                   *)
Contents == IF conf.generate /\ conf.storage THEN [store EXCEPT !.members = {}, !.pairs = {}] ELSE store
Germs(w) == {w} \cup ClassesOf(Contents, w)
AllSections(w) == UNION {SectionsOf(Contents, g) : g \in Germs(w)}
GoodSections(w) == {s \in AllSections(w) : s.ok}
GoodPairs(g) == {p.link : p \in {x \in PairsOf(Contents, g) : x.ok}}
InDictionary(w) ==
  \/ conf.sections /\ AllSections(w) # {}
  \/ pairs_on /\ \E g \in Germs(w) : GoodPairs(g) # {}
Within(w, s) == {l \in GoodPairs(w) : {l[1], l[2]} \subseteq ToSet(s)}

(* Some other thread may look up the word or one of a class of it.         *)
Asked(t) == UNION {ToSet(s) : s \in conf.sentences[t]}
Shared(t, w) == \E u \in Threads \ {t} : \E v \in Asked(u) : Germs(v) \cap Germs(w) # {}

Named(s) == \A l \in Links(s.germ, {s}) : get_lg_conn(l) # {}
Holds(r, s) == Named(s) /\ section_exp(s) \in r.sects
PairLinks(r) == {<<c[3], c[2]>> : c \in r.pairs \ AnyConns}
DirectedAt(w, links) == {<<l, IF l[2] = w THEN "-" ELSE "+">> : l \in links}

(* Nothing is invented: a word that is not there is unknown, an expression *)
(* has the sections and the word-pairs that the storage has of the word    *)
(* and that are not below the cutoff, under the names of their links.      *)
OnlyStored(w, r) ==
  /\ ~InDictionary(w) => r.unknown
  /\ \A x \in r.sects : \E s \in GoodSections(w) : Named(s) /\ x = section_exp(s)
  /\ PairLinks(r) \subseteq DirectedAt(w, GoodPairs(w))
  /\ \A c \in r.pairs \ AnyConns : c[1] \in get_lg_conn(c[3])

(* Nothing is lost: all sections of the word and its classes, and all      *)
(* word-pairs with another word of the sentence.                           *)
HasSections(w, r) == conf.sections => \A s \in GoodSections(w) : Holds(r, s)
HasPairs(w, s, r) == pairs_on => DirectedAt(w, Within(w, s)) \subseteq PairLinks(r)

(* A thread that is ready to parse never has more than the storage holds   *)
(* of a word, whatever the other threads do meanwhile; of a word that it   *)
(* alone looks up it has all of it, and that is unknown only when it is    *)
(* not there, while other threads fetch, name and cache the words that     *)
(* these are linked with.  Of a word that several threads look up it may   *)
(* miss what was not fetched yet: need_pair_fetch() tags the word first    *)
(* and count_sections() takes a part for the whole.  With nothing to fetch *)
(* it misses sections only when the word was cached twice (see             *)
(* CachedNodeReturned), and word-pairs only when they were spliced into    *)
(* the cached expression (as_lookup_list(), lookup_plain_section(),        *)
(* have_pairs()).                                                          *)
AtomLookupsExact ==
  \A t \in Threads : th[t].pc = "done" =>
    \A i \in DOMAIN th[t].sent :
      LET w == th[t].sent[i]
          r == th[t].result[i]
          spliced == conf.sections /\ ~conf.extra_pairs
      IN /\ OnlyStored(w, r)
         /\ ~Shared(t, w) =>
              /\ r.unknown => ~InDictionary(w)
              /\ ~r.unknown => HasSections(w, r) /\ HasPairs(w, th[t].sent, r)
         /\ Shared(t, w) /\ ~conf.storage =>
              /\ r.unknown => ~InDictionary(w)
              /\ ~r.unknown => /\ HasSections(w, r) \/ (conf.extra_pairs /\ Len(dict_tree[w]) > 1)
                               /\ HasPairs(w, th[t].sent, r) \/ spliced

(* A link has one name, here and in the storage, and none is called ANY;   *)
(* each time the dictionary is opened, a name is issued for at most one    *)
(* link (cached_linkname(), as_add_categories()).                          *)
Issued == names \cup stored
NamesExact ==
  /\ \A e, f \in Issued : e[1] = f[1] => e[2] = f[2]
  /\ \A e \in Issued : e[2] # AnyId /\ Cardinality({f \in Issued : f[2] = e[2]}) <= sessions

(* No two links have the same name (cached_linkname(): "Use a lock, to     *)
(* make sure that link ID's are issued only once, ever").                  *)
NamesIssuedOnce == \A e, f \in names : e[2] = f[2] => e[1] = f[1]

(* When a thread has looked up its words, every connector it got has a     *)
(* number, and different connectors have different ones: the matching of   *)
(* connectors compares the numbers (update_condesc()).                     *)
ConnectorsNumbered ==
  /\ \A t \in Threads : th[t].pc = "done" =>
       \A i \in DOMAIN th[t].result :
         LET r == th[t].result[i]
         IN {c[1] : c \in r.pairs} \cup UNION {{x[k][1] : k \in DOMAIN x} : x \in r.sects}
              \subseteq DOMAIN uc_num
  /\ \A m, n \in DOMAIN uc_num : uc_num[m] = uc_num[n] => m = n

(* What the matching and the storage rely on together.                     *)
LinkIdsExact == NamesExact /\ ConnectorsNumbered

(* The node that is cached for a word with sections, and returned first,   *)
(* holds them (lookup_plain_section(): "The dictnode is always cached, and *)
(* the cached node is returned").                                          *)
CachedNodeReturned ==
  \A w \in Vocabulary : dict_tree[w] # <<>> => dict_tree[w][1] # NullExp
=============================================================================
