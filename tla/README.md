# Link Grammar: TLA+ models and proofs

This directory holds TLA+ models of the Link Grammar parser (`link-grammar/`), of
its command-line client (`link-parser/`) and of its Java service
(`bindings/java`), TLC configurations that check them on small instances, and
TLAPS proofs that hold for every value of the constants. `PROJECT.json` maps every
definition to the source lines it models and lists the runs, the theorems, the
hazards and the findings.

1. [The system](#1-the-system) 2. [Modules](#2-modules-and-the-code-they-model)
3. [Runs](#3-runs) 4. [Proofs](#4-proofs) 5. [Findings](#5-findings)
6. [Not modelled](#6-what-is-not-modelled) 7. [Plan](#7-plan)

## 1. The system

A client (`link-parser`, or a language binding) creates a `Dictionary`, a
`Sentence` and `Parse_Options`, calls `sentence_split()` and `sentence_parse()`
(often more than once: first without nulls, then with nulls, then in "panic" mode),
opens linkages with `linkage_create()` and finally calls `sentence_delete()`. The
library runs in the thread of its caller; it starts none itself. Different
sentences may be parsed by different threads, which share the dictionary. The Java
service has a pool of threads, each with a parser state of its own.

| component | state | operations | what makes it correct |
|---|---|---|---|
| file dictionary (`dict-common`, `dict-file`, `dict-ram`) | word tree, connector descriptors, idioms, dialects | read entries and files, insert, rebalance, look up, set up a dialect | a word is found iff it was defined, with the expressions its entry means |
| Atomese dictionary (`dict-atomese`) | an AtomSpace, caches of nodes, pairs and expressions, a lock, link numbers | look up, make pairs, categories, clear, close | a word has no sections or pairs that are not its own, and all of them when it is looked up alone; one name for each link |
| tokenizer (`tokenize/`) | word graph, alternatives, the 2D word array | split, issue alternatives, flatten | every path of the graph spells the text; the word array follows the paths |
| preparation (`prepare/`, `parse/preparation.c`) | expressions, disjuncts in two pools | expression pruning, building of disjuncts, gword sets, distances | only what no linkage can use is dropped; disjuncts are what the expressions denote |
| packing (`disjunct-utils.c`, `tracon-set.c`) | a pruning block, a saved copy, a parsing block; tracon tables and reference counts | pack for pruning, save, restore, pack for parsing, free | every disjunct pointer points into a live block; equal tracons are shared |
| pruning (`parse/prune.c`) | power tables, reference counts, mandatory links | power prune, PP prune, mlink | no linkage with the permitted number of nulls is lost |
| fast matcher (`parse/fast-match.c`) | match tables, match-list stack | form and pop match lists | exactly the disjuncts that may match |
| counting (`parse/count.c`) | table of counts kept by the thread, left/right count caches | `do_parse()`, `do_count()` | the number returned is the number of linkages |
| extraction (`parse/extract-links.c`) | parse set, random state | build the set, extract by index or at random | every extracted linkage is one; indices enumerate them |
| parse driver (`parse/parse.c`, `sentence.c`, `resources.c`) | null-count loop, pruning level, linkage array, counters, timer | parse, set up, process, post-process, sort, clean up | minimum null count, no use of freed blocks, consistent counters, termination |
| SAT parser (`sat-solver/`) | clauses, the linkages found | solve, add clauses, create a linkage | the same linkages, each once |
| scoring and sorting (`linkage/score.c`, `parse/parse.c`) | costs, duplicate marks | compare, sort, deduplicate | valid linkages first, duplicates once, nothing else lost |
| post-processing (`post-process/`) | rules, domains, link sets | prune scan, post-process, constituents | violations are found and only those; the tree holds every word once |
| linkage (`linkage/`) | chosen words, disjuncts, display words | morphology check, compute chosen words | the words of a linkage form a path of the word graph; links end at words shown |
| printing (`print/`) | rows and columns | draw a diagram, wrap it | every link can be read off the rows |
| memory pools (`memory-pool.c`) | chain of blocks, cursor, counters | new, alloc, alloc vector, reuse, next, delete | issued regions are disjoint, in bounds, zeroed on request |
| hash tables (`string-set.c`, `string-id.c`, `tracon-set.c`, `count.c`, `prune.c`) | slots, occupancy | add, lookup, grow, clean | an element has one handle, also across growth |
| errors and options (`error.c`, `options.c`) | message queue, handler | enqueue, print, flush | messages come out once and in order |
| `link-parser`, `link-generator` | options, stack of input files; categories of a linkage | commands, parse, nulls, panic; choose words | each line once, with the user's limits; each choice of words once |
| Java service (`LGService`, `jni-client.c`, `LGRemoteClient`) | thread pool, queue, per-thread sentence, connections | submit, configure, parse, reply, retry | an answer belongs to its text and limits |

How they interact: `sentence_parse()` is the only driver. It tokenizes if needed,
calls `classic_parse()` (or the SAT parser), and this calls preparation, packing,
pruning, matching, counting, extraction, post-processing and sorting in turn, all
on the one `Sentence`. The components share `sent->word[].d` (the disjuncts), the
linkage array with four counters, and the disjunct memory, whose owner changes
several times during one call (pools, pruning block, parsing block).

What is hard here: control that depends on several flags at once (pruning levels,
restoring, one-step parse); memory that is handed from block to block and that
linkages of an earlier null count or an earlier call point into; exits by timeout
after any long step; repeated calls on a sentence in any state; connectors that
many disjuncts share and several passes count down; two separate recursions
(counting and building the parse set) that must agree although each has its own
shortcuts; hash tables that grow in the middle of a recursion; counts that exceed
an `int`; a comparison function with side effects inside `qsort()`; a dictionary
lock that is given up in the middle of a lookup; options that panic mode changes
and must give back; requests that are lost, retried or left by a client. The
`hazards` list of `PROJECT.json` has these at their lines.

## 2. Modules and the code they model

| module | models | uses |
|---|---|---|
| `ClassicParse` | `sentence_split()`, `sentence_parse()`, `classic_parse()`, `sentence_delete()`: control, counters, life of the disjunct blocks | |
| `Linkages` | words, disjuncts, `setup_connectors()`, distances; what a linkage is, by definition | |
| `DoCount` | `do_parse()`, `do_count()` and its table, `form_match_list()` | extends `Linkages` |
| `LongCount` | `do_count()` with the left/right count caches and cached match lists of long sentences | extends `DoCount` |
| `ExtractLinks` | `build_parse_set()`, `extract_links()`, `process_linkages()` over null counts | extends `DoCount` |
| `SatParse` | the clauses by what satisfies them, the loop over solutions, linkage creation | |
| `SortLinkages` | `sort_linkages()`, the comparison functions, `deduplicate_linkages()`, `linkage_score()` | |
| `PPDomains` | post-processing of one linkage: `build_graph()`, `build_domains()`, `build_domain_forest()`, the rules | |
| `PostProcess` | `post_process_lkgs()`, `do_post_process()`, `compute_domain_names()` over the batches of a sentence | extends `PPDomains` |
| `Constituents` | `constituents.c`: the constituents of a linkage and the tree printed from them | extends `PPDomains` |
| `PowerPrune` | `pp_and_power_prune()`: `power_prune()`, the table of mandatory links, `cross_mlink_prune()`, `pp_prune()`, `get_num_con_uc()` | instance of `Linkages` |
| `PowerTable` | one hash table of the power pruning, with removal and tombstones | |
| `MemoryPool` | `memory-pool.c`, `pool_next()` of `memory-pool.h` | |
| `CountTable` | the table of `do_count()`: growth in the middle of a count, the array that each thread keeps | |
| `Probing` | the sequence of slots of `string-set.c`, `string-id.c` and `tracon-set.c` | |
| `StringSet`, `TraconSet` | the sets of strings and of connector sequences | extend `Probing`; instances of `Interning` |
| `Interning` | abstract specification: alike items get one handle, others another | |
| `Affixes`, `Wordgraph`, `Tokenize` | `separate_word()` and what it calls; the word graph and `issue_word_alternative()`; the tokenizing loop, `flatten_wordgraph()`, `sane_linkage_morphism()` | each extends the one before |
| `Expressions` | `expression_prune()`, `build_disjuncts_for_exp()` | |
| `ChosenWords` | `compute_chosen_words()` | |
| `Diagram` | the link diagram of `print.c` | |
| `DictSyntax`, `Dictionary` | expressions as they are read and printed; entries, files, idioms, the tree and its lookups | the second extends the first |
| `Dialect` | the dialect file, the table of a dialect and its cache | |
| `Atomese` | lookups of several threads in an AtomSpace dictionary | |
| `LinkParser`, `Generator` | the command loop and its options; the odometer of `link-generator` | |
| `LGService` | the Java server, its clients and the state of the JNI layer | |
| `ClassicParseProofs`, `MemoryPoolProofs`, `TableProofs`, `PowerPruneProofs`, `SortProofs`, `AtomeseProofs`, `ChosenProofs`, `ClientProofs` | theorems (`ClientProofs`: those about `LGService`, `LinkParser` and `Generator`) | extend their modules and `TLAPS` |
| `MCClassicParse`, `MCParse`, `MCFront`, `MCLinkages`, `MCTables`, `MCDictionaries`, `MCClients` | constants for TLC; `MCParse` extends the first, `MCLinkages` extends `MCFront` | |

An MC module with several components has a variable `which`: its first value picks
the component that runs in a behaviour, the variables of the others keep their
first values. Comments that begin with "Mutant" mark operators used only to confirm
that a property can fail: each replaces one definition of the model by a plausible
bug.

### ClassicParse

One sentence and any number of calls. `pc` names the part of the call that runs
next; a step runs from one point where the call may leave or loop to the next, so
every timeout check is the end of a step:

| action | code |
|---|---|
| `SentenceSplit` | `sentence_split()` called by the client; it may fail before or after the length is known |
| `SentenceParse` | `sentence_parse()` up to `classic_parse()` |
| `PrepareToParse` | `prepare_to_parse()`, the timeout exit, packing for pruning, saving |
| `LoopPrune`, `LoopNoPrune`, `LoopEnd` | the head of the loop over null counts |
| `PackForParsing`, `KeepPacked` | packing, freeing of the pruning blocks, the fast matcher |
| `DoParse` | freeing old linkages, `do_parse()` |
| `ExtractLinkages` | `setup_linkages()`, `process_linkages()` |
| `PostProcess` | `post_process_lkgs()` and the decision to leave the loop |
| `SortLinkages` | `sort_linkages()` by its effect on the counters |
| `ParseEndCleanup` | the label of that name |
| `SentenceDelete` | `sentence_delete()` |

The heap is a few variables that say which block exists and which block a pointer
points into; using or freeing what is not there adds to `faults`.

The data are abstract. `minNulls` is the least null count with a linkage, which
the code does not know. Pruning for level *l* keeps the linkages with up to *l*
nulls; this is what `NullWords` and `Counts` say, and it is an assumption about
`prune.c` that `PowerPrune` checks on its instances. A client asks for a range with `min <= max` and `min <= length`.

`ClassicParse` and `SortLinkages` overlap: the former takes from the latter only
that the number of duplicates is less than the number of valid linkages.

### MemoryPool

Blocks are numbered by their place in the chain and their bytes by offset. `live`
(regions issued since the last reuse) and `dirty` (bytes that may not be zero) are
not in the code; they are what the client knows. `Write` is the client filling a
region. `POOL_FREE` and `POOL_EXACT` are not defined in the build.

### Linkages, DoCount, LongCount, ExtractLinks

`LinkageSet(n)` in `Linkages` is the reference: choose a disjunct or none for each
word, choose a planar set of links between matching connectors, and require that
every connector is used in order, that there are `n+1` components and, without
`islands_ok`, that the linked words form one of them. It knows nothing of ranges
or tables.

`do_count` in `DoCount` follows the recursion of `count.c`: the nearest-word
check, the table, the ranges that have only null words, islands, and the loops
over middle word, disjunct and number of nulls with their look-ahead into the table
(`Pseudocount`, `l_bnr`, `r_bnl`). The table is threaded through the recursion,
because what is in it decides which parts are skipped. `mk_parse_set` does the
same for `extract-links.c`; it reads the finished table.

A tracon is the rest of a connector sequence; the code gives equal tracons of a
word equal ids and keys its tables by them.

`LongCount` has what `do_count()` does for sentences longer than
`min_len_word_vector`: which ranges it has found to be zero for which null counts,
and match lists that it keeps. The instance treats its sentences of four words as
long. `CachesChangeNothing` compares with `DoCount`.

### SatParse

The clause database is represented by its models, the sets of connections that
satisfy it; the solver returns any of them. `Disconnected` and `Insane` are the
loops that add a clause and go on, `Found` adds the clause against the linkage that
was found. The reference is again what a linkage is, by definition.

### SortLinkages

The link array of a linkage keeps what is beyond its last link, because
`linkage_equiv_p()` may read it. `qsort()` is external: it is modelled as the merge
sort of the GNU C library, in which of two elements that are compared the one that
is earlier is the first argument; runs are merged in any order. The mark that the
comparison leaves in its second argument depends on this.

### PowerPrune and PowerTable

Pruning works on connectors in shared memory: all jets of a word that end in the
same tracon point to the same connectors, and an update through one disjunct shows
in the others. A shared connector is a *cell*: direction (0 left, 1 right as in the
code), word, the tracon it starts, and whether it is shallow. `cell` has the fields
(`nearest_word`, `farthest_word`, `refcount`, `prune_pass`) of each. `word` has the
disjuncts that are left.

| action | code |
|---|---|
| `SkipDisjunct`, `DiscardBad`, `UpdateDisjunct` | one disjunct in a pass of `power_prune()`, in either direction |
| `EndWord` | `check_null_word()`, `clean_table()` of the opposite direction, the next word |
| `PassEnd` | `pruning_pass_end()` and the conditions of the loop |
| `AfterFirst`, `AfterPP` | `build_mlink_table()` after the first and after the third call |
| `CrossMlinkPrune` | `cross_mlink_prune()`, one word of it |
| `PPPrune` | `pp_prune()` |
| `End` | what `pp_and_power_prune()` returns |

A left and a right pass are the same action with another direction, as the two
functions of the code mirror each other. The power tables are sets of cells here;
`PowerTable` has the slots, the probing and the tombstones, and shows that a search
sees exactly the connectors that the set has.

The reference is again `LinkageSet` of `Linkages`, restricted to the linkages that
pass the contains-one rules. What pruning must keep of a linkage is more than its
disjuncts: each link must lie within `[nearest_word, farthest_word]` of both of its
connectors, because the parser looks nowhere else. The part of `PruneExact` about
skipped null counts leaves out the
null count `length-1` (all words null), which `classic_parse()` never skips.

### PPDomains, PostProcess and Constituents

A link is a record of its two words and its name, a name an upper-case part with
subscripts; `PostProcessMatch` has the wild cards. `Search` stands for the four
depth-first searches of the code, which differ in the links they add (`Adds`) and
the steps they take (`Follows`); it keeps the links in the order of the code,
because domains are sorted by how many links were added. `qsort()` is taken to be
stable for domains of one size, which its comparison by address is there for.

| action | code |
|---|---|
| `NewBatch` | `classic_parse()` has a new array of linkages: for a higher null count, or in another call |
| `Scan` | one linkage of the first pass |
| `Process` | one linkage of the second pass: `do_post_process()`, its violation and the timer |
| `Rest` | the loop over what the timer left |
| `ComputeDomainNames` | `compute_domain_names()` for a valid linkage |

The reference has no searches: a domain is the least set of words closed under the
steps of its kind (`ReferenceDomain`), a link is in a cycle if it is in a set of
links that meets every word an even number of times (`InCycle`), and `Legal` states
every rule of the dictionary over these, none left out.

`Constituents` takes the domains of a valid linkage to constituents: `Read`,
`Generate` (missing ones), `Adjust` (subordinate clauses), `Nest` and `NestPass`
(boundaries that cross), `Fix` (last-minute fixes), `PrintWord` (the flat tree) and
`BuildTree`. `WholeTree` says that the brackets nest and hold every word once, in
order.

### CountTable, StringSet, TraconSet, Interning

`CountTable`: a slot is the set of the entries in its chain. A key that is being
counted has been looked up and not yet stored, while its parts may be stored and
the table may grow; `calls` is that stack. `kept` is what the thread keeps for its
next sentence, whose slots are cleared up to the size it asks for.

`StringSet` and `TraconSet`: a call that has to grow the table takes one step for
each entry moved, and no other call runs in between. A string's copy is a region of
a memory block; `string_set_add()` returns its pointer, `string_id_add()` its
number. A search that does not end has no step: with quadratic probing at 3/4 fill
nothing in the code excludes it (two of the sizes in `s_prime` are not prime). The
tracon set grows *before* an insertion and hands out the slot for its caller to fill.

`Interning` says what the users of all three rely on and nothing about tables. In
`StringSet` the state is mapped twice, with the pointers and with the numbers as
handles; `Forget` is the clearing of the tracon set between words.

### Affixes, Wordgraph, Tokenize, Expressions

A text is a sequence of letters of a small alphabet; the dictionary is a set of
forms with their marks (prefix, stem, suffix), units, punctuation, regexes,
contractions. `Affixes` strips and splits one word, `Wordgraph` issues the
alternatives and gives them their places, `Tokenize` is the loop over unsplit words
and then one slot of the word array after the other (`flatten_wordgraph()`), and
the morphology check of a linkage. `GraphSpells` says that every path of the graph
between the dummy words reads the sentence from its first letter to its last: each word
has the letters that it covers (a capital may be in lower case), or is a spell guess for
them; no letter is between two words made of one sentence word, and exactly the space
between words made of two. A spell guess that is split further is read as a whole: its
parts count their places in the guess and not in the text, and may come to lie beyond
the end of the word (`tokenize.c:907`). `Expressions` runs the passes of
`expression_prune()` over nested expressions (`PurgeWord`, `EndPass`) and builds the
disjuncts; `DisjunctsExact` compares them with what the expressions denote.

### DictSyntax, Dictionary, Dialect, Atomese

`Dictionary` has one action per entry kind (`ReadEntry`, `AddDefine`, `Include`,
`SyntaxError`, `EndFile`) and the rotations of the tree that follow an insertion;
lookups are operators on each state. `DictSyntax` reads and prints expressions as
sequences of tokens. `Dialect` has the sections of a dialect file and the cached
table of `setup_dialect()`.

In `Atomese` a lookup of a thread is cut at the points where it takes or gives up
`dict_mutex` or `pair_mutex`, and at each access of the AtomSpace; the `pc` of a thread
names the function and the critical section that comes next, `links` is the part of
the list of links in work that has no name yet (`NextLink`, `IssueName`). The AtomSpace
and its storage are external. A thread looks up one sentence after the other, up to
`rounds` of them; `Reopen` closes the dictionary and opens it again (`sessions`).

`AtomLookupsExact` says what a thread that is ready to parse can rely on. Nothing is
invented, whatever the other threads look up, fetch, name and cache meanwhile
(`OnlyStored`). Nothing is lost of a word that no other thread looks up, by itself or by
a class, although others name and cache the words that it is linked with. Of a word
that two threads look up with a storage behind it, what the other one has not fetched
yet may be missing: `need_pair_fetch()` marks a word before it is fetched
(`word-pairs.cc:68`), and `count_sections()` takes a part for the whole, so that a thread
may answer that the word is in no pair, against the comment of `pair_boolean_lookup()`.
With nothing to fetch only what finding 5 says, and pairs spliced into a cached
expression, may be missing. TLC reaches each of these cases.

### LinkParser, Generator, ChosenWords, Diagram

`LinkParser` has one action per kind of line (`SetVariable`, `OpenFile`, `ParseSentence`
and so on) and the parts of a parse (first, with nulls, panic); the `local` copy of
the options is what the user set, `opts` what the library uses. Each parse starts the
timer anew (`resources_reset()`, `sentence.c:284`), so each has its own time: the first
may end in time without a linkage, the one with nulls run out of it, and panic mode
follow. `pos` and `handled`
count the lines of a stream since it was opened, as `fopen()` starts a file again.
`pending` is the line a linkage display read from the terminal and did not use. `Generator` turns
the odometer over the categories and words of one linkage twice, with `count_choices()`
and with `print_word_choices()`; `odom` has the loop indices of each word. `ChosenWords`
decides which words of a linkage are shown and moves its links. A displayed word is the
set of the places of the path it stands for; `TextOf` is what it shows, which for a null
alternative is the whole sentence word (`linkage.c:423`), also when punctuation was
stripped before it and is displayed by itself: `DisplayFits` allows this repetition
(`Repeats`) and no other. `Diagram` places links in rows and cuts the
rows where the screen ends.

### LGService

Clients, a queue, worker threads with a sentence and options each (the state of the
JNI layer is thread-local) and connections that can break at any point. `configure`
sets the time limit of the thread only if the request has one (`LGService.java:143`); a
request without one is parsed under the limit that the thread was left with, and
`AnswersOwnText` says that this is the one thing that passes from client to client. A
connection is known by its client and the number of the try. `LGRemoteClient`
retries after an `IOException` only.

## 3. Runs

| run | instance | distinct states | shows |
|---|---|---|---|
| `Parse` | the driver: lengths 1..3 and one too long, 19 option records, 2 calls, up to 4 linkages with a limit of 3; pruning: all sentences of 3 words over 6 dictionary words, 55 of 4 words, one rule; no nulls, one null, the last pruning | 310 300 | no memory fault; no counting on over-pruned disjuncts; least null count not skipped; counters agree; linkages usable; every call returns; no linkage lost by pruning; fixpoint; reference counts exact; pruning ends |
| `Sentences` | texts of 1 and 2 words of up to 5 letters in three dictionaries (English-, Russian-, Hebrew-like); expressions of 3 words; counting and extraction (31 sentences, limit 3, an "INT_MAX" of 4); the SAT parser; post-processing (one of 1 250 linkages, or batches of up to 3); sorting (up to 4 linkages out of 8) | 638 900 | paths spell the text; slots follow the paths; a sane linkage is a path; expression pruning and disjuncts are exact; the count is the number of linkages, clamped, not wrapped; extracted linkages are linkages and indices enumerate them; the SAT parser finds the same; a linkage is accepted iff no rule is broken; duplicates once and nothing else lost |
| `Tables` | the pool; a power table of 16 slots; strings, tracons and counts that collide and grow; long sentences | 111 200 | regions disjoint and zeroed; each table finds what was put in; the sets implement `Interning`; caches change no count |
| `Dictionary` | files of entries with inclusion, idioms and wild cards; dialect files; two threads with other or the same words, with and without storage, and one that opens its AtomSpace twice | 1 431 900 | lookups are exact and the tree balanced; expressions are read as meant; dialect costs are those asked for; a word has nothing that is not its own and, but for the cases stated, everything; a link one name, a connector one number |
| `Clients` | two clients of two workers; sessions of `link-parser` with files; linkages to generate, to show and to draw; trees | 391 700 | answers belong to texts and limits, and calls return; lines once and limits kept; choices once; trees whole; diagrams readable; displayed words and links in step |
| `ClassicParseTimeout`, `ClassicParseRefcount`, `SortLinkagesPrefix`, `PostProcessRules`, `AtomeseDuplicate`, `AtomeseReopen`, `PanicKeepsShort` | | | the violations of section 5 |

**Bounds.** *Parse*: a sentence of three words has null counts on both sides
of `minNulls`, and `MinLenMultiPruning = 3` puts lengths 1 and 2 on one side of
the optimized-pruning switch and 3 on the other. Two calls are enough for every
state one call can leave to meet every path of the next; the proofs remove these
bounds for the safety properties. A limit below `MaxFound` makes random selection
and deduplication happen. In pruning the dictionary words have up to four
disjuncts with shared tracons, multi-connectors, a length limit and disjuncts that
are useless for a while or for good, so that several passes are needed and every
pruning method deletes something. `pass_number` is an 8-bit field of the code;
`MaxPass = 7` is more than the passes these sentences need. *Sentences*: two words
are the least for a contraction or a unit beside a word that is split in another way;
three dictionaries because the languages use different parts of the tokenizer. Three words
are the least for a middle word with links on both sides, for a link that crosses
another range and for a multi-connector used twice; four words add nested ranges.
The sentences have between 0 and more than 4 linkages, so that counts lie on both
sides of the clamp and of the limit. Five words are the least in which a restricted
link keeps a left domain from a link; three linkages with the timer looked at after
two leave one to the last loop; the second batch meets the rules that the first one
chose. Four linkages to sort allow two duplicates with a block to move between and a
bad linkage at the end. *Tables*: vectors of 2 and 3 elements leave rests in a pool,
so that the next block is entered both when it is new and when it is old; three
names hash to a chain over the end of the power table, the least that has a
tombstone in its middle; the sets of strings and tracons start with a few slots and
grow twice; the count table grows in the middle of a count and in the next sentence.
*Dictionary*: two threads are the least for a lookup in another's; they share no word,
a word, or only a class of words, and with two sessions names are issued after the
dictionary was opened again, both for connectors and as categories; a file, an included file and a second entry of a word give every order of
definition. *Clients*: two clients, two workers and two tries let a late answer of a
lost connection meet the next request; requests with and without a time limit and texts
that are parsed within none, one or all of the limits; sentences whose first, null or
panic parse runs out of time; an outer and an inner file with a panic
sentence in either.

**Deadlock.** All configurations say `CHECK_DEADLOCK FALSE`: the calls of a client
are bounded (`Parse`, `Tables`, `Clients`) and the other computations end.

**Fairness.** `CallReturns` needs `WF_vars(ParseStep)` and `PruningEnds` needs
weak fairness of `PruneNext`, because the library runs in the thread of its caller
and takes no lock; a call that has started keeps executing. Clients are under no
obligation to call anything. `CallsReturn` of the service needs weak fairness of the
accepting thread, of each worker and of the client's own steps (`Fairness`); the
network may still lose every try, and then the call returns without a result.

## 4. Proofs

`tlapm` checks the eight modules that hold theorems completely.

**ClassicParseProofs**, under `ConstantsAssumption` (sizes are naturals, sentence
lengths positive, options are records of the right type): for any sentence length,
any set of options, any number of calls and linkages

* `TypeCorrect`: `TypeOK`; in particular subtracting duplicates never takes a counter
  below zero;
* `MemorySafe`: `NoMemoryFault`;
* `PruningSound`: `PruneAllowsParse`;
* `CountersConsistent`: `CountersAgree`; `LinkagesAlive`: `LinkagesUsable`;
* `NoLinkageSkipped`: the action property `SkipsNoLinkage`.

None of these is inductive. The invariant `IInv` is the conjunction of `TypeOK` and

* `CallInv`: which steps can run on which sentence and options;
* `LevelInv`: how the current and the needed pruning level, the level the disjuncts
  are pruned for, `nl` and `more_pruning_possible` hang together. `PruneAllowsParse`
  depends on the fact that a needed level that is not above the current one is
  impossible while `nl` is above it;
* `HeapInv`: at each point of the call, which blocks exist and where `word[].d` and
  the linkages point. This includes that `saved_memblock` is live exactly while a
  restore is possible, and that a packed block and the pools never exist together;
* `CounterInv`: the counters at each point of the call, also inside the loop where
  they disagree for a while.

**PowerPruneProofs**, under `PruneAssumption` and `SentenceAssumption` (the options
are records of the right type; `setup_connectors()` yields lists of disjuncts, which
TLC evaluates because the provers have nothing on `SelectSeq`): `RefcountsCorrect`,
for any sentence, any number of passes and whatever the mandatory-link table and the
post-processing pruning do in between. `PruneInv` says that no list has a disjunct
twice (`Lists`), where a pass is and which list it has left to do (`Remaining`,
`Position`), that the reference count of a connector is the number of jets of
undeleted disjuncts that it is in (`Counted`), and that the table of the direction in
work has every connector still in use (`Tabled`). The argument: a disjunct is
deleted once, its two jets share no connector, so each connector loses exactly its
use; `clean_table()` takes only what has none. Marks and length limits play no part.

**TableProofs**: `LookupExact` (under `CountAssumption`) and `SearchCorrect` (under
`PowerTableAssumption`), for any keys, hashes and sizes. `CTInv` says that the slots
of the live context hold exactly the entries that hash there, and that a key being
counted has no entry yet, so that no growth or store in its parts can put a second
one in. `PTInv` says that a slot has connectors of one name (`OneName`), that no slot
on the way from a name's hash to its slot is empty (`Reached`, tombstones count as
full), and that fewer slots are taken than there are, so a search ends.

In the same module, under `SizesAssumption`, `StringAssumption` and `TraconAssumption`:
`StringsOnce` and `TraconsShared`, from invariants which say that every entry is in
the first slot of its probes that could hold it and, while the table grows, that the
entries are those of both tables; and the refinements `StringSetRefines` and
`TraconSetRefines`: every step is `Intern`, `Forget` or a stutter of `Interning`.
For strings the pointers differ because copies are apart and have at least one byte.

**MemoryPoolProofs**, under `PoolAssumption` (positive sizes): for all block,
element and vector sizes `PoolTypeCorrect`, `PoolRegionsDisjoint`,
`PoolIssuesZeroed` and `PoolTraversalInOrder`. The invariant `PoolInv` adds to
`TypeOK` that the cursor is null only without a current block (`PointInv`), that
every issued region ends before the cursor (`BeforePoint`), that regions are apart
(`Apart`), that with `ZeroOut` the bytes from the cursor on are clean (`CleanAhead`),
and that only bytes of the data part are ever dirty (`DirtyInData`). For the
traversal `InOrder` adds that single elements are at consecutive places
(`Consecutive`), that the last one ends at the allocation point (`PointAtLast`) and
where `pool_next()` is (`AtElement`); it holds while only single elements were
allocated since the last reuse and blocks hold a whole number of them.

**SortProofs**: `SweepCorrect`, that is `SweepExact` for any candidates, any bound on
their number and any order of the merges of `qsort()`, under two hypotheses:
`MaxAlloced` is a natural number, and `Comparable`. The latter says that the
comparison orders the candidates and finds two valid ones equal exactly if they have
the same links and words. It is a hypothesis about the linkages and not about the
code: TLC evaluates it for the candidates of the run `Sentences`
(`CandidatesComparable`), and it is false for those of `SortLinkagesPrefix`, which is
finding 3. That `Compare` looks at the violations before anything else, so that bad
linkages come last, is proved from its definition. `SortInv` says that every linkage
is in one run or in the merged part (`EachOnce`); that in each run, and in the merged
part followed by what is left of either run, the linkages are in order and one is
marked if and only if an equal one stands before it (`Ordered`); and during the sweep
that the first `tgt` places hold what is kept of the first `blkstart` while the rest
is as it was sorted (`Swept`). `Ordered` is the point: the comparison marks the head
that stays behind, and the lemma `InsertGood` shows that this is the one mark that
changes when a linkage is put before it.

**ClientProofs**, under `TextsAssumption` and `CallsAssumption` (a request has no time
limit, -1, or a natural number of seconds): `AnswersOwn` and `OneResultPerCall`, for any
number of clients, workers, tries and texts. `AnswersOwn` says that an answer has exactly
the linkages that the text and the limits of its request entitle it to, where a request
without a time limit has one of those that earlier requests, or the first setting, left.
`ServiceInv` says that a connection is known by a client and a number, that a
request is in one place (queue or one worker), that later calls have greater numbers
(`CallInv`, `QueueInv`), that a worker is ready to parse only under a limit of its request
or a limit that was left (`ThreadInv`), because `jParse()` replaces what the last client
left, sets the null counts itself and `configure()` the rest, and that a reply carries the
answer to the text of its connection (`ReplyInv`).

Without an assumption: `SessionCorrect`, that is `SessionObeyed`, for any terminal
input, files and sentences. `OptionsInv` says that the user's variables are what was
given at every step and that the three limits in `opts` agree with them, since panic mode
leaves only through `put_local_vars_in_opts()`. `all_short_connectors` is not among these;
of it only that nothing but panic mode sets it is proved, and finding 7 has the rest. `InputInv` adds to
the account of the lines (`EachLineOnce`) that the pending line is the last one read
from the terminal and that none is pending while linkages are shown; otherwise a
display could drop it.

Under `GenerationsAssumption` (a linkage has words, a category has words, which is how
the list of categories ends): `GeneratorCorrect`, that is `GeneratesChoices`. `GenInv`
was checked with TLC before it was proved. It relates the position of the odometer to
what is counted and printed: the choices before it in lexicographical order (`Passed`)
are as many as `num_word_choices` while it counts and, if everything is printed, they
are the ones printed, each once. `OdometerTurns` is the step: one turn passes exactly the choice the
odometer was at, and when it wraps none is left.

**ChosenProofs**: `DisplayCorrect`, that is `DisplayFits`, for any path, links, null
words and morphemes, under the hypothesis `Displayable` for every linkage: the path is
in the order of the sentence and a link ends at words of the path that have disjuncts.
`extract_links()` and `sane_linkage_morphism()` ensure both. Nothing is assumed of where
alternatives start: a null alternative after a stripped punctuation repeats it, and
the theorem says that no text is repeated otherwise and none is lost (`TextShown`). TLC
evaluates the hypothesis for the linkages of the run `Clients` (`PathsDisplayable`), one
of whose paths has such an alternative. `DisplayInv` says how the arrays that the code fills side by side
hang together while `compute_chosen_words()` is at work: the places seen fall into
segments, each shown as one word whose text is at its last place (`Displayed`), and
`wg_path_display` has so far exactly these texts, and the placeholders of joined
morphemes that have links, in order (`EntriesOf`); the null words counted so far are of
one sentence word and have no text (`InBlock`), which makes `nbsize` zero at every word
with a disjunct and at the end. The lemma `SegmentAdded` is the step for each kind of
word; `PlaceIs` says that the number that a word gets from `remap` is its place in
`wg_path_display`. The lemmas about numbering the members of a set in order
(`Renumbered`, `OrderUnique`, `OrderJoined`) stand first.

**AtomeseProofs**, under `AtomSettings` (settings are records of the right type, the
number that spells "ANY" is a natural) and `AtomContents` (finitely many sections and
pairs, and sections with their connectors in word order, which is how Atomese writes
them): for any number of threads and sentences and any storage,

* `NumbersCorrect`: `ConnectorsNumbered`, also when the dictionary is closed and opened
  again;
* `LinkIdsCorrect`: `LinkIdsExact`, also then: a link has one name in the AtomSpace and in
  the storage, none is "ANY", and a name is issued to at most one link for each time the
  dictionary is opened. That a name is issued only once, as the comment of
  `cached_linkname()` says, is false (finding 6), so more would be false.

`ConnectorsNumbered` speaks of threads that are done, and what they have may have been
made, cached and copied by others. `TableInv` follows it back: in every cached
expression (`CacheOK`) and in everything a thread carries (`ThreadsOK`) all connectors
are in the table of connectors; a thread that has passed `as_end_lookup()` has only
numbered ones; the numbers are below `num_uc` and differ (`NumbersOK`); and a link that
is no longer in the thread's list of links to do has a name, which is why the
expression that is made when the list is empty has only names that exist (`NamedSo`;
`SpaceOK` and `EdgesOK` have the types this needs). `NamesInv` adds that the names in the AtomSpace and in the
storage together give each link one name, that a name is of no more links than there were
sessions, and of fewer when it is not below `last_id` (`Counts`), that what is stored is
known here or is fetched before a name is looked for (`StoredKnown`), and that no name is
issued before the categories for generation are made; the second look under `pair_mutex`
keeps a link that another thread has just named from getting a second name. Both were
checked with TLC on the instances of the run `Dictionary` before they were proved.

`OneResultPerCall`, `NumbersCorrect` and `PoolTraversalInOrder` state properties that no
run names by themselves.

**Only model-checked.** Liveness (`CallReturns`, `PruningEnds`, `CallsReturn`). What
rests on recursive operators or compares with the set of all linkages: `PruneExact`,
`CountIsExact`, `ExtractsLinkages`, `SatExact`, `CachesChangeNothing`,
`DomainsExact`, `VerdictsKept`, `GraphSpells`, `SlotsFollow`, `SanePath`,
`PrunedExactly`, `DisjunctsExact`, `FilesReadExactly`, `SetupExact`, `WholeTree` (modules `Affixes`, `Dialect`,
`DictSyntax`, `Dictionary`, `DoCount`, `Expressions`, `ExtractLinks`, `LongCount`,
`PPDomains`, `SatParse`, `Wordgraph` declare recursive operators, which the provers
do not take). Of `AtomLookupsExact` only what `LinkIdsExact` says of names is proved.
`LinksReadable` rests on where `set_centers()` puts the words, a fold over their widths.

## 5. Findings

1. *Early timeout keeps the old count* (`parse/parse.c:621`, run
   `ClassicParseTimeout`). If the timer expires while the disjuncts are being built,
   `classic_parse()` returns before its loop resets the counters. After a second
   `sentence_parse()` the sentence still reports the linkages of the first, whose
   disjuncts have been freed. `LinkagesUsable` is therefore stated for calls that
   reached the loop.
2. *Second pruning without restoring* (`parse/prune.c:280`, run
   `ClassicParseRefcount`). With optimized pruning, `min_null_count =
   max_null_count = length-1` and all words losing their disjuncts, the loop
   prunes again on tracons whose reference count may already be 0, where
   `power_table_init()` asserts that it is positive.
3. *Prefix taken for a duplicate* (`parse/parse.c:294`, run `SortLinkagesPrefix`).
   `linkage_equiv_p()` does not compare the number of links; a linkage whose first
   links are all the links of another of the same costs is removed as its
   duplicate. The run `Sentences` has no such pair of candidates (`Comparable`).
4. *Rules chosen once* (`post-process/post-process.c:1097`, run `PostProcessRules`).
   In sentences of at least `twopass_length` words the rules are pruned by the link
   names of the first batch of linkages and `q_pruned_rules` is never reset. A
   linkage of a later batch (a higher null count, or a second `sentence_parse()`)
   is not tested against a rule whose selector was not among them.
   `VerdictsKept` is therefore stated for the first batch and for short
   sentences.
5. *Two nodes for one word* (`dict-atomese/sections.cc:268`, run `AtomeseDuplicate`).
   `lookup_plain_section()` gives up `dict_mutex` while it makes the expressions of a
   word. Two threads that look up the same new word both make a node;
   `dict_node_insert()` puts the second in front and clears its expression as that of
   a duplicate, and the word has lost its sections. `AtomLookupsExact` excepts the
   sections of a word with two nodes, and no others.
6. *Link names issued again* (`dict-atomese/lookup-atomese.cc:181`, run `AtomeseReopen`).
   `as_open()` sets `last_id` to 0. For an AtomSpace that was attached it returns before
   `fetch_link_id()`, and for a private one that function returns at once
   (`link-names.cc:145`). A dictionary that is opened on links that have names gives the
   same names to others, while `link-names.cc:104` says that "link ID's are issued only
   once, ever". `LinkIdsExact` says what is left: once for each opening.
7. *All connectors short after panic mode* (`link-parser.c:986`, run `PanicKeepsShort`).
   `setup_panic_parse_options()` sets `all_short_connectors`; the line commented "Undo
   setup_panic_parse_options()" puts back the options that have a user variable, which this
   one has not (`command-line.c:1059`). Every later sentence is parsed with all its
   connectors limited to `short_length`.

Behaviour met while modelling that no comment or document contradicts:

* *Sets and pools.* `find_place()` may never end (section 2). `ss_stralloc()`
  subtracts a size twice. `condesc_add()` takes `more` from the wrong pool.
* *Sentence.* A second `sentence_parse()` runs on expressions that the first one has
  pruned with a shorter length limit. A second `linkage_create()` works on arrays that
  no longer match. A null block that starts a nested alternative after a stripped
  left punctuation shows the whole word of the sentence (`linkage.c:423`), and the
  punctuation is shown twice.
* *Tokenizer.* `strip_right()` loops for ever with `MAX_STRIP_ALT` (5) or more
  subscripted variants (`tokenize.c:2127`). `suffix_split()` with a prefix and a suffix
  also issues the prefix with the whole rest and the suffix. The null count of
  `sane_linkage_morphism()` counts only slots that no live path skips.
* *Diagram.* PostScript link heights are written in drawing order and read by link
  index. If nothing fits and the offset is the screen width less two, the loop over
  rows never advances. A direction sign only on the right overwrites the name. A word
  too wide for the screen that is drawn at an offset: the piece printed counts the
  offset's columns, `c` advances as if they were all characters of the word
  (`print.c:723`), and the last columns of the picture are never printed, so that
  `LinksReadable` needs words without one. These are outside the instance.
* *Constituents.* A question word with nothing after it fails the assertion
  "negative constituent length!"; `add_constituent()` writes before it checks the
  limit; the merge keeps the first of two identical ones.
* *Dictionary.* An OR of three or more operands that starts with `()` prints only its
  second one. A symbol after `]` is taken as a dialect tag. `is_idiom_string()` tests
  the wrong pointer; a malformed idiom that "will be ignored" leaves its word. A
  wild-card search misses words that contain `*`. The loop of `read_entry()` over
  words has no test for the end of the file.
* *Dialect.* After a failed `setup_dialect()` the next call returns true with the
  partial table. The loop check covers only the default section and takes a diamond
  for a loop.
* *Atomese.* `need_pair_fetch()` tags before the fetch; a half-finished fetch is taken
  as complete. Pairs that one thread splices into a cached expression come from its own
  sentence, and stay when the sentence is deleted. `as_clear_cache()` and then `as_close()` free twice. Without extra
  pairs `make_or_node()` writes into a shared cached expression. A word that is only in
  class pairs, with no ANY links, fails an assertion. A pair of a word with itself has
  only its `-` connector.
* *SAT parser.* Raising `linkage_limit` between the parse and `linkage_create()` fails
  an assertion; `num_valid_linkages` is the limit even if there are fewer. The cost
  cutoff is applied to paths of connectors one by one.
* *link-parser.* `panic_limit` is never applied; a panic sentence is counted
  twice in `batch_errors`; a nested `!file` abandons the rest of the outer file.
* *Java.* Threads of the pool do not ensure that `init()` has returned before they
  parse, which the comment of `jni-client.c:91` asks for. `maxCost` has no effect. A
  request without a time limit is parsed under that of an earlier one. A
  client that never ends its line holds a thread for ever. `getEmptyJSONResult()`
  lacks its opening brace.

## 6. What is not modelled

* In `ClassicParse`: generation mode, optional words, the branch to the SAT parser,
  verbosity and statistics.
* In `DoCount`, `LongCount` and `ExtractLinks`: optional words, alternatives in match
  lists, subscripts in connector names, the use of the caches by `mk_parse_set()`, the
  hash table of the parse set, histograms. `CountTable` has the table of counts, apart
  from the recursion.
* In `PowerPrune`: optional words, sentences that are too short for sharing,
  subscripts and wild cards in the names of rules, the test options `always-parse`
  and `no-mlink`.
* In `SortLinkages`: shuffled linkages.
* In `PostProcess`: sentences without a postprocessor, the reading of the rules, the
  hash table of `pp_linkset.c`, the head-dependent indicator of link names. In
  `Constituents`: hidden sentences (CP).
* In the sets: `TraconSet` is used, but not the packing into one block of memory.
* In the tokenizer: `anysplit.c`, `mprefix_split()`, synthetic splits, the capitals of
  `dictcap`, the regex SANEMORPHISM, islands. In `Expressions`: generation mode.
* In the dictionaries: regex files, the definitions for generation, SQL, wild-card
  lookups and formulas for costs in the AtomSpace. Costs from it are only compared
  with the cutoff.
* In `SatParse`: the encoding into propositional variables, the solver (vendored),
  parsing with nulls, which it does not support either.
* In `Diagram`: PostScript; a character takes one column.
* In `LinkParser`: command-line editing and help. In `LGService`: the JSON text.
* Left out: error queue and plain option setters, the SQL dictionary (queries to an
  external database), the bindings other than Java (wrappers without a state), the
  encoding of connector names.

## 7. Plan

The components of section 1 are modelled as `PROJECT.json` says. What remains is to
prove, in this order:

1. `CountTable` as an implementation of an abstract map from keys to counts, the way
   `StringSet` implements `Interning`.
2. `Diagram`: lines drawn from the shortest to the longest leave the columns of their
   ends free.
