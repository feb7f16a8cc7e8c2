---------------------------- MODULE ClassicParse ----------------------------
(***************************************************************************)
(* The control of sentence_parse() and classic_parse(): one Sentence, one  *)
(* Parse_Options, and any number of calls of sentence_parse() on it (a     *)
(* client calls it again to parse with nulls, or in panic mode).           *)
(*                                                                         *)
(* What the parser computes is abstract: minNulls is the least null count  *)
(* at which the sentence has a linkage, and pruning, counting, extracting  *)
(* and post-processing are any functions that are sound for it.  Kept in   *)
(* full: the null-count loop with its pruning levels, saving and restoring *)
(* the disjuncts, every allocation and release of the disjunct blocks, the *)
(* linkage counters, and the timeout exit after every step that can take   *)
(* long.  No word of the sentence is optional, and the dictionary is not a *)
(* generation dictionary.                                                  *)
(***************************************************************************)
EXTENDS Integers

CONSTANTS
  MaxSentence,         \* MAX_SENTENCE: bound on the length, and the prune level "no limit"
  MinLenMultiPruning,  \* sent->min_len_multi_pruning
  Lengths,             \* what tokenizing may make of the input sentence
  Options,             \* the Parse_Options a client may pass
  MaxFound,            \* bound on the number of linkages that do_parse() counts
  MaxParses            \* bound on the number of calls of sentence_parse()

ASSUME ConstantsAssumption ==
  /\ MaxSentence \in Nat \ {0}
  /\ MinLenMultiPruning \in Nat
  /\ Lengths \subseteq Nat \ {0}
  /\ Options \subseteq [min : Nat, max : Nat, islands_ok : BOOLEAN,
                        limit : Nat, timed : BOOLEAN]
  /\ MaxFound \in Nat \ {0}
  /\ MaxParses \in Nat

VARIABLES
  pc,                  \* which step of the call runs next; "idle" between calls
  opts,                \* the options of the current or of the last call
  parses,              \* calls of sentence_parse() so far
  length,              \* sent->length; 0 until the sentence is split
  minNulls,            \* least null count with a linkage (unknown to the code)
  timer_expired,       \* opts->resources->timer_expired
  abandoned,           \* the last call returned before its null-count loop
  nl,                  \* the null-count loop variable (= sent->null_count in the loop)
  current_prune_level, \* -1: no pruning has been done yet
  needed_prune_level,
  more_pruning_possible,
  pruned,              \* least level the disjuncts at word[].d were pruned for
  zeroRef,             \* some tracon of the pruning block has refcount 0
  found,               \* sent->num_linkages_found
  overflowed,          \* sent->overflowed
  alloced,             \* sent->num_linkages_alloced
  post_processed,      \* sent->num_linkages_post_processed
  valid,               \* sent->num_valid_linkages
  pools,               \* sent->Disjunct_pool and sent->Connector_pool exist
  dc_memblock,         \* sent->dc_memblock # NULL
  word_d,              \* the memory sent->word[].d points into
  lnkages,             \* sent->lnkages and the disjuncts its linkages point to
  ts_pruning,          \* the pruning tracon block and its descriptor
  saved_memblock,      \* the copy made by save_disjuncts()
  mchxt,               \* the fast matcher exists, built for the current dc_memblock
  ctxt,                \* the count context exists
  faults               \* memory faults committed so far

sentVars  == <<opts, parses, length, minNulls, timer_expired, abandoned>>
loopVars  == <<nl, current_prune_level, needed_prune_level,
               more_pruning_possible, pruned, zeroRef>>
countVars == <<found, overflowed, alloced, post_processed, valid>>
heapVars  == <<pools, dc_memblock, word_d, lnkages, ts_pruning,
               saved_memblock, mchxt, ctxt, faults>>
vars == <<pc, sentVars, loopVars, countVars, heapVars>>

-----------------------------------------------------------------------------
MIN(a, b) == IF a < b THEN a ELSE b

(* The constants of one call of classic_parse().                           *)
MaxNullCount == MIN(opts.max, length)

OptimizePruning == ~opts.islands_ok /\ length >= MinLenMultiPruning

OneStepParse == /\ opts.min # MaxNullCount
                /\ OptimizePruning \/ opts.min = 0

MaxPruneLevel == IF ~OptimizePruning /\ opts.min = 0 THEN 0 ELSE MaxNullCount

FirstPruneLevel == IF ~OptimizePruning /\ opts.min # 0 THEN MaxSentence ELSE opts.min

(* resources_exhausted() may return t: the flag latches, and it can only be *)
(* raised when the options limit the parse time.                            *)
ResourcesExhausted(t) ==
  /\ t \in BOOLEAN
  /\ timer_expired => t
  /\ t => timer_expired \/ opts.timed

-----------------------------------------------------------------------------
(* The heap.  Freeing a block makes the pointers into it dangle; using or  *)
(* freeing what is not allocated is a fault.                               *)
Dangle(pointer, block) == IF pointer = block THEN "dangling" ELSE pointer

UseOf(block) == IF block = "live" THEN {} ELSE {"use after free"}

FreeOf(block) == IF block = "freed" THEN {"double free"} ELSE {}

LeakIf(b) == IF b THEN {"leak"} ELSE {}

(* Mutant: the counters survive the array.                                 *)
FreeLinkagesOnly ==
  /\ lnkages' = "NULL"
  /\ UNCHANGED <<alloced, post_processed, valid>>

(* free_linkages(): it also clears the counters.                           *)
FreeLinkages ==
  /\ lnkages' = "NULL"
  /\ IF lnkages = "NULL"
       THEN UNCHANGED <<alloced, post_processed, valid>>
       ELSE alloced' = 0 /\ post_processed' = 0 /\ valid' = 0

(* free_sentence_disjuncts(): the packed block if there is one, else the   *)
(* pools.                                                                  *)
FreeSentenceDisjuncts ==
  /\ dc_memblock' = FALSE
  /\ pools' = (dc_memblock /\ pools)
  /\ word_d' = IF dc_memblock THEN Dangle(word_d, "dc") ELSE Dangle(word_d, "pool")
  /\ lnkages' = IF dc_memblock THEN Dangle(lnkages, "live") ELSE lnkages

-----------------------------------------------------------------------------
Init ==
  /\ pc = "idle" /\ opts \in Options /\ parses = 0
  /\ length = 0 /\ minNulls = 0 /\ timer_expired = FALSE /\ abandoned = FALSE
  /\ nl = 0 /\ current_prune_level = -1 /\ needed_prune_level = 0
  /\ more_pruning_possible = FALSE /\ pruned = MaxSentence /\ zeroRef = FALSE
  /\ found = 0 /\ overflowed = FALSE /\ alloced = 0
  /\ post_processed = 0 /\ valid = 0
  /\ pools = FALSE /\ dc_memblock = FALSE /\ word_d = "NULL" /\ lnkages = "NULL"
  /\ ts_pruning = "NULL" /\ saved_memblock = "NULL"
  /\ mchxt = FALSE /\ ctxt = FALSE /\ faults = {}

(* sentence_split(): it fails before (tokenizing, dialect) or after        *)
(* (unknown words) the length is set.                                      *)
SplitTo(n, m) ==
  /\ length' = n
  /\ minNulls' = m
  /\ n = 0 => m = 0
  /\ n > 0 => m < n

SentenceSplit ==
  /\ pc = "idle" /\ length = 0
  /\ \E n \in Lengths \cup {0} : \E m \in 0..n : SplitTo(n, m)
  /\ UNCHANGED <<pc, opts, parses, timer_expired, abandoned, loopVars, countVars, heapVars>>

(* sentence_parse() up to the call of classic_parse(): reset the number of *)
(* valid linkages, split the sentence or free what an earlier parse left,  *)
(* refuse a sentence that is too long, and restart the timer.  The client  *)
(* asks for a null-count range that the sentence has.                      *)
SentenceParse ==
  /\ pc = "idle" /\ parses < MaxParses
  /\ parses' = parses + 1
  /\ opts' \in Options
  /\ valid' = 0
  /\ \/ /\ length = 0
        /\ \E n \in Lengths \cup {0} : \E m \in 0..n : SplitTo(n, m)
        /\ pc' \in (IF length' = 0 \/ length' >= MaxSentence
                      THEN {"idle"} ELSE {"idle", "prepare"})
        /\ UNCHANGED <<pools, dc_memblock, word_d, lnkages>>
     \/ /\ length > 0
        /\ FreeSentenceDisjuncts
        /\ pc' = IF length >= MaxSentence THEN "idle" ELSE "prepare"
        /\ UNCHANGED <<length, minNulls>>
  /\ opts'.min <= opts'.max
  /\ length' > 0 => opts'.min <= length'
  /\ timer_expired' = (timer_expired /\ pc' = "idle")
  /\ abandoned' = TRUE
  /\ UNCHANGED <<loopVars, found, overflowed, alloced, post_processed,
                 ts_pruning, saved_memblock, mchxt, ctxt, faults>>

(* classic_parse() up to its loop: prepare_to_parse() builds the disjuncts *)
(* in new pools; a timeout returns at once; else they are packed into the  *)
(* pruning block, the pools are freed, and the block is saved if the loop  *)
(* may have to prune again.                                                *)
PrepareToParse ==
  /\ pc = "prepare"
  /\ \E t \in BOOLEAN :
       /\ ResourcesExhausted(t)
       /\ timer_expired' = t
       /\ faults' = faults \cup LeakIf(pools)
       /\ \/ /\ t
             /\ pc' = "idle"
             /\ pools' = TRUE
             /\ word_d' = "pool"
             /\ UNCHANGED <<abandoned, loopVars, dc_memblock, lnkages,
                            ts_pruning, saved_memblock>>
          \/ /\ ~t
             /\ pc' = "loop"
             /\ abandoned' = FALSE
             /\ nl' = opts.min
             /\ current_prune_level' = -1
             /\ needed_prune_level' = FirstPruneLevel
             /\ more_pruning_possible' = FALSE
             /\ pruned' = MaxSentence
             /\ zeroRef' = FALSE
             /\ pools' = dc_memblock
             /\ dc_memblock' = FALSE
             /\ word_d' = "pruning"
             /\ lnkages' = IF dc_memblock THEN Dangle(lnkages, "live") ELSE lnkages
             /\ ts_pruning' = "live"
             /\ saved_memblock' = IF OneStepParse THEN "live" ELSE "NULL"
  /\ UNCHANGED <<opts, parses, length, minNulls, countVars, mchxt, ctxt>>

-----------------------------------------------------------------------------
(* The loop over null counts.                                              *)

(* The number of words that may be left without disjuncts when lev is the  *)
(* least level the disjuncts were pruned for.  If it allows minNulls nulls *)
(* the linkages with minNulls nulls survive; a sentence that has only the  *)
(* all-null linkage (length-1 nulls) may lose all its disjuncts.           *)
NullWords(lev) ==
  IF lev < minNulls
    THEN 0..length
    ELSE 0..(IF minNulls = length - 1 THEN length ELSE minNulls)

(* pp_and_power_prune(): the null count it reports.                        *)
ExpectedNullCount(lev, nullWords) ==
  IF lev = MaxSentence THEN nullWords
  ELSE IF nullWords > nl THEN nl + 1 ELSE nl

(* Mutant: no step back from length-1 nulls.                               *)
SkipToExpected(expected) == expected

(* The next loop value after skipping to expected: nl = expected-1; one    *)
(* less if that is length-1; then nl++.                                    *)
SkipTo(expected) == IF expected - 1 = length - 1 THEN expected - 1 ELSE expected

(* Mutant: the null count stays in its range.                              *)
IncrementInRange == MIN(nl + 1, MaxNullCount)

(* nl++, after a null count that gave no valid linkage.                    *)
Increment == nl + 1

(* Mutant: the number of post-processed linkages is not reset.             *)
ResetMostCounters ==
  /\ found' = 0 /\ overflowed' = FALSE /\ valid' = 0
  /\ UNCHANGED post_processed

ResetCounters ==
  /\ found' = 0 /\ overflowed' = FALSE /\ valid' = 0 /\ post_processed' = 0

(* Mutant: the level is not advanced.                                      *)
NeededStays(lev) == IF lev < MaxPruneLevel THEN lev ELSE MaxSentence

NeededAfter(lev) == IF lev < MaxPruneLevel THEN lev + 1 ELSE MaxSentence

PruneNeeded == needed_prune_level > current_prune_level

(* Mutant: the disjuncts are never restored.                               *)
RestoresNever == FALSE

(* restore_disjuncts() returns at once if nothing was saved.               *)
Restores == more_pruning_possible /\ saved_memblock # "NULL"

LoopPrune ==
  /\ pc = "loop" /\ nl <= MaxNullCount
  /\ PruneNeeded
  /\ ResetCounters
  /\ current_prune_level' = needed_prune_level
  /\ needed_prune_level' = NeededAfter(needed_prune_level)
  /\ more_pruning_possible' = (OneStepParse /\ needed_prune_level # MaxSentence)
  /\ word_d' = IF Restores THEN "pruning" ELSE word_d
  /\ faults' = faults \cup (IF Restores THEN UseOf(saved_memblock) ELSE {})
                      \cup UseOf(ts_pruning)
                      \cup (IF word_d' = "pruning" THEN {} ELSE {"use after free"})
  /\ pruned' = MIN(IF Restores THEN MaxSentence ELSE pruned, needed_prune_level)
  /\ \E nullWords \in NullWords(pruned') :
       LET expected == ExpectedNullCount(needed_prune_level, nullWords)
       IN  IF expected > nl
             THEN nl' = SkipTo(expected) /\ pc' = "loop"
             ELSE nl' = nl /\ pc' = "pack"
  /\ zeroRef' \in (IF length = 1 THEN {FALSE}
                   ELSE IF zeroRef /\ ~Restores THEN {TRUE} ELSE BOOLEAN)
  /\ UNCHANGED <<sentVars, alloced, pools, dc_memblock, lnkages,
                 ts_pruning, saved_memblock, mchxt, ctxt>>

LoopNoPrune ==
  /\ pc = "loop" /\ nl <= MaxNullCount
  /\ ~PruneNeeded
  /\ ResetCounters
  /\ pc' = "pack"
  /\ UNCHANGED <<sentVars, loopVars, alloced, heapVars>>

LoopEnd ==
  /\ pc = "loop" /\ nl > MaxNullCount
  /\ pc' = "sort"
  /\ UNCHANGED <<sentVars, loopVars, countVars, heapVars>>

(* The loop body before counting: while there may be more pruning, and the *)
(* first time after the last one, pack the disjuncts for parsing.  Packing *)
(* frees the block of the previous null count first.  After the last       *)
(* pruning the pruning block and the saved one are freed.  The new fast    *)
(* matcher replaces the old one.                                           *)
PackForParsing ==
  /\ pc = "pack" /\ ts_pruning = "live"
  /\ dc_memblock' = TRUE
  /\ lnkages' = IF dc_memblock THEN Dangle(lnkages, "live") ELSE lnkages
  /\ word_d' = "dc"
  /\ LET packed == IF dc_memblock THEN Dangle(word_d, "dc") ELSE word_d
         reads  == IF packed = "pruning" THEN {} ELSE {"use after free"}
     IN  IF more_pruning_possible
           THEN /\ faults' = faults \cup reads
                /\ UNCHANGED <<ts_pruning, saved_memblock>>
           ELSE /\ faults' = faults \cup reads \cup FreeOf(saved_memblock)
                /\ ts_pruning' = "NULL"
                /\ saved_memblock' = IF saved_memblock = "NULL" THEN "NULL" ELSE "freed"
  /\ mchxt' = TRUE
  /\ \E t \in BOOLEAN :
       /\ ResourcesExhausted(t)
       /\ timer_expired' = t
       /\ pc' = IF t THEN "cleanup" ELSE "count"
  /\ UNCHANGED <<opts, parses, length, minNulls, abandoned, loopVars, countVars,
                 pools, ctxt>>

KeepPacked ==
  /\ pc = "pack" /\ ts_pruning = "NULL"
  /\ pc' = "count"
  /\ UNCHANGED <<sentVars, loopVars, countVars, heapVars>>

(* How many linkages with nl nulls do_parse() may count.                   *)
Counts ==
  CASE nl < minNulls                     -> {0}
    [] nl = minNulls /\ pruned >= nl     -> 1..MaxFound
    [] OTHER                             -> 0..MaxFound

(* Free the linkages of the previous null count and count those of this    *)
(* one.  After a timeout the count is dropped.                             *)
DoParse ==
  /\ pc = "count"
  /\ FreeLinkages
  /\ ctxt' = TRUE
  /\ faults' = faults \cup (IF word_d = "dc" /\ dc_memblock /\ mchxt
                              THEN {} ELSE {"use after free"})
  /\ \E t \in BOOLEAN, n \in Counts :
       /\ ResourcesExhausted(t)
       /\ timer_expired' = t
       /\ \/ t  /\ found' = 0 /\ pc' = "cleanup" /\ nl' = nl
          \/ ~t /\ found' = n
                /\ IF n > 0 THEN pc' = "extract" /\ nl' = nl
                            ELSE pc' = "loop"    /\ nl' = Increment
  /\ UNCHANGED <<opts, parses, length, minNulls, abandoned, overflowed,
                 current_prune_level, needed_prune_level, more_pruning_possible,
                 pruned, zeroRef, pools, dc_memblock, word_d, ts_pruning,
                 saved_memblock, mchxt>>

(* setup_linkages() and process_linkages(): allocate the linkage array and *)
(* fill it with the linkages that have an acceptable morphology.  Clearing *)
(* an old array here would also clear the count just made.                 *)
ExtractLinkages ==
  /\ pc = "extract"
  /\ overflowed' \in BOOLEAN
  /\ lnkages' = "live"
  /\ faults' = faults \cup (IF word_d = "dc" THEN {} ELSE {"use after free"})
  /\ found' = IF lnkages = "NULL" THEN found ELSE 0
  /\ alloced' \in 0..(IF found' = 0 THEN 0 ELSE MIN(found, opts.limit))
  /\ valid' = alloced'
  /\ pc' = "post_process"
  /\ UNCHANGED <<sentVars, loopVars, post_processed, pools, dc_memblock, word_d,
                 ts_pruning, saved_memblock, mchxt, ctxt>>

(* post_process_lkgs(), which marks the linkages that break a rule, and    *)
(* the decision to leave the loop.                                         *)
PostProcess ==
  /\ pc = "post_process"
  /\ \E t \in BOOLEAN :
       /\ ResourcesExhausted(t)
       /\ timer_expired' = t
       /\ \/ /\ t
             /\ found' = 0 /\ valid' = 0 /\ post_processed' = 0
             /\ pc' = "cleanup" /\ nl' = nl
          \/ /\ ~t
             /\ found' = found
             /\ valid' \in 0..alloced
             /\ post_processed' = alloced
             /\ IF valid' > 0 THEN pc' = "sort" /\ nl' = nl
                              ELSE pc' = "loop" /\ nl' = Increment
  /\ UNCHANGED <<opts, parses, length, minNulls, abandoned, overflowed, alloced,
                 current_prune_level, needed_prune_level, more_pruning_possible,
                 pruned, zeroRef, heapVars>>

(* deduplicate_linkages(): with random selection, duplicates are removed   *)
(* from two or more valid linkages; the first one stays.                   *)
Duplicates ==
  0..(IF found > 0 /\ valid >= 2 /\ (overflowed \/ found > opts.limit)
        THEN valid - 1 ELSE 0)

(* sort_linkages(). *)
SortLinkages ==
  /\ pc = "sort"
  /\ \E dupes \in Duplicates :
       /\ alloced' = alloced - dupes
       /\ valid' = valid - dupes
       /\ post_processed' = post_processed - dupes
  /\ faults' = faults \cup (IF found = 0 \/ alloced = 0 THEN {} ELSE UseOf(lnkages))
  /\ pc' = "cleanup"
  /\ UNCHANGED <<sentVars, loopVars, found, overflowed, pools, dc_memblock, word_d,
                 lnkages, ts_pruning, saved_memblock, mchxt, ctxt>>

(* parse_end_cleanup: what classic_parse() allocated and still holds.      *)
ParseEndCleanup ==
  /\ pc = "cleanup"
  /\ faults' = faults \cup (IF ts_pruning = "live" THEN FreeOf(saved_memblock)
                            ELSE LeakIf(saved_memblock = "live"))
  /\ word_d' = IF ts_pruning = "live" THEN Dangle(word_d, "pruning") ELSE word_d
  /\ ts_pruning' = "NULL"
  /\ saved_memblock' = "NULL"
  /\ mchxt' = FALSE
  /\ ctxt' = FALSE
  /\ pc' = "idle"
  /\ UNCHANGED <<sentVars, loopVars, countVars, pools, dc_memblock, lnkages>>

(* sentence_delete().                                                      *)
SentenceDelete ==
  /\ pc = "idle"
  /\ dc_memblock' = FALSE
  /\ pools' = (dc_memblock /\ pools)
  /\ faults' = faults \cup LeakIf(dc_memblock /\ pools)
  /\ word_d' = "NULL"
  /\ lnkages' = "NULL"
  /\ alloced' = 0 /\ post_processed' = 0 /\ valid' = 0 /\ found' = 0
  /\ pc' = "deleted"
  /\ UNCHANGED <<sentVars, loopVars, overflowed, ts_pruning, saved_memblock, mchxt, ctxt>>

-----------------------------------------------------------------------------
(* The steps of a running call, and all steps.                             *)
ParseStep ==
  \/ PrepareToParse  \/ LoopPrune    \/ LoopNoPrune  \/ LoopEnd
  \/ PackForParsing  \/ KeepPacked   \/ DoParse      \/ ExtractLinkages
  \/ PostProcess     \/ SortLinkages \/ ParseEndCleanup

Next == SentenceSplit \/ SentenceParse \/ SentenceDelete \/ ParseStep

Spec == Init /\ [][Next]_vars

(* The library runs in the thread of the caller: a call that was started   *)
(* keeps executing.                                                        *)
FairSpec == Spec /\ WF_vars(ParseStep)

-----------------------------------------------------------------------------
(* Properties.                                                             *)

Location == {"idle", "prepare", "loop", "pack", "count", "extract",
             "post_process", "sort", "cleanup", "deleted"}

SentType ==
  /\ pc \in Location /\ opts \in Options /\ parses \in Nat
  /\ length \in Nat /\ minNulls \in Nat
  /\ timer_expired \in BOOLEAN /\ abandoned \in BOOLEAN

LoopType ==
  /\ nl \in Nat /\ current_prune_level \in Nat \cup {-1}
  /\ needed_prune_level \in Nat /\ more_pruning_possible \in BOOLEAN
  /\ pruned \in Nat /\ zeroRef \in BOOLEAN

CountType ==
  /\ found \in Nat /\ overflowed \in BOOLEAN /\ alloced \in Nat
  /\ post_processed \in Nat /\ valid \in Nat

HeapType ==
  /\ pools \in BOOLEAN /\ dc_memblock \in BOOLEAN
  /\ word_d \in {"NULL", "pool", "pruning", "dc", "dangling"}
  /\ lnkages \in {"NULL", "live", "dangling"}
  /\ ts_pruning \in {"NULL", "live"}
  /\ saved_memblock \in {"NULL", "live", "freed"}
  /\ mchxt \in BOOLEAN /\ ctxt \in BOOLEAN
  /\ faults \subseteq {"use after free", "double free", "leak"}

(* Every variable keeps its type: the counters are natural numbers (they   *)
(* are subtracted from in sort_linkages()), and the blocks have one of the *)
(* states of the heap model.                                               *)
TypeOK == SentType /\ LoopType /\ CountType /\ HeapType

(* classic_parse() never reads a disjunct block that was freed, frees none *)
(* twice and loses none, on any path: repeated pruning, the timeout exits, *)
(* and a second sentence_parse() after a normal, a timed-out or an         *)
(* abandoned one.                                                          *)
NoMemoryFault == faults = {}

(* do_parse() counts with nl nulls only on disjuncts that no pruning since *)
(* they were built or restored has thinned for fewer nulls: otherwise the  *)
(* linkages it looks for may have been pruned away.                        *)
PruneAllowsParse == pc = "count" => pruned >= nl

(* "Do the parse with the minimum number of null-links within the range":  *)
(* the loop goes past the least null count that has a linkage only when    *)
(* post-processing has rejected the linkages found there; it is not        *)
(* skipped on the word of pp_and_power_prune(), nor counted as having none.*)
SkipsNoLinkage ==
  [][(nl <= minNulls /\ pc \in {"loop", "pack", "count", "extract"})
       => nl' <= minNulls]_vars

(* Between calls the counters agree: the linkages that linkage_create()    *)
(* accepts (below num_linkages_post_processed) exist in the array, and the *)
(* valid ones are among them.                                              *)
CountersAgree ==
  pc = "idle" => /\ valid <= post_processed /\ post_processed <= alloced
                 /\ valid <= found
                 /\ lnkages = "NULL" => alloced = 0

(* After a call that got as far as its loop, every linkage that            *)
(* linkage_create() accepts still has the disjuncts it was made of, also   *)
(* when a later null count timed out after their block was freed.          *)
LinkagesUsable ==
  (pc = "idle" /\ ~abandoned /\ post_processed > 0) => lnkages = "live"

(* Every call of sentence_parse() returns: the loop ends although a null   *)
(* count may be repeated when all words are null.                          *)
CallReturns == (pc \notin {"idle", "deleted"}) ~> (pc = "idle")

(* "In case of a timeout ... pretend that the linkage count is 0": no      *)
(* linkages are reported after a call that timed out.                      *)
TimeoutReportsNone == (pc = "idle" /\ timer_expired) => found = 0

(* "Initially it should always be > 0": when power_table_init() enters the *)
(* tracons of the pruning block, each of them is still referred to.        *)
RefcountsPositive ==
  ( /\ pc = "loop" /\ nl <= MaxNullCount
    /\ PruneNeeded /\ ~Restores )
  => ~zeroRef
=============================================================================
