------------------------- MODULE ClassicParseProofs -------------------------
(***************************************************************************)
(* Proofs about ClassicParse for sentences of any length, any options, any *)
(* number of calls and any number of linkages.                             *)
(***************************************************************************)
EXTENDS ClassicParse, TLAPS

-----------------------------------------------------------------------------
(* The inductive invariant.                                                *)

InLoop == {"loop", "pack", "count", "extract", "post_process"}

(* What sentence_parse() has established when classic_parse() runs.        *)
CallInv ==
  /\ length > 0 => minNulls < length
  /\ pc = "prepare" => abandoned
  /\ pc \notin {"idle", "deleted"} =>
       /\ 0 < length /\ length < MaxSentence
       /\ opts.min <= opts.max /\ opts.min <= length

(* The prune levels: in a one-step parse every pruning starts from the     *)
(* restored disjuncts, so these are pruned for the current level exactly;  *)
(* otherwise one null count is tried and the first level allows it.  The   *)
(* level needed next is never behind the null count.                       *)
LevelInv ==
  pc \in InLoop =>
    /\ current_prune_level <= MaxSentence /\ needed_prune_level <= MaxSentence
    /\ opts.min <= nl /\ nl <= length + 1
    /\ \/ needed_prune_level > current_prune_level
       \/ current_prune_level = MaxSentence
    /\ current_prune_level = MaxSentence => needed_prune_level = MaxSentence
    /\ more_pruning_possible
         = (OneStepParse /\ current_prune_level \notin {-1, MaxSentence})
    /\ current_prune_level = -1 =>
         pruned = MaxSentence /\ nl = opts.min /\ pc = "loop"
    /\ OneStepParse /\ current_prune_level # -1 => pruned = current_prune_level
    /\ ~OneStepParse =>
         /\ pruned >= MaxNullCount /\ needed_prune_level >= MaxNullCount
         /\ opts.min # MaxNullCount =>
              /\ current_prune_level \in {-1, MaxSentence}
              /\ needed_prune_level = MaxSentence
              /\ pruned = MaxSentence
    /\ pc = "loop" => needed_prune_level >= nl
    /\ ~OneStepParse /\ pc = "loop" /\ nl <= MaxNullCount =>
         pruned = MaxSentence \/ nl = length - 1
    /\ pc # "loop" =>
         /\ nl <= MaxNullCount
         /\ current_prune_level >= nl
         /\ needed_prune_level > nl

(* Which blocks exist and what points to them.                             *)
HeapInv ==
  /\ pc \in {"idle", "deleted", "prepare"} =>
       ts_pruning = "NULL" /\ saved_memblock = "NULL"
  /\ length = 0 => ~pools /\ ~dc_memblock
  /\ pools => pc = "idle" /\ ~dc_memblock
  /\ pc = "prepare" => ~dc_memblock
  /\ lnkages = "live" => dc_memblock
  /\ ts_pruning = "live" => saved_memblock = IF OneStepParse THEN "live" ELSE "NULL"
  /\ ts_pruning = "NULL" => saved_memblock # "live"
  /\ pc = "loop" /\ ts_pruning = "live" /\ ~more_pruning_possible => word_d = "pruning"
  /\ pc = "pack" /\ ts_pruning = "live" => word_d = "pruning"
  /\ pc \in {"count", "extract", "post_process"} /\ ts_pruning = "live" =>
       more_pruning_possible
  /\ pc = "loop" /\ ts_pruning = "NULL" =>
       current_prune_level = MaxSentence \/ nl > MaxNullCount
  /\ pc \in InLoop /\ ts_pruning = "NULL" =>
       ~more_pruning_possible /\ current_prune_level # -1
  /\ pc \in {"count", "extract", "post_process"}
        \/ (pc \in {"loop", "pack"} /\ ts_pruning = "NULL")
      => word_d = "dc" /\ dc_memblock /\ mchxt
  /\ faults = {}

(* The counters and the linkage array.                                     *)
CounterInv ==
  /\ lnkages = "NULL" => alloced = 0
  /\ valid <= post_processed \/ pc = "post_process"
  /\ post_processed <= alloced
  /\ valid <= found \/ pc = "post_process"
  /\ pc \in {"prepare", "loop", "pack", "count", "extract"} => valid = 0
  /\ pc \in {"pack", "count", "extract", "post_process"} => post_processed = 0
  /\ pc = "extract" => lnkages = "NULL" /\ alloced = 0
  /\ pc = "post_process" => lnkages = "live" /\ alloced <= found
  /\ (pc = "loop" /\ current_prune_level # -1) \/ pc = "sort" =>
       (found > 0 \/ post_processed > 0 => lnkages = "live")
  /\ pc = "cleanup" \/ (pc = "idle" /\ ~abandoned) =>
       (post_processed > 0 => lnkages = "live")

IInv == TypeOK /\ CallInv /\ LevelInv /\ HeapInv /\ CounterInv

-----------------------------------------------------------------------------
(* The constants of a call, as the proofs use them.                        *)

(* The null-count range and the linkage limit of a call are natural        *)
(* numbers.                                                                *)
LEMMA OptionsType ==
  ASSUME SentType
  PROVE  opts.min \in Nat /\ opts.max \in Nat /\ opts.limit \in Nat
BY ConstantsAssumption DEF SentType

(* The greatest null count to try is at most the sentence length.          *)
LEMMA MaxNullCountFacts ==
  ASSUME SentType
  PROVE  MaxNullCount \in Nat /\ MaxNullCount <= length
BY OptionsType DEF SentType, MaxNullCount, MIN

(* During a call the range of null counts is not empty.                    *)
LEMMA RangeFacts ==
  ASSUME SentType, CallInv, pc \notin {"idle", "deleted"}
  PROVE  opts.min <= MaxNullCount
BY OptionsType DEF SentType, CallInv, MaxNullCount, MIN

(* The first pruning level is min_null_count or "no limit", and it is "no  *)
(* limit" when the loop has several null counts and nothing is saved for   *)
(* pruning again.                                                          *)
LEMMA LevelFacts ==
  ASSUME SentType, CallInv, pc \notin {"idle", "deleted"}
  PROVE  /\ MaxPruneLevel \in Nat /\ MaxPruneLevel <= MaxNullCount
         /\ FirstPruneLevel \in Nat
         /\ FirstPruneLevel = opts.min \/ FirstPruneLevel = MaxSentence
         /\ ~OneStepParse /\ opts.min # MaxNullCount => FirstPruneLevel = MaxSentence
BY OptionsType, MaxNullCountFacts, RangeFacts, ConstantsAssumption
DEF MaxPruneLevel, FirstPruneLevel, OneStepParse

(* The constants of a call depend on its options and the sentence only.    *)
LEMMA CallConstants ==
  ASSUME opts' = opts, length' = length
  PROVE  MaxNullCount' = MaxNullCount /\ OneStepParse' = OneStepParse
BY DEF MaxNullCount, MIN, OneStepParse, OptimizePruning

(* Pruning, and where the loop goes when it says that nl is too low.       *)

(* Pruning leaves at most all words of the sentence without disjuncts.     *)
LEMMA NullWordsRange ==
  ASSUME SentType, 0 < length, minNulls < length, NEW lev, NEW w \in NullWords(lev)
  PROVE  w \in 0..length
BY DEF SentType, NullWords

(* When pp_and_power_prune() sends the loop on, the next null count is not *)
(* smaller, is below the sentence length, and with optimized pruning is    *)
(* the next one, or the same one if that is length-1.                      *)
LEMMA SkipFacts ==
  ASSUME SentType, LoopType, 0 < length, nl <= length,
         NEW lev \in Nat, NEW w \in 0..length,
         ExpectedNullCount(lev, w) > nl
  PROVE  /\ SkipTo(ExpectedNullCount(lev, w)) \in Nat
         /\ nl <= SkipTo(ExpectedNullCount(lev, w))
         /\ SkipTo(ExpectedNullCount(lev, w)) < length
         /\ lev # MaxSentence => \/ SkipTo(ExpectedNullCount(lev, w)) = nl + 1
                                 \/ /\ SkipTo(ExpectedNullCount(lev, w)) = nl
                                    /\ nl = length - 1
BY DEF SentType, LoopType, ExpectedNullCount, SkipTo

(* do_parse() counts at most MaxFound linkages.                            *)
LEMMA CountsRange == Counts \subseteq 0..MaxFound
BY ConstantsAssumption DEF Counts

(* The loop has no more null counts to try once the pruning block is freed *)
(* without the last pruning having been for any number of nulls.           *)
LEMMA NoMorePruning ==
  ASSUME IInv, pc \in {"count", "post_process"}, ts_pruning = "NULL"
  PROVE  current_prune_level = MaxSentence \/ nl + 1 > MaxNullCount
BY OptionsType, MaxNullCountFacts
DEF IInv, TypeOK, SentType, LoopType, LevelInv, HeapInv, InLoop

-----------------------------------------------------------------------------
(* Every action preserves the invariant.                                   *)

(* sentence_split() preserves the invariant.                               *)
LEMMA SentenceSplitPreserves == IInv /\ SentenceSplit => IInv'
<1> SUFFICES ASSUME IInv, SentenceSplit PROVE IInv' OBVIOUS
<1> USE ConstantsAssumption DEF IInv, TypeOK, SentenceSplit, SplitTo, sentVars, loopVars, countVars, heapVars
<1>f. /\ opts.min \in Nat /\ opts.max \in Nat /\ opts.limit \in Nat
      /\ MaxNullCount \in Nat /\ MaxNullCount <= length
  BY OptionsType, MaxNullCountFacts
<1>1. SentType'
  BY <1>f DEF SentType, Location
<1>2. LoopType'
  BY <1>f DEF SentType, LoopType
<1>3. CountType'
  BY <1>f DEF CountType, SentType
<1>4. HeapType'
  BY <1>f DEF HeapType
<1>5. CallInv'
  BY <1>f DEF SentType, CallInv
<1>6. LevelInv'
  BY <1>f DEF SentType, LoopType, CallInv, LevelInv, InLoop
<1>7. HeapInv'
  BY <1>f DEF SentType, LoopType, HeapType, CallInv, LevelInv, HeapInv, InLoop
<1>8. CounterInv'
  BY <1>f DEF SentType, LoopType, CountType, HeapType, LevelInv, HeapInv, CounterInv, InLoop
<1> QED BY <1>1, <1>2, <1>3, <1>4, <1>5, <1>6, <1>7, <1>8

(* The start of sentence_parse() preserves the invariant.                  *)
LEMMA SentenceParsePreserves == IInv /\ SentenceParse => IInv'
<1> SUFFICES ASSUME IInv, SentenceParse PROVE IInv' OBVIOUS
<1> USE ConstantsAssumption DEF IInv, TypeOK, SentenceParse, SplitTo, FreeSentenceDisjuncts, Dangle, sentVars, loopVars, countVars, heapVars
<1>f. opts.min \in Nat /\ opts.max \in Nat /\ opts.limit \in Nat
  BY OptionsType
<1>1. SentType'
  BY <1>f DEF SentType, Location
<1>2. LoopType'
  BY <1>f DEF SentType, LoopType
<1>3. CountType'
  BY <1>f DEF CountType, SentType
<1>4. HeapType'
  BY <1>f DEF HeapType
<1>5. CallInv'
  BY <1>f DEF SentType, CallInv
<1>6. LevelInv'
  BY <1>f DEF SentType, LoopType, CallInv, LevelInv, InLoop
<1>7. HeapInv'
  <2>1. CASE length = 0
    BY <2>1, <1>f DEF SentType, HeapType, HeapInv, InLoop
  <2>2. CASE length > 0
    BY <2>2, <1>f DEF SentType, HeapType, HeapInv, InLoop
  <2> QED BY <2>1, <2>2 DEF SentType
<1>8. CounterInv'
  BY <1>f DEF SentType, LoopType, CountType, HeapType, LevelInv, HeapInv, CounterInv, InLoop
<1> QED BY <1>1, <1>2, <1>3, <1>4, <1>5, <1>6, <1>7, <1>8

(* sentence_delete() preserves the invariant.                              *)
LEMMA SentenceDeletePreserves == IInv /\ SentenceDelete => IInv'
<1> SUFFICES ASSUME IInv, SentenceDelete PROVE IInv' OBVIOUS
<1> USE ConstantsAssumption DEF IInv, TypeOK, SentenceDelete, LeakIf, sentVars, loopVars, countVars, heapVars
<1>f. /\ opts.min \in Nat /\ opts.max \in Nat /\ opts.limit \in Nat
      /\ MaxNullCount \in Nat /\ MaxNullCount <= length
  BY OptionsType, MaxNullCountFacts
<1>1. SentType'
  BY <1>f DEF SentType, Location
<1>2. LoopType'
  BY <1>f DEF SentType, LoopType
<1>3. CountType'
  BY <1>f DEF CountType, SentType
<1>4. HeapType'
  BY <1>f DEF HeapType
<1>5. CallInv'
  BY <1>f DEF SentType, CallInv
<1>6. LevelInv'
  BY <1>f DEF SentType, LoopType, CallInv, LevelInv, InLoop
<1>7. HeapInv'
  BY <1>f DEF SentType, LoopType, HeapType, CallInv, LevelInv, HeapInv, InLoop
<1>8. CounterInv'
  BY <1>f DEF SentType, LoopType, CountType, HeapType, LevelInv, HeapInv, CounterInv, InLoop
<1> QED BY <1>1, <1>2, <1>3, <1>4, <1>5, <1>6, <1>7, <1>8

(* Building and packing the disjuncts preserves the invariant.             *)
LEMMA PrepareToParsePreserves == IInv /\ PrepareToParse => IInv'
<1> SUFFICES ASSUME IInv, PrepareToParse PROVE IInv' OBVIOUS
<1> USE ConstantsAssumption DEF IInv, TypeOK, PrepareToParse, ResourcesExhausted, LeakIf, Dangle, sentVars, loopVars, countVars, heapVars
<1>f. /\ opts.min \in Nat /\ opts.max \in Nat /\ opts.limit \in Nat
      /\ MaxNullCount \in Nat /\ MaxNullCount <= length
  BY OptionsType, MaxNullCountFacts
<1>g. /\ opts.min <= MaxNullCount
      /\ MaxPruneLevel \in Nat /\ MaxPruneLevel <= MaxNullCount
      /\ FirstPruneLevel \in Nat
      /\ FirstPruneLevel = opts.min \/ FirstPruneLevel = MaxSentence
      /\ ~OneStepParse /\ opts.min # MaxNullCount => FirstPruneLevel = MaxSentence
  BY RangeFacts, LevelFacts
<1>h. MaxNullCount' = MaxNullCount /\ OneStepParse' = OneStepParse
  BY CallConstants
<1>1. SentType'
  BY <1>f, <1>g, <1>h DEF SentType, Location
<1>2. LoopType'
  BY <1>f, <1>g, <1>h DEF SentType, LoopType
<1>3. CountType'
  BY <1>f, <1>g, <1>h DEF CountType, SentType
<1>4. HeapType'
  BY <1>f, <1>g, <1>h DEF HeapType
<1>5. CallInv'
  BY <1>f, <1>g, <1>h DEF SentType, CallInv
<1>6. LevelInv'
  <2>1. CASE pc' = "idle"
    BY <2>1 DEF LevelInv, InLoop
  <2>2. CASE pc' = "loop"
    <3>1. length \in Nat /\ 0 < length /\ length < MaxSentence /\ opts.min <= length
      BY DEF SentType, CallInv
    <3>2. /\ nl' = opts.min /\ current_prune_level' = -1 /\ more_pruning_possible' = FALSE
          /\ needed_prune_level' = FirstPruneLevel /\ pruned' = MaxSentence
          /\ opts' = opts /\ length' = length
      BY <2>2
    <3> HIDE DEF PrepareToParse
    <3>3. more_pruning_possible' = (OneStepParse' /\ -1 \notin {-1, MaxSentence})
      BY <3>2
    <3>4. ~OneStepParse => FirstPruneLevel >= MaxNullCount
      BY <3>1, <1>f, <1>g
    <3>5. FirstPruneLevel >= opts.min /\ FirstPruneLevel <= MaxSentence
      BY <3>1, <1>f, <1>g
    <3>6. MaxSentence # -1
      OBVIOUS
    <3> QED BY <2>2, <3>1, <3>2, <3>3, <3>4, <3>5, <3>6, <1>f, <1>g, <1>h DEF LevelInv
  <2> QED BY <2>1, <2>2
<1>7. HeapInv'
  <2>1. /\ ~dc_memblock /\ ~pools /\ ts_pruning = "NULL" /\ saved_memblock = "NULL"
        /\ 0 < length /\ faults = {} /\ lnkages # "live"
    BY DEF SentType, HeapType, CallInv, HeapInv
  <2>2. CASE pc' = "idle"
    <3>1. /\ UNCHANGED <<dc_memblock, lnkages, ts_pruning, saved_memblock, length>>
          /\ faults' = {}
      BY <2>1, <2>2
    <3> HIDE DEF PrepareToParse
    <3> QED BY <2>1, <2>2, <3>1 DEF HeapInv, InLoop
  <2>3. CASE pc' = "loop"
    <3>1. /\ word_d' = "pruning" /\ ts_pruning' = "live" /\ ~pools' /\ ~dc_memblock'
          /\ lnkages' = lnkages /\ faults' = {} /\ length' = length
          /\ saved_memblock' = IF OneStepParse THEN "live" ELSE "NULL"
      BY <2>1, <2>3
    <3> HIDE DEF PrepareToParse
    <3> QED BY <2>1, <2>3, <3>1, <1>h DEF HeapInv, InLoop
  <2> QED BY <2>2, <2>3
<1>8. CounterInv'
  <2>1. CASE pc' = "idle"
    BY <2>1 DEF CallInv, CountType, CounterInv
  <2>2. CASE pc' = "loop"
    BY <2>2 DEF CountType, HeapType, CounterInv
  <2> QED BY <2>1, <2>2
<1> QED BY <1>1, <1>2, <1>3, <1>4, <1>5, <1>6, <1>7, <1>8

(* A loop iteration that prunes preserves the invariant.                   *)
LEMMA LoopPrunePreserves == IInv /\ LoopPrune => IInv'
<1> SUFFICES ASSUME IInv, LoopPrune PROVE IInv'
  OBVIOUS
<1> DEFINE lev == needed_prune_level
<1> USE ConstantsAssumption DEF IInv, TypeOK
<1>f. /\ opts.min \in Nat /\ opts.max \in Nat /\ opts.limit \in Nat
      /\ MaxNullCount \in Nat /\ MaxNullCount <= length
  BY OptionsType, MaxNullCountFacts
<1>g. /\ opts.min <= MaxNullCount
      /\ MaxPruneLevel \in Nat /\ MaxPruneLevel <= MaxNullCount
  BY RangeFacts, LevelFacts DEF LoopPrune, PruneNeeded
<1>h. UNCHANGED <<opts, length, minNulls, parses, timer_expired, abandoned>>
  BY DEF LoopPrune, sentVars
<1>i. MaxNullCount' = MaxNullCount /\ OneStepParse' = OneStepParse
  BY <1>h, CallConstants
<1>j. /\ pc = "loop" /\ nl <= MaxNullCount /\ lev > current_prune_level
      /\ current_prune_level' = lev
      /\ needed_prune_level' = IF lev < MaxPruneLevel THEN lev + 1 ELSE MaxSentence
      /\ more_pruning_possible' = (OneStepParse /\ lev # MaxSentence)
      /\ zeroRef' \in BOOLEAN
      /\ found' = 0 /\ overflowed' = FALSE /\ valid' = 0 /\ post_processed' = 0
      /\ UNCHANGED <<alloced, pools, dc_memblock, lnkages, ts_pruning,
                     saved_memblock, mchxt, ctxt>>
  BY DEF LoopPrune, PruneNeeded, NeededAfter, ResetCounters
<1>k. /\ 0 < length /\ length < MaxSentence /\ minNulls < length
      /\ length \in Nat /\ minNulls \in Nat /\ nl \in Nat /\ lev \in Nat
      /\ pruned \in Nat /\ MaxSentence \in Nat
      /\ lev <= MaxSentence /\ nl <= lev /\ opts.min <= nl
  BY <1>j DEF SentType, LoopType, CallInv, LevelInv, InLoop
<1>l. more_pruning_possible => saved_memblock = "live"
  BY <1>j DEF LevelInv, HeapInv, HeapType, InLoop
<1>m. Restores = more_pruning_possible
  BY <1>l DEF Restores, LoopType, LevelInv
<1>n. /\ more_pruning_possible = (OneStepParse /\ current_prune_level # -1)
      /\ current_prune_level # MaxSentence
  BY <1>j, <1>k DEF LoopType, LevelInv, InLoop
<1>o. ts_pruning = "live"
  BY <1>f, <1>j, <1>k, <1>n DEF HeapInv, HeapType
<1>p. word_d' = "pruning" /\ faults' = {}
  <2>1. word_d' = IF Restores THEN "pruning" ELSE word_d
    BY DEF LoopPrune
  <2>2. CASE more_pruning_possible
    BY <2>1, <2>2, <1>l, <1>m, <1>o DEF LoopPrune, UseOf, HeapInv
  <2>3. CASE ~more_pruning_possible
    BY <2>1, <2>3, <1>j, <1>m, <1>o DEF LoopPrune, UseOf, HeapInv
  <2> QED BY <2>2, <2>3
<1>q. /\ pruned' \in Nat
      /\ OneStepParse => pruned' = lev
      /\ ~OneStepParse => pruned' = MIN(pruned, lev)
  <2>1. pruned' = MIN(IF Restores THEN MaxSentence ELSE pruned, lev)
    BY DEF LoopPrune
  <2>2. CASE OneStepParse
    <3>1. current_prune_level = -1 => pruned = MaxSentence
      BY <1>j DEF LevelInv, InLoop
    <3>2. pruned' = MIN(MaxSentence, lev)
      BY <2>1, <2>2, <3>1, <1>m, <1>n
    <3> QED BY <3>2, <2>2, <1>k DEF MIN
  <2>3. CASE ~OneStepParse
    BY <2>1, <2>3, <1>m, <1>n, <1>k DEF MIN
  <2> QED BY <2>2, <2>3
<1>r. /\ pc' \in {"loop", "pack"}
      /\ pc' = "pack" => nl' = nl
      /\ pc' = "loop" => nl' < length
      /\ nl' \in Nat /\ nl <= nl' /\ nl' <= length
      /\ lev # MaxSentence => \/ nl' = nl \/ nl' = nl + 1
      /\ lev # MaxSentence /\ pc' = "loop" /\ nl' = nl => nl = length - 1
  <2>1. PICK w \in NullWords(pruned') :
          IF ExpectedNullCount(lev, w) > nl
            THEN nl' = SkipTo(ExpectedNullCount(lev, w)) /\ pc' = "loop"
            ELSE nl' = nl /\ pc' = "pack"
    BY DEF LoopPrune
  <2>2. w \in 0..length
    BY <1>k, NullWordsRange
  <2>3. nl <= length
    BY <1>f, <1>j, <1>k
  <2>4. CASE ExpectedNullCount(lev, w) > nl
    BY <2>1, <2>2, <2>3, <2>4, <1>k, SkipFacts
  <2>5. CASE ~(ExpectedNullCount(lev, w) > nl)
    BY <2>1, <2>3, <2>5, <1>k
  <2> QED BY <2>4, <2>5
<1>1. SentType'
  BY <1>h, <1>r DEF SentType, Location
<1>2. LoopType'
  BY <1>g, <1>j, <1>k, <1>q, <1>r DEF LoopType
<1>3. CountType'
  BY <1>j DEF CountType
<1>4. HeapType'
  BY <1>j, <1>p DEF HeapType
<1>5. CallInv'
  BY <1>h, <1>j, <1>r DEF CallInv
<1>6. LevelInv'
  <2>1. /\ current_prune_level' <= MaxSentence /\ needed_prune_level' <= MaxSentence
        /\ opts.min <= nl' /\ nl' <= length + 1
        /\ \/ needed_prune_level' > current_prune_level'
           \/ current_prune_level' = MaxSentence
        /\ current_prune_level' # -1
    BY <1>f, <1>g, <1>j, <1>k, <1>r
  <2>2. more_pruning_possible'
          = (OneStepParse /\ current_prune_level' \notin {-1, MaxSentence})
    BY <1>j, <1>k
  <2>3. OneStepParse => pruned' = current_prune_level'
    BY <1>j, <1>q
  <2>4. ~OneStepParse =>
          /\ pruned' >= MaxNullCount /\ needed_prune_level' >= MaxNullCount
          /\ opts.min # MaxNullCount =>
               /\ current_prune_level' \in {-1, MaxSentence}
               /\ needed_prune_level' = MaxSentence
               /\ pruned' = MaxSentence
    <3> SUFFICES ASSUME ~OneStepParse
                 PROVE  /\ pruned' >= MaxNullCount /\ needed_prune_level' >= MaxNullCount
                        /\ opts.min # MaxNullCount =>
                             /\ current_prune_level' \in {-1, MaxSentence}
                             /\ needed_prune_level' = MaxSentence
                             /\ pruned' = MaxSentence
      OBVIOUS
    <3>1. /\ pruned >= MaxNullCount /\ lev >= MaxNullCount
          /\ opts.min # MaxNullCount => lev = MaxSentence /\ pruned = MaxSentence
      BY <1>j DEF LevelInv, InLoop
    <3> QED BY <3>1, <1>f, <1>g, <1>j, <1>k, <1>q DEF MIN
  <2>5. pc' = "loop" => needed_prune_level' >= nl'
    BY <1>f, <1>g, <1>j, <1>k, <1>r
  <2>6. ~OneStepParse /\ pc' = "loop" /\ nl' <= MaxNullCount =>
          pruned' = MaxSentence \/ nl' = length - 1
    <3> SUFFICES ASSUME ~OneStepParse, pc' = "loop", nl' <= MaxNullCount
                 PROVE  pruned' = MaxSentence \/ nl' = length - 1
      OBVIOUS
    <3>1. pruned = MaxSentence \/ nl = length - 1
      BY <1>j DEF LevelInv, InLoop
    <3>2. lev >= MaxNullCount
      BY <1>j DEF LevelInv, InLoop
    <3>3. CASE lev = MaxSentence
      BY <3>1, <3>3, <1>f, <1>k, <1>q, <1>r DEF MIN
    <3>4. CASE lev # MaxSentence
      <4>1. opts.min = MaxNullCount
        BY <3>4, <1>j DEF LevelInv, InLoop
      <4>2. nl' = nl
        BY <4>1, <3>4, <1>f, <1>k, <1>r
      <4> QED BY <4>2, <3>4, <1>r
    <3> QED BY <3>3, <3>4
  <2>8. current_prune_level' = MaxSentence => needed_prune_level' = MaxSentence
    BY <1>f, <1>g, <1>j, <1>k
  <2>7. pc' # "loop" => /\ nl' <= MaxNullCount
                        /\ current_prune_level' >= nl'
                        /\ needed_prune_level' > nl'
    BY <1>f, <1>g, <1>j, <1>k, <1>r
  <2> QED BY <2>1, <2>2, <2>3, <2>4, <2>5, <2>6, <2>7, <2>8, <1>h, <1>i DEF LevelInv
<1>7. HeapInv'
  BY <1>h, <1>i, <1>j, <1>k, <1>o, <1>p, <1>r DEF HeapInv, InLoop
<1>8. CounterInv'
  BY <1>j, <1>k, <1>r DEF CounterInv, CountType
<1> QED BY <1>1, <1>2, <1>3, <1>4, <1>5, <1>6, <1>7, <1>8


(* A loop iteration that does not prune preserves the invariant.           *)
LEMMA LoopNoPrunePreserves == IInv /\ LoopNoPrune => IInv'
<1> SUFFICES ASSUME IInv, LoopNoPrune PROVE IInv' OBVIOUS
<1> USE ConstantsAssumption DEF IInv, TypeOK, LoopNoPrune, PruneNeeded, ResetCounters, sentVars, loopVars, countVars, heapVars
<1>f. /\ opts.min \in Nat /\ opts.max \in Nat /\ opts.limit \in Nat
      /\ MaxNullCount \in Nat /\ MaxNullCount <= length
  BY OptionsType, MaxNullCountFacts
<1>g. /\ opts.min <= MaxNullCount
      /\ MaxPruneLevel \in Nat /\ MaxPruneLevel <= MaxNullCount
      /\ FirstPruneLevel \in Nat
      /\ FirstPruneLevel = opts.min \/ FirstPruneLevel = MaxSentence
      /\ ~OneStepParse /\ opts.min # MaxNullCount => FirstPruneLevel = MaxSentence
  BY RangeFacts, LevelFacts
<1>h. MaxNullCount' = MaxNullCount /\ OneStepParse' = OneStepParse
  BY CallConstants
<1>1. SentType'
  BY <1>f, <1>g, <1>h DEF SentType, Location
<1>2. LoopType'
  BY <1>f, <1>g, <1>h DEF SentType, LoopType
<1>3. CountType'
  BY <1>f, <1>g, <1>h DEF CountType, SentType
<1>4. HeapType'
  BY <1>f, <1>g, <1>h DEF HeapType
<1>5. CallInv'
  BY <1>f, <1>g, <1>h DEF SentType, CallInv
<1>6. LevelInv'
  BY <1>f, <1>g, <1>h DEF SentType, LoopType, CallInv, LevelInv, InLoop
<1>7. HeapInv'
  BY <1>f, <1>g, <1>h DEF SentType, LoopType, HeapType, CallInv, LevelInv, HeapInv, InLoop
<1>8. CounterInv'
  BY <1>f, <1>g, <1>h DEF SentType, LoopType, CountType, HeapType, LevelInv, HeapInv, CounterInv, InLoop
<1> QED BY <1>1, <1>2, <1>3, <1>4, <1>5, <1>6, <1>7, <1>8

(* Leaving the loop at its end preserves the invariant.                    *)
LEMMA LoopEndPreserves == IInv /\ LoopEnd => IInv'
<1> SUFFICES ASSUME IInv, LoopEnd PROVE IInv' OBVIOUS
<1> USE ConstantsAssumption DEF IInv, TypeOK, LoopEnd, sentVars, loopVars, countVars, heapVars
<1>f. /\ opts.min \in Nat /\ opts.max \in Nat /\ opts.limit \in Nat
      /\ MaxNullCount \in Nat /\ MaxNullCount <= length
  BY OptionsType, MaxNullCountFacts
<1>g. /\ opts.min <= MaxNullCount
      /\ MaxPruneLevel \in Nat /\ MaxPruneLevel <= MaxNullCount
      /\ FirstPruneLevel \in Nat
      /\ FirstPruneLevel = opts.min \/ FirstPruneLevel = MaxSentence
      /\ ~OneStepParse /\ opts.min # MaxNullCount => FirstPruneLevel = MaxSentence
  BY RangeFacts, LevelFacts
<1>h. MaxNullCount' = MaxNullCount /\ OneStepParse' = OneStepParse
  BY CallConstants
<1>1. SentType'
  BY <1>f, <1>g, <1>h DEF SentType, Location
<1>2. LoopType'
  BY <1>f, <1>g, <1>h DEF SentType, LoopType
<1>3. CountType'
  BY <1>f, <1>g, <1>h DEF CountType, SentType
<1>4. HeapType'
  BY <1>f, <1>g, <1>h DEF HeapType
<1>5. CallInv'
  BY <1>f, <1>g, <1>h DEF SentType, CallInv
<1>6. LevelInv'
  BY <1>f, <1>g, <1>h DEF SentType, LoopType, CallInv, LevelInv, InLoop
<1>7. HeapInv'
  BY <1>f, <1>g, <1>h DEF SentType, LoopType, HeapType, CallInv, LevelInv, HeapInv, InLoop
<1>8. CounterInv'
  BY <1>f, <1>g, <1>h DEF SentType, LoopType, CountType, HeapType, LevelInv, HeapInv, CounterInv, InLoop
<1> QED BY <1>1, <1>2, <1>3, <1>4, <1>5, <1>6, <1>7, <1>8

(* Packing for parsing, with the timeout after it, preserves the           *)
(* invariant.                                                              *)
LEMMA PackForParsingPreserves == IInv /\ PackForParsing => IInv'
<1> SUFFICES ASSUME IInv, PackForParsing PROVE IInv' OBVIOUS
<1> USE ConstantsAssumption DEF IInv, TypeOK, PackForParsing, ResourcesExhausted, Dangle, FreeOf, sentVars, loopVars, countVars, heapVars
<1>f. /\ opts.min \in Nat /\ opts.max \in Nat /\ opts.limit \in Nat
      /\ MaxNullCount \in Nat /\ MaxNullCount <= length
  BY OptionsType, MaxNullCountFacts
<1>g. /\ opts.min <= MaxNullCount
      /\ MaxPruneLevel \in Nat /\ MaxPruneLevel <= MaxNullCount
      /\ FirstPruneLevel \in Nat
      /\ FirstPruneLevel = opts.min \/ FirstPruneLevel = MaxSentence
      /\ ~OneStepParse /\ opts.min # MaxNullCount => FirstPruneLevel = MaxSentence
  BY RangeFacts, LevelFacts
<1>h. MaxNullCount' = MaxNullCount /\ OneStepParse' = OneStepParse
  BY CallConstants
<1>1. SentType'
  BY <1>f, <1>g, <1>h DEF SentType, Location
<1>2. LoopType'
  BY <1>f, <1>g, <1>h DEF SentType, LoopType
<1>3. CountType'
  BY <1>f, <1>g, <1>h DEF CountType, SentType
<1>4. HeapType'
  BY <1>f, <1>g, <1>h DEF HeapType
<1>5. CallInv'
  BY <1>f, <1>g, <1>h DEF SentType, CallInv
<1>6. LevelInv'
  BY <1>f, <1>g, <1>h DEF SentType, LoopType, CallInv, LevelInv, InLoop
<1>a. /\ pc = "pack" /\ ts_pruning = "live" /\ word_d = "pruning" /\ faults = {}
      /\ ~pools /\ (more_pruning_possible => saved_memblock = "live")
      /\ saved_memblock # "freed" /\ 0 < length /\ current_prune_level # -1
  BY DEF SentType, HeapType, CallInv, LevelInv, HeapInv, InLoop
<1>b. /\ pc' \in {"cleanup", "count"} /\ (lnkages' = "NULL" => lnkages = "NULL")
      /\ lnkages' # "live" \/ lnkages' = lnkages
      /\ dc_memblock' = TRUE /\ word_d' = "dc" /\ mchxt' = TRUE
      /\ UNCHANGED <<found, alloced, post_processed, valid, current_prune_level,
                     more_pruning_possible, abandoned, length, pools, nl>>
  OBVIOUS
<1>c. faults' = {}
  BY <1>a
<1>d. IF more_pruning_possible
        THEN UNCHANGED <<ts_pruning, saved_memblock>>
        ELSE ts_pruning' = "NULL" /\ saved_memblock' # "live"
  OBVIOUS
<1> HIDE DEF PackForParsing, Dangle, FreeOf, ResourcesExhausted
<1>7. HeapInv'
  BY <1>a, <1>b, <1>c, <1>d, <1>h DEF HeapInv, InLoop
<1>8. CounterInv'
  BY <1>a, <1>b DEF CounterInv
<1> QED BY <1>1, <1>2, <1>3, <1>4, <1>5, <1>6, <1>7, <1>8

(* Keeping the packed disjuncts preserves the invariant.                   *)
LEMMA KeepPackedPreserves == IInv /\ KeepPacked => IInv'
<1> SUFFICES ASSUME IInv, KeepPacked PROVE IInv' OBVIOUS
<1> USE ConstantsAssumption DEF IInv, TypeOK, KeepPacked, sentVars, loopVars, countVars, heapVars
<1>f. /\ opts.min \in Nat /\ opts.max \in Nat /\ opts.limit \in Nat
      /\ MaxNullCount \in Nat /\ MaxNullCount <= length
  BY OptionsType, MaxNullCountFacts
<1>g. /\ opts.min <= MaxNullCount
      /\ MaxPruneLevel \in Nat /\ MaxPruneLevel <= MaxNullCount
      /\ FirstPruneLevel \in Nat
      /\ FirstPruneLevel = opts.min \/ FirstPruneLevel = MaxSentence
      /\ ~OneStepParse /\ opts.min # MaxNullCount => FirstPruneLevel = MaxSentence
  BY RangeFacts, LevelFacts
<1>h. MaxNullCount' = MaxNullCount /\ OneStepParse' = OneStepParse
  BY CallConstants
<1>1. SentType'
  BY <1>f, <1>g, <1>h DEF SentType, Location
<1>2. LoopType'
  BY <1>f, <1>g, <1>h DEF SentType, LoopType
<1>3. CountType'
  BY <1>f, <1>g, <1>h DEF CountType, SentType
<1>4. HeapType'
  BY <1>f, <1>g, <1>h DEF HeapType
<1>5. CallInv'
  BY <1>f, <1>g, <1>h DEF SentType, CallInv
<1>6. LevelInv'
  BY <1>f, <1>g, <1>h DEF SentType, LoopType, CallInv, LevelInv, InLoop
<1>7. HeapInv'
  BY <1>f, <1>g, <1>h DEF SentType, LoopType, HeapType, CallInv, LevelInv, HeapInv, InLoop
<1>8. CounterInv'
  BY <1>f, <1>g, <1>h DEF SentType, LoopType, CountType, HeapType, LevelInv, HeapInv, CounterInv, InLoop
<1> QED BY <1>1, <1>2, <1>3, <1>4, <1>5, <1>6, <1>7, <1>8

(* Counting, with the timeout after it, preserves the invariant.           *)
LEMMA DoParsePreserves == IInv /\ DoParse => IInv'
<1> SUFFICES ASSUME IInv, DoParse PROVE IInv' OBVIOUS
<1> USE ConstantsAssumption DEF IInv, TypeOK, DoParse, Increment, ResourcesExhausted, FreeLinkages, Counts, sentVars, loopVars, countVars, heapVars
<1>f. /\ opts.min \in Nat /\ opts.max \in Nat /\ opts.limit \in Nat
      /\ MaxNullCount \in Nat /\ MaxNullCount <= length
  BY OptionsType, MaxNullCountFacts
<1>g. /\ opts.min <= MaxNullCount
      /\ MaxPruneLevel \in Nat /\ MaxPruneLevel <= MaxNullCount
      /\ FirstPruneLevel \in Nat
      /\ FirstPruneLevel = opts.min \/ FirstPruneLevel = MaxSentence
      /\ ~OneStepParse /\ opts.min # MaxNullCount => FirstPruneLevel = MaxSentence
  BY RangeFacts, LevelFacts
<1>h. MaxNullCount' = MaxNullCount /\ OneStepParse' = OneStepParse
  BY CallConstants
<1>a. PICK t \in BOOLEAN, n \in Counts :
        \/ t  /\ found' = 0 /\ pc' = "cleanup" /\ nl' = nl
        \/ ~t /\ found' = n
              /\ IF n > 0 THEN pc' = "extract" /\ nl' = nl
                          ELSE pc' = "loop"    /\ nl' = nl + 1
  OBVIOUS
<1>b. n \in Nat
  <2> HIDE DEF DoParse, Counts
  <2> QED BY CountsRange
<1>c. /\ pc = "count" /\ lnkages' = "NULL"
      /\ UNCHANGED <<opts, length, minNulls, parses, abandoned, overflowed,
                     current_prune_level, needed_prune_level, more_pruning_possible,
                     pruned, zeroRef, pools, dc_memblock, word_d, ts_pruning,
                     saved_memblock, mchxt>>
  OBVIOUS
<1>d. /\ pc' \in {"cleanup", "extract", "loop"} /\ found' \in Nat
      /\ pc' = "loop" => nl' = nl + 1 /\ found' = 0
      /\ pc' # "loop" => nl' = nl
      /\ pc' = "extract" => found' > 0
  <2> HIDE DEF DoParse, Counts, FreeLinkages, ResourcesExhausted
  <2> QED BY <1>a, <1>b
<1>e. alloced' = 0 /\ post_processed' = 0 /\ valid' = 0 /\ faults' = {}
  BY DEF CounterInv, HeapInv
<1>i. timer_expired' \in BOOLEAN /\ ctxt' \in BOOLEAN
  OBVIOUS
<1> HIDE DEF DoParse, Counts, FreeLinkages, ResourcesExhausted
<1>1. SentType'
  BY <1>f, <1>g, <1>h, <1>c, <1>d, <1>e, <1>i DEF SentType, Location
<1>2. LoopType'
  BY <1>f, <1>g, <1>h, <1>c, <1>d, <1>e, <1>i DEF SentType, LoopType
<1>3. CountType'
  BY <1>f, <1>g, <1>h, <1>c, <1>d, <1>e, <1>i DEF CountType, SentType
<1>4. HeapType'
  BY <1>f, <1>g, <1>h, <1>c, <1>d, <1>e, <1>i DEF HeapType
<1>5. CallInv'
  BY <1>f, <1>g, <1>h, <1>c, <1>d, <1>e, <1>i DEF SentType, CallInv
<1>6. LevelInv'
  BY <1>f, <1>g, <1>h, <1>c, <1>d, <1>e, <1>i DEF SentType, LoopType, CallInv, LevelInv, InLoop
<1>7. HeapInv'
  <2>1. pc' = "loop" /\ ts_pruning = "NULL" =>
          current_prune_level = MaxSentence \/ nl' > MaxNullCount
    BY NoMorePruning, <1>c, <1>d
  <2>2. current_prune_level # -1
    BY <1>c DEF LevelInv, InLoop
  <2>3. ts_pruning = "live" => more_pruning_possible
    BY <1>c DEF HeapInv, HeapType
  <2> QED BY <2>1, <2>2, <2>3, <1>c, <1>d, <1>e, <1>h DEF HeapInv, InLoop
<1>8. CounterInv'
  BY <1>c, <1>d, <1>e DEF CounterInv
<1> QED BY <1>1, <1>2, <1>3, <1>4, <1>5, <1>6, <1>7, <1>8

(* setup_linkages() and process_linkages() preserve the invariant.         *)
LEMMA ExtractLinkagesPreserves == IInv /\ ExtractLinkages => IInv'
<1> SUFFICES ASSUME IInv, ExtractLinkages PROVE IInv' OBVIOUS
<1> USE ConstantsAssumption DEF IInv, TypeOK, ExtractLinkages, MIN, sentVars, loopVars, countVars, heapVars
<1>f. /\ opts.min \in Nat /\ opts.max \in Nat /\ opts.limit \in Nat
      /\ MaxNullCount \in Nat /\ MaxNullCount <= length
  BY OptionsType, MaxNullCountFacts
<1>g. /\ opts.min <= MaxNullCount
      /\ MaxPruneLevel \in Nat /\ MaxPruneLevel <= MaxNullCount
      /\ FirstPruneLevel \in Nat
      /\ FirstPruneLevel = opts.min \/ FirstPruneLevel = MaxSentence
      /\ ~OneStepParse /\ opts.min # MaxNullCount => FirstPruneLevel = MaxSentence
  BY RangeFacts, LevelFacts
<1>h. MaxNullCount' = MaxNullCount /\ OneStepParse' = OneStepParse
  BY CallConstants
<1>1. SentType'
  BY <1>f, <1>g, <1>h DEF SentType, Location
<1>2. LoopType'
  BY <1>f, <1>g, <1>h DEF SentType, LoopType
<1>3. CountType'
  <2>1. MIN(found, opts.limit) \in Nat
    BY <1>f DEF CountType
  <2>2. /\ alloced' \in 0..(IF found' = 0 THEN 0 ELSE MIN(found, opts.limit))
        /\ found' = (IF lnkages = "NULL" THEN found ELSE 0)
        /\ overflowed' \in BOOLEAN /\ valid' = alloced' /\ post_processed' = post_processed
    OBVIOUS
  <2> HIDE DEF ExtractLinkages, MIN
  <2>3. alloced' \in Nat
    BY <2>1, <2>2
  <2> QED BY <2>2, <2>3 DEF CountType
<1>4. HeapType'
  BY <1>f, <1>g, <1>h DEF HeapType
<1>5. CallInv'
  BY <1>f, <1>g, <1>h DEF SentType, CallInv
<1>6. LevelInv'
  BY <1>f, <1>g, <1>h DEF SentType, LoopType, CallInv, LevelInv, InLoop
<1>7. HeapInv'
  BY <1>f, <1>g, <1>h DEF SentType, LoopType, HeapType, CallInv, LevelInv, HeapInv, InLoop
<1>8. CounterInv'
  BY <1>f, <1>g, <1>h DEF SentType, LoopType, CountType, HeapType, LevelInv, HeapInv, CounterInv, InLoop
<1> QED BY <1>1, <1>2, <1>3, <1>4, <1>5, <1>6, <1>7, <1>8

(* Post-processing, with the timeout after it, preserves the invariant.    *)
LEMMA PostProcessPreserves == IInv /\ PostProcess => IInv'
<1> SUFFICES ASSUME IInv, PostProcess PROVE IInv' OBVIOUS
<1> USE ConstantsAssumption DEF IInv, TypeOK, PostProcess, Increment, ResourcesExhausted, sentVars, loopVars, countVars, heapVars
<1>f. /\ opts.min \in Nat /\ opts.max \in Nat /\ opts.limit \in Nat
      /\ MaxNullCount \in Nat /\ MaxNullCount <= length
  BY OptionsType, MaxNullCountFacts
<1>g. /\ opts.min <= MaxNullCount
      /\ MaxPruneLevel \in Nat /\ MaxPruneLevel <= MaxNullCount
      /\ FirstPruneLevel \in Nat
      /\ FirstPruneLevel = opts.min \/ FirstPruneLevel = MaxSentence
      /\ ~OneStepParse /\ opts.min # MaxNullCount => FirstPruneLevel = MaxSentence
  BY RangeFacts, LevelFacts
<1>h. MaxNullCount' = MaxNullCount /\ OneStepParse' = OneStepParse
  BY CallConstants
<1>1. SentType'
  BY <1>f, <1>g, <1>h DEF SentType, Location
<1>2. LoopType'
  BY <1>f, <1>g, <1>h DEF SentType, LoopType
<1>3. CountType'
  BY <1>f, <1>g, <1>h DEF CountType, SentType
<1>4. HeapType'
  BY <1>f, <1>g, <1>h DEF HeapType
<1>5. CallInv'
  BY <1>f, <1>g, <1>h DEF SentType, CallInv
<1>6. LevelInv'
  BY <1>f, <1>g, <1>h DEF SentType, LoopType, CallInv, LevelInv, InLoop
<1>7. HeapInv'
  <2>1. pc' = "loop" /\ ts_pruning = "NULL" =>
          current_prune_level = MaxSentence \/ nl' > MaxNullCount
    BY NoMorePruning
  <2>2. pc' \in {"cleanup", "sort", "loop"} /\ pc = "post_process"
    OBVIOUS
  <2>3. UNCHANGED <<opts, length, current_prune_level, more_pruning_possible, pools,
                    dc_memblock, word_d, lnkages, ts_pruning, saved_memblock, mchxt, faults>>
    OBVIOUS
  <2>4. current_prune_level # -1
    BY <2>2 DEF LevelInv, InLoop
  <2>5. ts_pruning = "live" => more_pruning_possible
    BY <2>2 DEF HeapInv, HeapType
  <2> HIDE DEF PostProcess
  <2> QED BY <2>1, <2>2, <2>3, <2>4, <2>5, <1>h DEF HeapInv, InLoop
<1>8. CounterInv'
  BY <1>f, <1>g, <1>h DEF SentType, LoopType, CountType, HeapType, LevelInv, HeapInv, CounterInv, InLoop
<1> QED BY <1>1, <1>2, <1>3, <1>4, <1>5, <1>6, <1>7, <1>8

(* Sorting and removing duplicates preserves the invariant.                *)
LEMMA SortLinkagesPreserves == IInv /\ SortLinkages => IInv'
<1> SUFFICES ASSUME IInv, SortLinkages PROVE IInv' OBVIOUS
<1> USE ConstantsAssumption DEF IInv, TypeOK, SortLinkages, Duplicates, UseOf, sentVars, loopVars, countVars, heapVars
<1>f. /\ opts.min \in Nat /\ opts.max \in Nat /\ opts.limit \in Nat
      /\ MaxNullCount \in Nat /\ MaxNullCount <= length
  BY OptionsType, MaxNullCountFacts
<1>g. /\ opts.min <= MaxNullCount
      /\ MaxPruneLevel \in Nat /\ MaxPruneLevel <= MaxNullCount
      /\ FirstPruneLevel \in Nat
      /\ FirstPruneLevel = opts.min \/ FirstPruneLevel = MaxSentence
      /\ ~OneStepParse /\ opts.min # MaxNullCount => FirstPruneLevel = MaxSentence
  BY RangeFacts, LevelFacts
<1>h. MaxNullCount' = MaxNullCount /\ OneStepParse' = OneStepParse
  BY CallConstants
<1>a. PICK dupes \in 0..(IF /\ found > 0 /\ valid >= 2
                            /\ overflowed \/ found > opts.limit
                           THEN valid - 1 ELSE 0) :
        /\ alloced' = alloced - dupes
        /\ valid' = valid - dupes
        /\ post_processed' = post_processed - dupes
  OBVIOUS
<1>b. /\ valid \in Nat /\ post_processed \in Nat /\ alloced \in Nat /\ found \in Nat
      /\ valid <= post_processed /\ post_processed <= alloced /\ valid <= found
      /\ lnkages = "NULL" => alloced = 0
      /\ found > 0 \/ post_processed > 0 => lnkages = "live"
  BY DEF CountType, CounterInv
<1>c. dupes \in Nat /\ (dupes = 0 \/ dupes < valid)
  <2> HIDE DEF SortLinkages
  <2> QED BY <1>b
<1>d. /\ pc = "sort" /\ pc' = "cleanup"
      /\ UNCHANGED <<found, overflowed, pools, dc_memblock, word_d, lnkages, length,
                     ts_pruning, saved_memblock, mchxt, ctxt>>
  OBVIOUS
<1>e. faults' = faults
  <2>1. faults' = faults \cup (IF found = 0 \/ alloced = 0 THEN {} ELSE UseOf(lnkages))
    OBVIOUS
  <2>2. CASE found = 0
    BY <2>1, <2>2
  <2>3. CASE found # 0
    <3>1. lnkages = "live"
      <4> HIDE DEF SortLinkages
      <4> QED BY <2>3, <1>b
    <3> QED BY <2>1, <3>1
  <2> QED BY <2>2, <2>3
<1>1. SentType'
  BY <1>f, <1>g, <1>h DEF SentType, Location
<1>2. LoopType'
  BY <1>f, <1>g, <1>h DEF SentType, LoopType
<1>3. CountType'
  <2> HIDE DEF SortLinkages
  <2>1. overflowed \in BOOLEAN
    BY DEF CountType
  <2> QED BY <2>1, <1>a, <1>b, <1>c, <1>d DEF CountType
<1>4. HeapType'
  BY <1>f, <1>g, <1>h DEF HeapType
<1>5. CallInv'
  BY <1>f, <1>g, <1>h DEF SentType, CallInv
<1>6. LevelInv'
  BY <1>f, <1>g, <1>h DEF SentType, LoopType, CallInv, LevelInv, InLoop
<1>7. HeapInv'
  <2> HIDE DEF SortLinkages
  <2> QED BY <1>d, <1>e, <1>h DEF HeapInv, InLoop
<1>8. CounterInv'
  <2> HIDE DEF SortLinkages
  <2> QED BY <1>a, <1>b, <1>c, <1>d DEF CounterInv
<1> QED BY <1>1, <1>2, <1>3, <1>4, <1>5, <1>6, <1>7, <1>8

(* The cleanup at the end of classic_parse() preserves the invariant.      *)
LEMMA ParseEndCleanupPreserves == IInv /\ ParseEndCleanup => IInv'
<1> SUFFICES ASSUME IInv, ParseEndCleanup PROVE IInv' OBVIOUS
<1> USE ConstantsAssumption DEF IInv, TypeOK, ParseEndCleanup, Dangle, FreeOf, LeakIf, sentVars, loopVars, countVars, heapVars
<1>f. /\ opts.min \in Nat /\ opts.max \in Nat /\ opts.limit \in Nat
      /\ MaxNullCount \in Nat /\ MaxNullCount <= length
  BY OptionsType, MaxNullCountFacts
<1>g. /\ opts.min <= MaxNullCount
      /\ MaxPruneLevel \in Nat /\ MaxPruneLevel <= MaxNullCount
      /\ FirstPruneLevel \in Nat
      /\ FirstPruneLevel = opts.min \/ FirstPruneLevel = MaxSentence
      /\ ~OneStepParse /\ opts.min # MaxNullCount => FirstPruneLevel = MaxSentence
  BY RangeFacts, LevelFacts
<1>h. MaxNullCount' = MaxNullCount /\ OneStepParse' = OneStepParse
  BY CallConstants
<1>1. SentType'
  BY <1>f, <1>g, <1>h DEF SentType, Location
<1>2. LoopType'
  BY <1>f, <1>g, <1>h DEF SentType, LoopType
<1>3. CountType'
  BY <1>f, <1>g, <1>h DEF CountType, SentType
<1>4. HeapType'
  BY <1>f, <1>g, <1>h DEF HeapType
<1>5. CallInv'
  BY <1>f, <1>g, <1>h DEF SentType, CallInv
<1>6. LevelInv'
  BY <1>f, <1>g, <1>h DEF SentType, LoopType, CallInv, LevelInv, InLoop
<1>7. HeapInv'
  BY <1>f, <1>g, <1>h DEF SentType, LoopType, HeapType, CallInv, LevelInv, HeapInv, InLoop
<1>8. CounterInv'
  BY <1>f, <1>g, <1>h DEF SentType, LoopType, CountType, HeapType, LevelInv, HeapInv, CounterInv, InLoop
<1> QED BY <1>1, <1>2, <1>3, <1>4, <1>5, <1>6, <1>7, <1>8
-----------------------------------------------------------------------------
(* A sentence that was just created satisfies the invariant.               *)
LEMMA InitEstablishes == Init => IInv
<1> SUFFICES ASSUME Init PROVE IInv
  OBVIOUS
<1> USE ConstantsAssumption DEF Init
<1>1. SentType /\ LoopType
  BY DEF SentType, LoopType, Location
<1>2. CountType /\ HeapType
  BY DEF CountType, HeapType
<1>3. CallInv /\ LevelInv
  BY DEF CallInv, LevelInv, InLoop
<1>4. HeapInv
  BY DEF HeapInv, InLoop
<1>5. CounterInv
  BY DEF CounterInv
<1> QED BY <1>1, <1>2, <1>3, <1>4, <1>5 DEF IInv, TypeOK

(* A step that changes nothing preserves the invariant.                    *)
LEMMA StutterPreserves == IInv /\ UNCHANGED vars => IInv'
<1> SUFFICES ASSUME IInv, UNCHANGED vars PROVE IInv'
  OBVIOUS
<1>h. MaxNullCount' = MaxNullCount /\ OneStepParse' = OneStepParse
  BY CallConstants DEF vars, sentVars
<1> USE DEF IInv, TypeOK, vars, sentVars, loopVars, countVars, heapVars
<1>1. SentType' /\ LoopType'
  BY DEF SentType, LoopType
<1>2. CountType' /\ HeapType'
  BY DEF CountType, HeapType
<1>3. CallInv'
  BY DEF CallInv
<1>4. LevelInv'
  BY <1>h DEF LevelInv
<1>5. HeapInv'
  BY <1>h DEF HeapInv
<1>6. CounterInv'
  BY DEF CounterInv
<1> QED BY <1>1, <1>2, <1>3, <1>4, <1>5, <1>6

(* The invariant behind the results below holds in every reachable state.  *)
THEOREM Invariance == Spec => []IInv
<1>1. IInv /\ [Next]_vars => IInv'
  BY SentenceSplitPreserves, SentenceParsePreserves, SentenceDeletePreserves,
     PrepareToParsePreserves, LoopPrunePreserves, LoopNoPrunePreserves,
     LoopEndPreserves, PackForParsingPreserves, KeepPackedPreserves,
     DoParsePreserves, ExtractLinkagesPreserves, PostProcessPreserves,
     SortLinkagesPreserves, ParseEndCleanupPreserves, StutterPreserves
  DEF Next, ParseStep
<1> QED BY InitEstablishes, <1>1, PTL DEF Spec

(* The variables of sentence_parse() and classic_parse() keep their types. *)
THEOREM TypeCorrect == Spec => []TypeOK
<1>1. IInv => TypeOK
  BY DEF IInv
<1> QED BY <1>1, Invariance, PTL

(* No disjunct block is used after it is freed, freed twice or lost, for   *)
(* any sequence of calls, options and timeouts.                            *)
THEOREM MemorySafe == Spec => []NoMemoryFault
<1>1. IInv => NoMemoryFault
  BY DEF IInv, HeapInv, NoMemoryFault
<1> QED BY <1>1, Invariance, PTL

(* The pruning level and the null count are in step when do_parse() is     *)
(* called.                                                                 *)
LEMMA PruneLemma == IInv => PruneAllowsParse
<1> SUFFICES ASSUME IInv, pc = "count" PROVE pruned >= nl
  BY DEF PruneAllowsParse
<1>1. SentType /\ LoopType /\ LevelInv
  BY DEF IInv, TypeOK
<1>2. MaxNullCount \in Nat
  BY <1>1, MaxNullCountFacts
<1> QED BY <1>1, <1>2 DEF LoopType, LevelInv, InLoop

(* do_parse() runs only on disjuncts pruned for its null count or more.    *)
THEOREM PruningSound == Spec => []PruneAllowsParse
BY PruneLemma, Invariance, PTL

(* The counters that a client sees between calls agree with each other.    *)
THEOREM CountersConsistent == Spec => []CountersAgree
<1>1. IInv => CountersAgree
  BY DEF IInv, CounterInv, CountersAgree
<1> QED BY <1>1, Invariance, PTL

(* A linkage that linkage_create() accepts has its disjuncts.              *)
THEOREM LinkagesAlive == Spec => []LinkagesUsable
<1>1. IInv => LinkagesUsable
  BY DEF IInv, CounterInv, LinkagesUsable
<1> QED BY <1>1, Invariance, PTL

(* The loop passes the least null count that has a linkage only after      *)
(* post-processing rejected the linkages found there.                      *)
THEOREM NoLinkageSkipped == Spec => SkipsNoLinkage
<1> DEFINE Skip == (nl <= minNulls /\ pc \in {"loop", "pack", "count", "extract"})
                     => nl' <= minNulls
<1>1. IInv /\ [Next]_vars => [Skip]_vars
  <2> SUFFICES ASSUME IInv, Next, nl <= minNulls,
                      pc \in {"loop", "pack", "count", "extract"}
               PROVE  nl' <= minNulls
    BY DEF Skip
  <2> USE DEF IInv, TypeOK
  <2>1. /\ nl \in Nat /\ minNulls \in Nat /\ length \in Nat /\ pruned \in Nat
        /\ needed_prune_level \in Nat /\ MaxSentence \in Nat
        /\ 0 < length /\ length < MaxSentence /\ minNulls < length
        /\ MaxNullCount \in Nat /\ MaxNullCount <= length
    BY MaxNullCountFacts, ConstantsAssumption DEF SentType, LoopType, CallInv
  <2>2. CASE LoopPrune
    <3> DEFINE lev == needed_prune_level
    <3>0. /\ pc = "loop" /\ nl <= MaxNullCount /\ lev > current_prune_level
          /\ pruned' = MIN(IF Restores THEN MaxSentence ELSE pruned, lev)
      BY <2>2 DEF LoopPrune, PruneNeeded
    <3>1. PICK w \in NullWords(pruned') :
            IF ExpectedNullCount(lev, w) > nl
              THEN nl' = SkipTo(ExpectedNullCount(lev, w))
              ELSE nl' = nl
      BY <2>2 DEF LoopPrune
    <3>2. w \in 0..length
      BY <2>1, NullWordsRange
    <3>3. /\ lev >= nl /\ lev <= MaxSentence
          /\ OneStepParse /\ current_prune_level # -1 => more_pruning_possible
          /\ current_prune_level = -1 => pruned = MaxSentence
          /\ ~OneStepParse => /\ pruned >= MaxNullCount /\ lev >= MaxNullCount
                              /\ pruned = MaxSentence \/ nl = length - 1
      <4>1. current_prune_level # MaxSentence
        BY <3>0, <2>1 DEF LevelInv, InLoop, LoopType
      <4>2. OneStepParse /\ current_prune_level # -1 => more_pruning_possible
        BY <4>1, <3>0 DEF LevelInv, InLoop
      <4>3. /\ lev >= nl /\ lev <= MaxSentence
            /\ current_prune_level = -1 => pruned = MaxSentence
        BY <3>0 DEF LevelInv, InLoop
      <4>4. ~OneStepParse => /\ pruned >= MaxNullCount /\ lev >= MaxNullCount
                             /\ pruned = MaxSentence \/ nl = length - 1
        BY <3>0 DEF LevelInv, InLoop
      <4> QED BY <4>2, <4>3, <4>4
    <3>4. more_pruning_possible => Restores
      BY <3>0, <2>1 DEF Restores, HeapInv, HeapType, LevelInv, InLoop, LoopType
    <3>5. OneStepParse => pruned' = lev
      BY <3>0, <3>3, <3>4, <2>1 DEF MIN
    <3>6. ~OneStepParse => \/ pruned' = lev
                           \/ nl = length - 1 /\ pruned' >= MaxNullCount
      BY <3>0, <3>3, <2>1 DEF MIN
    <3>9. pruned' \in Nat
      BY <3>0, <2>1 DEF MIN
    <3>7. CASE pruned' >= minNulls
      <4>1. w <= minNulls \/ minNulls = length - 1
        BY <3>7, <3>9, <2>1 DEF NullWords
      <4>2. CASE ExpectedNullCount(lev, w) > nl
        <5>1. nl' = SkipTo(ExpectedNullCount(lev, w))
          BY <4>2, <3>1
        <5> QED BY <5>1, <4>1, <4>2, <3>2, <2>1 DEF SkipTo, ExpectedNullCount
      <4>3. CASE ~(ExpectedNullCount(lev, w) > nl)
        BY <4>3, <3>1
      <4> QED BY <4>2, <4>3
    <3>8. CASE pruned' < minNulls
      <4>1. lev = pruned' /\ lev # MaxSentence
        BY <3>3, <3>5, <3>6, <3>8, <3>9, <3>0, <2>1
      <4>2. nl < minNulls
        BY <4>1, <3>3, <3>8, <2>1
      <4>3. CASE ExpectedNullCount(lev, w) > nl
        <5>1. nl' = SkipTo(ExpectedNullCount(lev, w))
          BY <4>3, <3>1
        <5> QED BY <5>1, <4>1, <4>2, <4>3, <3>2, <2>1 DEF SkipTo, ExpectedNullCount
      <4>4. CASE ~(ExpectedNullCount(lev, w) > nl)
        BY <4>4, <3>1
      <4> QED BY <4>3, <4>4
    <3> QED BY <3>7, <3>8, <3>9, <2>1
  <2>3. CASE DoParse
    <3>1. pruned >= nl
      BY <2>3, PruneLemma DEF DoParse, Increment, PruneAllowsParse
    <3>2. PICK n \in Counts : nl' = nl \/ (nl' = nl + 1 /\ ~(n > 0))
      BY <2>3 DEF DoParse, Increment
    <3>3. nl = minNulls => n > 0
      BY <3>1, <2>1, ConstantsAssumption DEF Counts
    <3> QED BY <3>2, <3>3, <2>1
  <2>4. CASE LoopNoPrune \/ LoopEnd \/ PackForParsing \/ KeepPacked \/ ExtractLinkages
    BY <2>4 DEF LoopNoPrune, LoopEnd, PackForParsing, KeepPacked, ExtractLinkages, loopVars
  <2>5. CASE SentenceSplit \/ SentenceParse \/ SentenceDelete \/ PrepareToParse
             \/ PostProcess \/ SortLinkages \/ ParseEndCleanup
    BY <2>5 DEF SentenceSplit, SentenceParse, SentenceDelete, PrepareToParse,
                PostProcess, SortLinkages, ParseEndCleanup
  <2> QED BY <2>2, <2>3, <2>4, <2>5 DEF Next, ParseStep
<1> QED BY <1>1, Invariance, PTL DEF Spec, SkipsNoLinkage
=============================================================================
