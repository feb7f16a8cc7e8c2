---------------------------- MODULE SortLinkages ----------------------------
(***************************************************************************)
(* sort_linkages(): qsort() with the comparison function of the cost       *)
(* model, which marks the duplicates it meets, and deduplicate_linkages(), *)
(* which sweeps the marked linkages out of the array.                      *)
(*                                                                         *)
(* A linkage is a record [viol, cost, link_array, num_links, cd]: its      *)
(* post-processing violations, its disjunct cost as a rank (costs that     *)
(* differ by less than COST_EPSILON have the same rank), the link array    *)
(* with what is in it beyond num_links, and the word string of the chosen  *)
(* disjunct of each word, 0 for none.  Names and connectors are numbers in *)
(* the order of strcmp().  The array of linkages is indexed from 0 in the  *)
(* code and from 1 here.  The linkages are not shuffled.                   *)
(***************************************************************************)
EXTENDS Integers, Sequences, FiniteSets, SequencesExt, FiniteSetsExt

CONSTANTS
  Candidates,   \* the linkages that may have been extracted
  MaxAlloced    \* bound on num_linkages_alloced

VARIABLES
  pc,           \* the next step
  random,       \* the linkages were selected at random
  extracted,    \* the linkages, as they were extracted
  runs, out, at,   \* the state of qsort(): sorted runs; the merged part of run "at"
  lnkages,      \* sent->lnkages, sorted
  alloced,      \* sent->num_linkages_alloced
  valid,        \* sent->num_valid_linkages
  i, tgt, blkstart, blklen, num_dupes,   \* the variables of the sweep
  freed         \* the linkages given to free_linkage()

sortVars  == <<runs, out, at>>
sweepVars == <<i, tgt, blkstart, blklen, num_dupes>>
vars == <<pc, random, extracted, sortVars, lnkages, alloced, valid, sweepVars, freed>>

-----------------------------------------------------------------------------

(* linkage_score() *)
UnusedWordCost(l) == Cardinality({w \in DOMAIN l.cd : l.cd[w] = 0})

LinkCost(l) ==
  FoldLeft(LAMBDA n, k : n + (k.rw - k.lw - 1), 0, SubSeq(l.link_array, 1, l.num_links))

(* The first number of a sequence that is not 0, or 0. *)
FirstDifference(s) ==
  LET d == {k \in DOMAIN s : s[k] # 0} IN IF d = {} THEN 0 ELSE s[Min(d)]

(* linkage_equiv_p(): link by link of the first linkage.                   *)
LinkWords(l1, l2) ==
  FlattenSeq([k \in 1..l1.num_links |->
    <<l1.link_array[k].lw - l2.link_array[k].lw, l1.link_array[k].rw - l2.link_array[k].rw>>])

LinkNames(l1, l2) ==
  [k \in 1..l1.num_links |-> l1.link_array[k].name - l2.link_array[k].name]

WordStrings(l1, l2) ==
  [w \in DOMAIN l1.cd |-> IF l1.cd[w] = 0 THEN (IF l2.cd[w] = 0 THEN 0 ELSE 1)
                                          ELSE l1.cd[w] - l2.cd[w]]

Connectors(l1, l2) ==
  FlattenSeq([k \in 1..l1.num_links |->
    <<l1.link_array[k].lc - l2.link_array[k].lc, l1.link_array[k].rc - l2.link_array[k].rc>>])

Equiv(l1, l2) == FirstDifference(LinkWords(l1, l2) \o LinkNames(l1, l2)
                                   \o WordStrings(l1, l2) \o Connectors(l1, l2))

(* VDAL_compare_linkages(); bad linkages are not told apart further.       *)
Costs(l1, l2) ==
  FirstDifference(<<l1.viol - l2.viol,
                    UnusedWordCost(l1) - UnusedWordCost(l2),
                    l1.cost - l2.cost,
                    LinkCost(l1) - LinkCost(l2),
                    Len(l1.cd) - Len(l2.cd)>>)

Compare(l1, l2) ==
  IF Costs(l1, l2) # 0 THEN Costs(l1, l2) ELSE IF l1.viol > 0 THEN 0 ELSE Equiv(l1, l2)

(* The comparison marks its second argument as a duplicate.                *)
Marks(l1, l2) == Compare(l1, l2) = 0 /\ l1.viol = 0

(* What distinguishes two linkages. *)
Value(l) == [links |-> SubSeq(l.link_array, 1, l.num_links), cd |-> l.cd]

(* What qsort() needs of its comparison function, and the sweep of the     *)
(* marks: the comparison orders the linkages, and it finds two valid ones  *)
(* equal if and only if they have the same links and words.  This depends  *)
(* on the linkages, since the comparison looks at the links of its first   *)
(* argument only.                                                          *)
Comparable ==
  /\ \A l \in Candidates : l.viol \in Nat
  /\ \A l1, l2, l3 \in Candidates :
       Compare(l1, l2) <= 0 /\ Compare(l2, l3) <= 0 => Compare(l1, l3) <= 0
  /\ \A l1, l2 \in Candidates :
       /\ Compare(l1, l2) \in Int
       /\ Compare(l1, l2) <= 0 <=> Compare(l2, l1) >= 0
       /\ l1.viol = 0 /\ l2.viol = 0 => (Compare(l1, l2) = 0 <=> Value(l1) = Value(l2))

-----------------------------------------------------------------------------
(* qsort(), as the merge sort of the GNU C library: adjacent runs are      *)
(* merged, here in any order, and the linkage of the left run is the first *)
(* argument of the comparison.                                             *)

Slot(l, n) == [id |-> n, lkg |-> l, dupe |-> FALSE]

Init ==
  /\ pc = "sort" /\ random \in BOOLEAN
  /\ extracted \in UNION {[1..n -> Candidates] : n \in 1..MaxAlloced}
  /\ ~random => \A m, n \in DOMAIN extracted : m # n => Value(extracted[m]) # Value(extracted[n])
  /\ runs = [n \in DOMAIN extracted |-> <<Slot(extracted[n], n)>>]
  /\ out = <<>> /\ at = 0
  /\ lnkages = <<>>
  /\ alloced = Len(extracted)
  /\ valid = Cardinality({n \in DOMAIN extracted : extracted[n].viol = 0})
  /\ i = 1 /\ tgt = 0 /\ blkstart = 0 /\ blklen = 1 /\ num_dupes = 0
  /\ freed = {}

(* The next two runs to merge. *)
StartMerge ==
  /\ pc = "sort" /\ at = 0 /\ Len(runs) > 1
  /\ at' \in 1..(Len(runs) - 1)
  /\ out' = <<>>
  /\ UNCHANGED <<pc, random, extracted, runs, lnkages, alloced, valid, sweepVars, freed>>

(* The linkage of a slot that is compared with one of an earlier run.      *)
Marked(r, l) == [r EXCEPT !.dupe = r.dupe \/ Marks(l.lkg, r.lkg)]

(* One comparison; of two equal linkages the one of the left run goes first. *)
CompareHeads ==
  /\ at # 0 /\ runs[at] # <<>> /\ runs[at + 1] # <<>>
  /\ LET l == Head(runs[at])
         r == Head(runs[at + 1])
     IN  IF Compare(l.lkg, r.lkg) <= 0
           THEN /\ out' = Append(out, l)
                /\ runs' = [runs EXCEPT ![at] = Tail(@), ![at + 1] = <<Marked(r, l)>> \o Tail(@)]
           ELSE /\ out' = Append(out, r)
                /\ runs' = [runs EXCEPT ![at + 1] = Tail(@)]
  /\ UNCHANGED <<pc, random, extracted, at, lnkages, alloced, valid, sweepVars, freed>>

EndMerge ==
  /\ at # 0 /\ (runs[at] = <<>> \/ runs[at + 1] = <<>>)
  /\ runs' = RemoveAt([runs EXCEPT ![at] = out \o @ \o runs[at + 1]], at + 1)
  /\ out' = <<>> /\ at' = 0
  /\ UNCHANGED <<pc, random, extracted, lnkages, alloced, valid, sweepVars, freed>>

(* The array is sorted; deduplicate_linkages() returns at once unless the  *)
(* linkages were selected at random and two of them are valid.             *)
EndSort ==
  /\ pc = "sort" /\ Len(runs) = 1
  /\ lnkages' = runs[1]
  /\ pc' = IF random /\ valid >= 2 THEN "sweep" ELSE "done"
  /\ UNCHANGED <<random, extracted, sortVars, alloced, valid, sweepVars, freed>>

-----------------------------------------------------------------------------
(* The sweep of deduplicate_linkages().                                    *)

(* memmove() of len elements, indexed from 0. *)
Move(a, to, from, len) ==
  [k \in DOMAIN a |-> IF k - 1 \in to..(to + len - 1) THEN a[k - to + from] ELSE a[k]]

KeepLinkage ==
  /\ pc = "sweep" /\ i < valid /\ ~lnkages[i + 1].dupe
  /\ blklen' = blklen + 1
  /\ i' = i + 1
  /\ UNCHANGED <<pc, random, extracted, sortVars, lnkages, alloced, valid,
                 tgt, blkstart, num_dupes, freed>>

(* Mutant: the block starts at the duplicate. *)
StartAtDupe(k) == k

(* Where the next block of linkages to keep may start. *)
NextBlock(k) == k + 1

SweepDupe ==
  /\ pc = "sweep" /\ i < valid /\ lnkages[i + 1].dupe
  /\ freed' = freed \cup {lnkages[i + 1].id}
  /\ num_dupes' = num_dupes + 1
  /\ lnkages' = IF blklen > 0 /\ tgt > 0 THEN Move(lnkages, tgt, blkstart, blklen) ELSE lnkages
  /\ tgt' = tgt + blklen
  /\ blklen' = 0
  /\ blkstart' = NextBlock(i)
  /\ i' = i + 1
  /\ UNCHANGED <<pc, random, extracted, sortVars, alloced, valid>>

(* The final block, with the bad linkages; the totals are adjusted.        *)
EndSweep ==
  /\ pc = "sweep" /\ i = valid
  /\ lnkages' = IF tgt > 0
                  THEN Move(lnkages, tgt, blkstart, blklen + alloced - valid) ELSE lnkages
  /\ alloced' = alloced - num_dupes
  /\ valid' = valid - num_dupes
  /\ pc' = "done"
  /\ UNCHANGED <<random, extracted, sortVars, sweepVars, freed>>

Next == \/ StartMerge \/ CompareHeads \/ EndMerge \/ EndSort
        \/ KeepLinkage \/ SweepDupe \/ EndSweep

Spec == Init /\ [][Next]_vars

-----------------------------------------------------------------------------
Kept == SubSeq(lnkages, 1, alloced)

Valids(s) == {n \in DOMAIN s : s[n].viol = 0}

(* After random selection no valid linkage is in the array twice.          *)
NoDuplicates ==
  pc = "done" => \A m, n \in 1..valid : m # n =>
                   Value(lnkages[m].lkg) # Value(lnkages[n].lkg)

(* Every valid linkage that was extracted is still in the array, or one    *)
(* with the same links and words is.                                       *)
DistinctStay ==
  pc = "done" => \A n \in Valids(extracted) :
                   \E m \in 1..valid : Value(lnkages[m].lkg) = Value(extracted[n])

(* The array that remains has no linkage that was freed, has none twice,   *)
(* and has every other one, the bad ones included: free_linkages() will    *)
(* free each of them once, and none is lost.  The sweep has left no two    *)
(* equal linkages, and one for every linkage it freed.                     *)
SweepExact ==
  /\ pc = "done" =>
       /\ {Kept[n].id : n \in DOMAIN Kept} = DOMAIN extracted \ freed
       /\ \A m, n \in DOMAIN Kept : m # n => Kept[m].id # Kept[n].id
       /\ \A n \in DOMAIN extracted : extracted[n].viol > 0 => n \notin freed
  /\ NoDuplicates
  /\ DistinctStay

=============================================================================
