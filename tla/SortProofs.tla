----------------------------- MODULE SortProofs -----------------------------
(***************************************************************************)
(* The sorting and the sweep of duplicates of sort_linkages() lose no      *)
(* linkage, free none twice and leave none twice, for any number of        *)
(* linkages, in whatever order qsort() merges them, if the comparison is   *)
(* an order (Comparable).                                                  *)
(*                                                                         *)
(* The argument: each run is sorted, and in it a linkage is marked if and  *)
(* only if an equal one stands before it.  This stays so when what has     *)
(* been merged is put before the rest of either run, since the comparison  *)
(* marks the head that stays behind.  So the sorted array has the valid    *)
(* linkages first and, of equal ones, marks all but the first.  The sweep  *)
(* fills the first tgt places with what it keeps of the first blkstart.    *)
(***************************************************************************)
EXTENDS SortLinkages, FiniteSetTheorems, SequenceTheorems, WellFoundedInduction, TLAPS

(* The slots of the array: a linkage keeps the number under which it was   *)
(* extracted.                                                              *)
Slots == {s \in [id : DOMAIN extracted, lkg : Candidates, dupe : BOOLEAN] : s.lkg = extracted[s.id]}

Ids(s)  == {s[n].id : n \in DOMAIN s}
Once(s) == \A m, n \in DOMAIN s : m # n => s[m].id # s[n].id

(* A sequence of slots is sorted, and one is marked if and only if an      *)
(* earlier one is equal to it.                                             *)
Sorted(s) == \A m, n \in DOMAIN s : m < n => Compare(s[m].lkg, s[n].lkg) <= 0
MarkedRight(s) ==
  \A n \in DOMAIN s : s[n].dupe <=> \E m \in DOMAIN s : m < n /\ Marks(s[m].lkg, s[n].lkg)
Good(s) == Sorted(s) /\ MarkedRight(s)

TypeOK ==
  /\ pc \in {"sort", "sweep", "done"} /\ random \in BOOLEAN
  /\ extracted \in Seq(Candidates)
  /\ runs \in Seq(Seq(Slots)) /\ Len(runs) >= 1 /\ out \in Seq(Slots)
  /\ at \in 0..(Len(runs) - 1)
  /\ at = 0 => out = <<>>
  /\ pc # "sort" => Len(runs) = 1

(* Every linkage is in one place. *)
EachOnce ==
  /\ \A k \in DOMAIN runs : Once(runs[k])
  /\ \A k, l \in DOMAIN runs : k # l => Ids(runs[k]) \cap Ids(runs[l]) = {}
  /\ Once(out)
  /\ \A k \in DOMAIN runs : Ids(runs[k]) \cap Ids(out) = {}
  /\ \A n \in DOMAIN extracted : n \in Ids(out) \/ \E k \in DOMAIN runs : n \in Ids(runs[k])

(* The merged part goes before what is left of either run. *)
Ordered ==
  /\ \A k \in DOMAIN runs : k \notin {at, at + 1} => Good(runs[k])
  /\ at # 0 => Good(out \o runs[at]) /\ Good(out \o runs[at + 1])
  /\ at = 0 => \A k \in DOMAIN runs : Good(runs[k])

MergeInv == TypeOK /\ EachOnce /\ Ordered

(* What the linkages are counted and told apart by. *)
Extraction ==
  /\ ~random => \A m, n \in DOMAIN extracted : m # n => Value(extracted[m]) # Value(extracted[n])
  /\ pc # "done" => alloced = Len(extracted) /\ valid = Cardinality(Valids(extracted))
  /\ pc = "sweep" => random

(* The sorted array. *)
Array == runs[1]

(* The first tgt places hold what the sweep keeps of the first blkstart;   *)
(* from there on the array is as it was sorted.                            *)
Swept ==
  /\ pc = "sort" => freed = {} /\ i = 1 /\ tgt = 0 /\ blkstart = 0 /\ blklen = 1 /\ num_dupes = 0
  /\ pc = "sweep" =>
       /\ i \in 1..valid /\ blkstart \in Nat /\ blklen \in Nat /\ tgt \in Nat /\ num_dupes \in Nat
       /\ i = blkstart + blklen /\ tgt = blkstart - num_dupes
       /\ tgt = 0 => blkstart = 0
       /\ freed = {Array[k].id : k \in {n \in 2..i : Array[n].dupe}}
       /\ lnkages \in Seq(Slots) /\ Len(lnkages) = alloced
       /\ \A k \in (blkstart + 1)..alloced : lnkages[k] = Array[k]
       /\ \A k \in (blkstart + 1)..i : Array[k].id \notin freed
       /\ \A m, n \in 1..tgt : m # n => lnkages[m].id # lnkages[n].id
       /\ {lnkages[m] : m \in 1..tgt} = {Array[k] : k \in {n \in 1..blkstart : Array[n].id \notin freed}}

(* What the sweep leaves. *)
Result ==
  pc = "done" =>
    /\ freed = IF random THEN {Array[k].id : k \in {n \in 2..Cardinality(Valids(extracted)) : Array[n].dupe}}
               ELSE {}
    /\ lnkages \in Seq(Slots)
    /\ alloced \in 0..Len(lnkages) /\ valid \in 0..alloced
    /\ \A m, n \in 1..alloced : m # n => lnkages[m].id # lnkages[n].id
    /\ {lnkages[m] : m \in 1..alloced} = {Array[k] : k \in {n \in DOMAIN Array : Array[n].id \notin freed}}
    /\ {lnkages[m] : m \in 1..valid} =
         {Array[k] : k \in {n \in 1..Cardinality(Valids(extracted)) : Array[n].id \notin freed}}

SortInv == MergeInv /\ Extraction /\ Swept /\ Result

-----------------------------------------------------------------------------
(* The comparison. *)

(* The violations are compared before anything else. *)
LEMMA ViolationsFirst ==
  ASSUME NEW l1, NEW l2, l1.viol \in Nat, l2.viol \in Nat, l1.viol # l2.viol
  PROVE  Compare(l1, l2) = l1.viol - l2.viol
  <1> DEFINE s == <<l1.viol - l2.viol, UnusedWordCost(l1) - UnusedWordCost(l2), l1.cost - l2.cost,
                    LinkCost(l1) - LinkCost(l2), Len(l1.cd) - Len(l2.cd)>>
             d == {k \in DOMAIN s : s[k] # 0}
  <1>1. 1 \in d /\ s[1] = l1.viol - l2.viol /\ s[1] # 0
    OBVIOUS
  <1>2. \A k \in d : k \in 1..5
    OBVIOUS
  <1>3. Min(d) = 1
    <2> HIDE DEF d
    <2>1. \A x \in d : (\A y \in d : x <= y) => x = 1
      BY <1>1, <1>2
    <2> QED BY <1>1, <1>2, <2>1 DEF Min
  <1>4. Costs(l1, l2) = IF d = {} THEN 0 ELSE s[Min(d)]
    BY DEF Costs, FirstDifference
  <1>5. Costs(l1, l2) = l1.viol - l2.viol
    <2> HIDE DEF d, s
    <2> QED BY <1>1, <1>3, <1>4
  <1> QED BY <1>5 DEF Compare

(* Of two ordered linkages the first has no more violations.               *)
LEMMA ValidFirst ==
  ASSUME Comparable, NEW l1 \in Candidates, NEW l2 \in Candidates, Compare(l1, l2) <= 0
  PROVE  l1.viol \in Nat /\ l2.viol \in Nat /\ l1.viol <= l2.viol
  BY ViolationsFirst DEF Comparable

(* Marking is an equivalence of valid linkages, compatible with the order. *)
LEMMA MarksFacts ==
  ASSUME Comparable, NEW l1 \in Candidates, NEW l2 \in Candidates
  PROVE  /\ Compare(l1, l2) <= 0 \/ Compare(l2, l1) <= 0
         /\ Marks(l1, l2) => l1.viol = 0 /\ l2.viol = 0 /\ Marks(l2, l1)
         /\ Marks(l1, l2) <=> l1.viol = 0 /\ l2.viol = 0 /\ Compare(l1, l2) <= 0 /\ Compare(l2, l1) <= 0
         /\ l1.viol = 0 /\ l2.viol = 0 => (Marks(l1, l2) <=> Value(l1) = Value(l2))
  <1>1. Compare(l1, l2) \in Int /\ Compare(l2, l1) \in Int /\ l1.viol \in Nat /\ l2.viol \in Nat
    BY DEF Comparable
  <1>2. /\ Compare(l1, l2) <= 0 <=> Compare(l2, l1) >= 0
        /\ Compare(l2, l1) <= 0 <=> Compare(l1, l2) >= 0
    BY DEF Comparable
  <1>3. Compare(l1, l2) = 0 <=> Compare(l2, l1) = 0
    BY <1>1, <1>2
  <1>4. Compare(l1, l2) = 0 => l1.viol = l2.viol
    BY <1>1, ViolationsFirst
  <1>5. l1.viol = 0 /\ l2.viol = 0 => (Compare(l1, l2) = 0 <=> Value(l1) = Value(l2))
    BY DEF Comparable
  <1> QED BY <1>1, <1>2, <1>3, <1>4, <1>5 DEF Marks

(* The order is transitive.                                                *)
LEMMA Transitive ==
  ASSUME Comparable, NEW l1 \in Candidates, NEW l2 \in Candidates, NEW l3 \in Candidates,
         Compare(l1, l2) <= 0, Compare(l2, l3) <= 0
  PROVE  Compare(l1, l3) <= 0
  BY DEF Comparable

-----------------------------------------------------------------------------
(* Sequences of slots. *)

(* Something that is no greater than what follows, put in after the first  *)
(* a places; the comparison marks what follows.                            *)
LEMMA InsertGood ==
  ASSUME Comparable, NEW S, S \subseteq [id : Nat, lkg : Candidates, dupe : BOOLEAN],
         NEW L \in Nat, NEW t \in [1..L -> S], NEW u \in [1..(L + 1) -> S], NEW a \in Nat, a < L,
         \A k \in 1..a : u[k] = t[k],
         \A k \in (a + 2)..L : u[k + 1] = t[k],
         u[a + 2].lkg = t[a + 1].lkg,
         u[a + 2].dupe <=> t[a + 1].dupe \/ Marks(u[a + 1].lkg, t[a + 1].lkg),
         Good(t), Compare(u[a + 1].lkg, t[a + 1].lkg) <= 0,
         \A k \in 1..a : Compare(t[k].lkg, u[a + 1].lkg) <= 0,
         u[a + 1].dupe <=> \E k \in 1..a : Marks(t[k].lkg, u[a + 1].lkg)
  PROVE  Good(u)
  <1>a. DOMAIN t = 1..L /\ DOMAIN u = 1..(L + 1)
    OBVIOUS
  <1>b. \A e \in S : e.lkg \in Candidates
    OBVIOUS
  <1>c. /\ \A k \in 1..L : t[k] \in S
        /\ \A k \in 1..(L + 1) : u[k] \in S
    OBVIOUS
  <1>1. /\ DOMAIN t = 1..L /\ DOMAIN u = 1..(L + 1)
        /\ \A k \in 1..L : t[k].lkg \in Candidates
        /\ \A k \in 1..(L + 1) : u[k].lkg \in Candidates
    BY <1>a, <1>b, <1>c
  <1>2. \A m, n \in 1..L : m < n => Compare(t[m].lkg, t[n].lkg) <= 0
    BY <1>1 DEF Good, Sorted
  <1>3. \A n \in 1..L : Compare(u[a + 1].lkg, t[n].lkg) <= 0 \/ n <= a
    <2> TAKE n \in 1..L
    <2>1. CASE n <= a
      BY <2>1
    <2>2. CASE n = a + 1
      BY <2>2
    <2>3. CASE n > a + 1
      <3>1. Compare(t[a + 1].lkg, t[n].lkg) <= 0 /\ a + 1 \in 1..L /\ a + 1 \in 1..(L + 1)
        BY <1>2, <2>3
      <3> QED BY <1>1, <3>1, Transitive
    <2> QED BY <2>1, <2>2, <2>3
  <1>4. \A k \in (a + 2)..(L + 1) : u[k].lkg = t[k - 1].lkg
    <2> SUFFICES ASSUME NEW k \in (a + 2)..(L + 1), k # a + 2 PROVE u[k].lkg = t[k - 1].lkg
      BY <1>1
    <2>1. k - 1 \in (a + 2)..L
      BY <1>1
    <2> QED BY <2>1
  <1>5. Sorted(u)
    <2> SUFFICES ASSUME NEW m \in 1..(L + 1), NEW n \in 1..(L + 1), m < n
                 PROVE  Compare(u[m].lkg, u[n].lkg) <= 0
      BY <1>1 DEF Sorted
    <2>1. CASE n <= a
      BY <1>1, <1>2, <2>1
    <2>2. CASE n = a + 1
      BY <1>1, <2>2
    <2>3. CASE n > a + 1 /\ m <= a
      BY <1>1, <1>2, <1>4, <2>3
    <2>4. CASE n > a + 1 /\ m = a + 1
      BY <1>1, <1>3, <1>4, <2>4
    <2>5. CASE n > a + 1 /\ m > a + 1
      <3>1. m - 1 \in 1..L /\ n - 1 \in 1..L /\ m - 1 < n - 1
        BY <2>5
      <3>2. u[m].lkg = t[m - 1].lkg /\ u[n].lkg = t[n - 1].lkg
        <4>1. m \in (a + 2)..(L + 1) /\ n \in (a + 2)..(L + 1)
          BY ONLY <2>5, a \in Nat, L \in Nat, m \in 1..(L + 1), n \in 1..(L + 1)
        <4> QED BY ONLY <1>4, <4>1
      <3> QED BY ONLY <1>2, <3>1, <3>2
    <2> QED BY <2>1, <2>2, <2>3, <2>4, <2>5
  <1>6. \A n \in 1..L : t[n].dupe <=> \E m \in 1..L : m < n /\ Marks(t[m].lkg, t[n].lkg)
    BY <1>1 DEF Good, MarkedRight
  <1>7. ASSUME NEW n \in 1..(L + 1)
        PROVE  u[n].dupe <=> \E m \in 1..(L + 1) : m < n /\ Marks(u[m].lkg, u[n].lkg)
    <2>1. CASE n <= a
      <3>1. n \in 1..L /\ u[n] = t[n]
        BY <2>1
      <3>2. \A m : (m \in 1..L /\ m < n) <=> (m \in 1..(L + 1) /\ m < n)
        BY ONLY <2>1, a \in Nat, L \in Nat, a < L, n \in 1..(L + 1)
      <3>3. \A m \in 1..(L + 1) : m < n => u[m] = t[m]
        <4>1. \A m \in 1..(L + 1) : m < n => m \in 1..a
          BY ONLY <2>1, a \in Nat, L \in Nat, n \in 1..(L + 1)
        <4> QED BY ONLY <4>1, \A m \in 1..a : u[m] = t[m]
      <3> QED BY <1>6, <3>1, <3>2, <3>3
    <2>2. CASE n = a + 1
      BY <1>1, <2>2
    <2>3. CASE n = a + 2
      <3>1. t[a + 1].dupe <=> \E m \in 1..a : Marks(t[m].lkg, t[a + 1].lkg)
        BY <1>1, <1>6
      <3>2. \A m \in 1..(L + 1) : m < n <=> m \in 1..a \/ m = a + 1
        BY <2>3
      <3>3. 1..a \subseteq 1..(L + 1) /\ a + 1 \in 1..(L + 1) /\ \A m \in 1..a : u[m] = t[m]
        OBVIOUS
      <3>4. (\E m \in 1..(L + 1) : m < n /\ Marks(u[m].lkg, u[n].lkg))
              <=> (\E m \in 1..a : Marks(t[m].lkg, u[n].lkg)) \/ Marks(u[a + 1].lkg, u[n].lkg)
        BY <3>2, <3>3
      <3> QED BY <2>3, <3>1, <3>4
    <2>4. CASE n > a + 2
      <3> DEFINE k == n - 1
      <3>1. k \in (a + 2)..L /\ u[n] = t[k]
        <4>1. k \in (a + 2)..L /\ k + 1 = n
          BY <1>1, <2>4
        <4> QED BY <4>1
      <3> HIDE DEF k
      <3>2. ASSUME u[n].dupe PROVE \E m \in 1..(L + 1) : m < n /\ Marks(u[m].lkg, u[n].lkg)
        <4>1. PICK m \in 1..L : m < k /\ Marks(t[m].lkg, t[k].lkg)
          BY <1>1, <1>6, <3>1, <3>2
        <4>2. CASE m <= a
          BY <1>1, <3>1, <4>1, <4>2 DEF k
        <4>3. CASE m > a
          <5>1. m + 1 \in (a + 2)..(L + 1) /\ m + 1 < n /\ (m + 1) - 1 = m
            BY <1>1, <4>1, <4>3 DEF k
          <5>2. u[m + 1].lkg = t[m].lkg
            BY <1>4, <5>1
          <5> QED BY <1>1, <3>1, <4>1, <5>1, <5>2
        <4> QED BY <4>2, <4>3
      <3>3. ASSUME NEW m \in 1..(L + 1), m < n, Marks(u[m].lkg, u[n].lkg) PROVE u[n].dupe
        <4>1. CASE m <= a
          <5>1. m \in 1..L /\ m < k /\ u[m] = t[m] /\ k \in 1..L
            BY <3>1, <4>1
          <5> QED BY <1>6, <3>1, <3>3, <5>1
        <4>2. CASE m = a + 1
          <5>1. Marks(t[a + 1].lkg, t[k].lkg)
            <6>1. Compare(u[m].lkg, t[a + 1].lkg) <= 0 /\ Compare(t[a + 1].lkg, t[k].lkg) <= 0
              BY <1>1, <1>2, <3>1, <4>2
            <6>2. Compare(t[k].lkg, u[m].lkg) <= 0 /\ u[m].lkg.viol = 0 /\ t[k].lkg.viol = 0
              BY <1>1, <3>1, <3>3, MarksFacts
            <6>3. Compare(t[k].lkg, t[a + 1].lkg) <= 0
              <7>1. t[k].lkg \in Candidates /\ u[m].lkg \in Candidates /\ t[a + 1].lkg \in Candidates
                BY <1>1, <3>1
              <7> QED BY ONLY Comparable, <6>1, <6>2, <7>1, Transitive
            <6>4. t[a + 1].lkg.viol = 0
              <7>1. /\ t[a + 1].lkg.viol \in Nat
                    /\ t[a + 1].lkg.viol <= t[k].lkg.viol
                <8>1. a + 1 \in 1..L /\ k \in 1..L
                  BY <3>1
                <8>2. t[a + 1].lkg \in Candidates /\ t[k].lkg \in Candidates
                  BY <1>1, <8>1
                <8> QED BY <6>1, <8>2, ValidFirst
              <7> QED BY ONLY <6>2, <7>1
            <6>5. t[a + 1].lkg \in Candidates /\ t[k].lkg \in Candidates
              BY <1>1, <3>1
            <6> QED BY ONLY Comparable, <6>1, <6>2, <6>3, <6>4, <6>5, MarksFacts
          <5>2. a + 1 \in 1..L /\ k \in 1..L /\ a + 1 < k
            BY <3>1
          <5> QED BY ONLY <1>6, <3>1, <5>1, <5>2
        <4>3. CASE m > a + 1
          <5>1. m - 1 \in 1..L /\ m - 1 < k /\ u[m].lkg = t[m - 1].lkg
            BY <1>1, <1>4, <3>3, <4>3 DEF k
          <5> QED BY <1>1, <1>6, <3>1, <3>3, <5>1
        <4> QED BY <4>1, <4>2, <4>3
      <3> QED BY <3>2, <3>3
    <2> QED BY <2>1, <2>2, <2>3, <2>4
  <1> QED BY <1>1, <1>5, <1>7 DEF Good, MarkedRight

(* The linkages of what list operations make.                              *)
LEMMA TailIds ==
  ASSUME NEW S, NEW s \in Seq(S), s # <<>>, Once(s)
  PROVE  /\ s[1] \in S /\ Head(s) = s[1] /\ Tail(s) \in Seq(S)
         /\ Once(Tail(s)) /\ Ids(Tail(s)) = Ids(s) \ {s[1].id} /\ s[1].id \in Ids(s)
  <1>1. Len(s) \in Nat /\ Len(s) >= 1 /\ DOMAIN s = 1..Len(s)
    BY EmptySeq, LenProperties
  <1>2. Tail(s) \in Seq(S) /\ Len(Tail(s)) = Len(s) - 1 /\ \A n \in 1..Len(Tail(s)) : Tail(s)[n] = s[n + 1]
    BY HeadTailProperties
  <1>3. DOMAIN Tail(s) = 1..(Len(s) - 1)
    BY <1>2, LenProperties
  <1>4. s[1] \in S /\ Head(s) = s[1]
    BY <1>1, ElementOfSeq
  <1>5. Once(Tail(s))
    BY <1>1, <1>2, <1>3 DEF Once
  <1>6. ASSUME NEW x PROVE x \in Ids(Tail(s)) <=> x \in Ids(s) /\ x # s[1].id
    <2>1. ASSUME x \in Ids(Tail(s)) PROVE x \in Ids(s) /\ x # s[1].id
      <3>1. PICK n \in 1..(Len(s) - 1) : x = s[n + 1].id
        BY <1>2, <1>3, <2>1 DEF Ids
      <3>2. n + 1 \in 1..Len(s) /\ n + 1 # 1 /\ 1 \in 1..Len(s)
        BY <1>1
      <3> QED BY <1>1, <3>1, <3>2 DEF Ids, Once
    <2>2. ASSUME x \in Ids(s), x # s[1].id PROVE x \in Ids(Tail(s))
      <3>1. PICK n \in 1..Len(s) : x = s[n].id
        BY <1>1, <2>2 DEF Ids
      <3>2. n - 1 \in 1..(Len(s) - 1) /\ (n - 1) + 1 = n
        BY <1>1, <2>2, <3>1
      <3>3. Tail(s)[n - 1] = s[n]
        BY <1>2, <3>2
      <3> QED BY <1>3, <3>1, <3>2, <3>3 DEF Ids
    <2> QED BY <2>1, <2>2
  <1>7. s[1].id \in Ids(s)
    BY <1>1 DEF Ids
  <1> QED BY <1>2, <1>4, <1>5, <1>6, <1>7

(* One list after another, with no linkage in both.                        *)
LEMMA ConcatIds ==
  ASSUME NEW S, NEW s \in Seq(S), NEW t \in Seq(S), Once(s), Once(t), Ids(s) \cap Ids(t) = {}
  PROVE  Once(s \o t) /\ Ids(s \o t) = Ids(s) \cup Ids(t)
  <1>1. /\ Len(s) \in Nat /\ Len(t) \in Nat /\ DOMAIN s = 1..Len(s) /\ DOMAIN t = 1..Len(t)
    BY LenProperties
  <1>2. /\ s \o t \in Seq(S) /\ Len(s \o t) = Len(s) + Len(t)
        /\ \A n \in 1..(Len(s) + Len(t)) : (s \o t)[n] = IF n <= Len(s) THEN s[n] ELSE t[n - Len(s)]
    BY ConcatProperties
  <1> DEFINE u == s \o t
  <1>3. DOMAIN u = 1..(Len(s) + Len(t))
    BY <1>2, LenProperties
  <1>4. /\ \A n \in 1..Len(s) : n \in DOMAIN u /\ u[n] = s[n] /\ s[n].id \in Ids(s)
        /\ \A n \in 1..Len(t) : Len(s) + n \in DOMAIN u /\ u[Len(s) + n] = t[n] /\ t[n].id \in Ids(t)
        /\ \A n \in DOMAIN u : n > Len(s) => n - Len(s) \in 1..Len(t) /\ u[n] = t[n - Len(s)]
                               /\ u[n].id \in Ids(t)
    <2>1. ASSUME NEW n \in 1..Len(s) PROVE n \in DOMAIN u /\ u[n] = s[n] /\ s[n].id \in Ids(s)
      <3>1. n \in DOMAIN u /\ u[n] = s[n]
        BY <1>1, <1>2, <1>3
      <3> QED BY <1>1, <3>1 DEF Ids
    <2>2. ASSUME NEW n \in 1..Len(t)
          PROVE  Len(s) + n \in DOMAIN u /\ u[Len(s) + n] = t[n] /\ t[n].id \in Ids(t)
      <3>1. Len(s) + n \in 1..(Len(s) + Len(t)) /\ ~(Len(s) + n <= Len(s)) /\ (Len(s) + n) - Len(s) = n
        BY <1>1
      <3>2. u[Len(s) + n] = t[n]
        BY <1>2, <3>1
      <3> QED BY <1>1, <1>3, <3>1, <3>2 DEF Ids
    <2>3. ASSUME NEW n \in DOMAIN u, n > Len(s)
          PROVE  n - Len(s) \in 1..Len(t) /\ u[n] = t[n - Len(s)] /\ u[n].id \in Ids(t)
      <3>1. n - Len(s) \in 1..Len(t) /\ n \in 1..(Len(s) + Len(t)) /\ ~(n <= Len(s))
        BY <1>1, <1>3, <2>3
      <3>2. u[n] = t[n - Len(s)]
        BY <1>2, <3>1
      <3> QED BY <1>1, <3>1, <3>2 DEF Ids
    <2> QED BY <2>1, <2>2, <2>3
  <1> HIDE DEF u
  <1>5. Once(u)
    <2> SUFFICES ASSUME NEW m \in DOMAIN u, NEW n \in DOMAIN u, m < n PROVE u[m].id # u[n].id
      BY <1>1, <1>3 DEF Once
    <2>1. CASE n <= Len(s)
      <3>1. m \in 1..Len(s) /\ n \in 1..Len(s)
        BY <1>1, <1>3, <2>1
      <3> QED BY <1>1, <1>4, <3>1 DEF Once
    <2>2. CASE m <= Len(s) /\ n > Len(s)
      BY <1>1, <1>3, <1>4, <2>2
    <2>3. CASE m > Len(s)
      <3>1. /\ m - Len(s) \in 1..Len(t) /\ n - Len(s) \in 1..Len(t) /\ m - Len(s) # n - Len(s)
            /\ u[m] = t[m - Len(s)] /\ u[n] = t[n - Len(s)]
        BY <1>1, <1>3, <1>4, <2>3
      <3> QED BY <1>1, <3>1 DEF Once
    <2> QED BY <1>1, <1>3, <2>1, <2>2, <2>3
  <1>6. ASSUME NEW x \in Ids(u) PROVE x \in Ids(s) \cup Ids(t)
    <2>1. PICK n \in DOMAIN u : x = u[n].id
      BY DEF Ids
    <2>2. CASE n <= Len(s)
      BY <1>1, <1>3, <1>4, <2>1, <2>2
    <2>3. CASE n > Len(s)
      BY <1>4, <2>1, <2>3
    <2> QED BY <1>1, <1>3, <2>2, <2>3
  <1>7. ASSUME NEW x \in Ids(s) PROVE x \in Ids(u)
    <2>1. PICK n \in 1..Len(s) : x = s[n].id
      BY <1>1 DEF Ids
    <2> QED BY <1>4, <2>1 DEF Ids
  <1>8. ASSUME NEW x \in Ids(t) PROVE x \in Ids(u)
    <2>1. PICK n \in 1..Len(t) : x = t[n].id
      BY <1>1 DEF Ids
    <2>2. Len(s) + n \in DOMAIN u /\ u[Len(s) + n].id = x
      BY <1>4, <2>1
    <2> QED BY <2>2 DEF Ids
  <1> QED BY <1>5, <1>6, <1>7, <1>8 DEF u

(* A list with one more linkage.                                           *)
LEMMA AppendIds ==
  ASSUME NEW S, NEW s \in Seq(S), NEW e \in S, Once(s), e.id \notin Ids(s)
  PROVE  Append(s, e) \in Seq(S) /\ Once(Append(s, e)) /\ Ids(Append(s, e)) = Ids(s) \cup {e.id}
  <1>1. <<e>> \in Seq(S) /\ Once(<<e>>) /\ Ids(<<e>>) = {e.id}
    BY DEF Once, Ids
  <1>2. Append(s, e) = s \o <<e>>
    BY AppendIsConcat
  <1>3. Append(s, e) \in Seq(S)
    BY AppendProperties
  <1>4. Once(s \o <<e>>) /\ Ids(s \o <<e>>) = Ids(s) \cup Ids(<<e>>)
    <2> DEFINE f == <<e>>
    <2>1. f \in Seq(S) /\ Once(f) /\ Ids(s) \cap Ids(f) = {}
      BY <1>1
    <2> HIDE DEF f
    <2>2. Once(s \o f) /\ Ids(s \o f) = Ids(s) \cup Ids(f)
      BY <2>1, ConcatIds
    <2> QED BY <2>2 DEF f
  <1> QED BY <1>1, <1>2, <1>3, <1>4

(* Marks do not change which linkages are there.                           *)
LEMMA SameIds ==
  ASSUME NEW s, NEW t, DOMAIN t = DOMAIN s, \A n \in DOMAIN s : t[n].id = s[n].id, Once(s)
  PROVE  Once(t) /\ Ids(t) = Ids(s)
  BY DEF Once, Ids

(* A list without its element k.                                           *)
LEMMA RemoveAtProperties ==
  ASSUME NEW S, NEW s \in Seq(S), NEW k \in 1..Len(s)
  PROVE  /\ RemoveAt(s, k) \in Seq(S) /\ Len(RemoveAt(s, k)) = Len(s) - 1
         /\ \A n \in 1..(Len(s) - 1) : RemoveAt(s, k)[n] = IF n < k THEN s[n] ELSE s[n + 1]
  <1>1. Len(s) \in Nat /\ \A n \in 1..Len(s) : s[n] \in S
    BY LenProperties, ElementOfSeq
  <1> DEFINE a == SubSeq(s, 1, k - 1)
             b == SubSeq(s, k + 1, Len(s))
  <1>2. a \in Seq(S) /\ Len(a) = k - 1 /\ \A n \in 1..(k - 1) : a[n] = s[n]
    <2>1. \A n \in 1..(k - 1) : s[n] \in S
      BY <1>1
    <2>2. /\ a \in Seq(S) /\ Len(a) = (IF 1 <= k - 1 THEN k - 1 - 1 + 1 ELSE 0)
          /\ \A n \in 1..(k - 1 - 1 + 1) : a[n] = s[1 + n - 1]
      BY <1>1, <2>1, SubSeqProperties
    <2> QED BY <1>1, <2>2
  <1>3. b \in Seq(S) /\ Len(b) = Len(s) - k /\ \A n \in 1..(Len(s) - k) : b[n] = s[k + n]
    <2>1. \A n \in (k + 1)..Len(s) : s[n] \in S
      BY <1>1
    <2>2. /\ b \in Seq(S) /\ Len(b) = (IF k + 1 <= Len(s) THEN Len(s) - (k + 1) + 1 ELSE 0)
          /\ \A n \in 1..(Len(s) - (k + 1) + 1) : b[n] = s[k + 1 + n - 1]
      BY <1>1, <2>1, SubSeqProperties
    <2> QED BY <1>1, <2>2
  <1>4. RemoveAt(s, k) = a \o b
    BY DEF RemoveAt
  <1> HIDE DEF a, b
  <1>5. /\ a \o b \in Seq(S) /\ Len(a \o b) = Len(a) + Len(b)
        /\ \A n \in 1..(Len(a) + Len(b)) : (a \o b)[n] = IF n <= Len(a) THEN a[n] ELSE b[n - Len(a)]
    BY <1>2, <1>3, ConcatProperties
  <1>6. ASSUME NEW n \in 1..(Len(s) - 1) PROVE (a \o b)[n] = IF n < k THEN s[n] ELSE s[n + 1]
    <2>0. Len(a) = k - 1 /\ Len(a) + Len(b) = Len(s) - 1
      BY <1>1, <1>2, <1>3
    <2>1. CASE n < k
      BY <1>1, <1>2, <1>5, <2>0, <2>1
    <2>2. CASE ~(n < k)
      <3>1. n - Len(a) \in 1..(Len(s) - k) /\ k + (n - Len(a)) = n + 1 /\ ~(n <= Len(a))
        BY <1>1, <2>0, <2>2
      <3>2. (a \o b)[n] = b[n - Len(a)]
        BY <1>5, <2>0, <3>1
      <3>3. b[n - Len(a)] = s[k + (n - Len(a))]
        BY <1>3, <3>1
      <3> QED BY <2>2, <3>1, <3>2, <3>3
    <2> QED BY <2>1, <2>2
  <1> QED BY <1>1, <1>2, <1>3, <1>4, <1>5, <1>6

(* Where the elements of two lists are when one follows the other.         *)
LEMMA ConcatPlaces ==
  ASSUME NEW S, NEW s \in Seq(S), NEW t \in Seq(S)
  PROVE  /\ s \o t \in [1..(Len(s) + Len(t)) -> S]
         /\ \A n \in 1..(Len(s) + Len(t)) : (s \o t)[n] = IF n <= Len(s) THEN s[n] ELSE t[n - Len(s)]
  <1> DEFINE u == s \o t
  <1>1. /\ u \in Seq(S) /\ Len(u) = Len(s) + Len(t)
        /\ \A n \in 1..(Len(s) + Len(t)) : u[n] = IF n <= Len(s) THEN s[n] ELSE t[n - Len(s)]
    BY ConcatProperties
  <1> HIDE DEF u
  <1>2. u \in [1..(Len(s) + Len(t)) -> S]
    BY <1>1, LenProperties
  <1> QED BY <1>1, <1>2 DEF u

(* Moving the head of a list to the end of the list before it.             *)
LEMMA AppendTail ==
  ASSUME NEW S, NEW s \in Seq(S), NEW t \in Seq(S), t # <<>>
  PROVE  Append(s, Head(t)) \o Tail(t) = s \o t
  <1>1. Head(t) \in S /\ Tail(t) \in Seq(S) /\ t = <<Head(t)>> \o Tail(t)
    <2>1. Head(t) \in S /\ Tail(t) \in Seq(S)
      BY HeadTailProperties
    <2>2. 1 \in 1..Len(t) /\ Len(t) \in 1..Len(t) /\ Len(t) \in Nat
      BY EmptySeq
    <2>3. SubSeq(t, 1, Len(t)) = <<t[1]>> \o SubSeq(t, 1 + 1, Len(t))
      BY <2>2, SubSeqRecursiveFirst
    <2>4. SubSeq(t, 1, Len(t)) = t /\ Tail(t) = SubSeq(t, 2, Len(t))
      BY SubSeqFull, TailIsSubSeq
    <2>5. Head(t) = t[1]
      OBVIOUS
    <2> QED BY <2>1, <2>3, <2>4, <2>5
  <1> DEFINE f == <<Head(t)>>
  <1>2. f \in Seq(S) /\ Append(s, Head(t)) = s \o f
    BY <1>1, AppendIsConcat
  <1> HIDE DEF f
  <1>3. (s \o f) \o Tail(t) = s \o (f \o Tail(t))
    BY ONLY <1>1, <1>2, s \in Seq(S), ConcatAssociative
  <1>4. f \o Tail(t) = t
    BY <1>1 DEF f
  <1> QED BY <1>2, <1>3, <1>4

-----------------------------------------------------------------------------
(* qsort(). *)

(* One linkage goes from the head of run x to the merged part; the head of *)
(* run y may be marked.                                                    *)
LEMMA EmitOnce ==
  ASSUME TypeOK, EachOnce, NEW x \in DOMAIN runs, NEW y \in DOMAIN runs, x # y, runs[x] # <<>>,
         NEW t \in Seq(Slots), DOMAIN t = DOMAIN runs[y],
         \A n \in DOMAIN t : t[n].id = runs[y][n].id,
         at # 0, UNCHANGED <<pc, random, extracted, at>>,
         runs' \in Seq(Seq(Slots)), Len(runs') = Len(runs),
         runs'[x] = Tail(runs[x]), runs'[y] = t,
         \A k \in DOMAIN runs \ {x, y} : runs'[k] = runs[k],
         out' = Append(out, Head(runs[x]))
  PROVE  TypeOK' /\ EachOnce'
  <1> DEFINE e == runs[x][1]
  <1>1. Slots' = Slots
    BY DEF Slots
  <1>2. DOMAIN runs' = DOMAIN runs /\ DOMAIN runs = 1..Len(runs) /\ \A k \in DOMAIN runs : runs[k] \in Seq(Slots)
    <2>1. runs \in Seq(Seq(Slots))
      BY DEF TypeOK
    <2> QED BY <2>1, LenProperties, ElementOfSeq
  <1>3. \A k \in DOMAIN runs : Once(runs[k])
    BY DEF EachOnce
  <1>4. /\ e \in Slots /\ Head(runs[x]) = e /\ Tail(runs[x]) \in Seq(Slots) /\ Once(runs'[x])
        /\ Ids(runs'[x]) = Ids(runs[x]) \ {e.id} /\ e.id \in Ids(runs[x])
    BY <1>2, <1>3, TailIds
  <1> HIDE DEF e
  <1>5. Once(runs'[y]) /\ Ids(runs'[y]) = Ids(runs[y])
    BY <1>3, SameIds
  <1>6. out \in Seq(Slots) /\ Once(out) /\ e.id \notin Ids(out)
    BY <1>4 DEF TypeOK, EachOnce
  <1>7. out' \in Seq(Slots) /\ Once(out') /\ Ids(out') = Ids(out) \cup {e.id}
    BY <1>4, <1>6, AppendIds
  <1>8. TypeOK'
    BY <1>1, <1>7 DEF TypeOK
  <1>9. ASSUME NEW k \in DOMAIN runs
        PROVE  Once(runs'[k]) /\ Ids(runs'[k]) = Ids(runs[k]) \ {e.id}
    <2>1. CASE k = x
      BY <1>4, <2>1
    <2>2. CASE k # x
      <3>1. e.id \notin Ids(runs[k])
        BY <1>4, <2>2 DEF EachOnce
      <3> QED BY <1>3, <1>5, <2>2, <3>1
    <2> QED BY <2>1, <2>2
  <1>10. ASSUME NEW k \in DOMAIN runs, NEW l \in DOMAIN runs, k # l
         PROVE  Ids(runs'[k]) \cap Ids(runs'[l]) = {}
    <2>1. Ids(runs[k]) \cap Ids(runs[l]) = {}
      BY <1>10 DEF EachOnce
    <2>2. Ids(runs'[k]) \subseteq Ids(runs[k]) /\ Ids(runs'[l]) \subseteq Ids(runs[l])
      BY <1>9
    <2> QED BY <2>1, <2>2
  <1>11. \A k \in DOMAIN runs : Ids(runs'[k]) \cap Ids(out') = {}
    BY <1>7, <1>9 DEF EachOnce
  <1>12. \A n \in DOMAIN extracted : n \in Ids(out') \/ \E k \in DOMAIN runs : n \in Ids(runs'[k])
    BY <1>7, <1>9 DEF EachOnce
  <1> QED BY <1>2, <1>7, <1>8, <1>9, <1>10, <1>11, <1>12 DEF EachOnce

(* What is emitted is not greater than the head of the other run, which is *)
(* marked if it is equal.                                                  *)
LEMMA EmitGood ==
  ASSUME Comparable, NEW S, S \subseteq [id : Nat, lkg : Candidates, dupe : BOOLEAN],
         NEW o \in Seq(S), NEW p \in Seq(S), NEW X \in Seq(S), NEW Y \in Seq(S), NEW t \in Seq(S),
         NEW e \in S, Len(p) = Len(o) + 1, p[Len(o) + 1] = e,
         \A n \in 1..Len(o) : p[n] = o[n],
         X # <<>>, Y # <<>>, e = X[1], Len(t) = Len(Y), \A n \in 2..Len(t) : t[n] = Y[n],
         t[1].lkg = Y[1].lkg,
         t[1].dupe <=> Y[1].dupe \/ Marks(e.lkg, Y[1].lkg),
         Compare(e.lkg, Y[1].lkg) <= 0,
         Good(o \o X), Good(o \o Y)
  PROVE  Good(p \o t)
  <1> DEFINE T == o \o Y
             U == p \o t
             Z == o \o X
             a == Len(o)
             L == a + Len(Y)
  <1>5. Len(X) \in Nat \ {0} /\ Len(Y) \in Nat \ {0} /\ a \in Nat
    BY EmptySeq, LenProperties
  <1>9. T \in [1..L -> S] /\ \A n \in 1..L : T[n] = IF n <= a THEN o[n] ELSE Y[n - a]
    BY ONLY ConcatPlaces, o \in Seq(S), Y \in Seq(S), Zenon
  <1>11. U \in [1..(L + 1) -> S] /\ \A n \in 1..(L + 1) : U[n] = IF n <= a + 1 THEN p[n] ELSE t[n - (a + 1)]
    <2>1. Len(p) = a + 1 /\ Len(t) = Len(Y)
      OBVIOUS
    <2>2. (a + 1) + Len(t) = L + 1
      BY <1>5
    <2>3. /\ U \in [1..(Len(p) + Len(t)) -> S]
          /\ \A n \in 1..(Len(p) + Len(t)) : U[n] = IF n <= Len(p) THEN p[n] ELSE t[n - Len(p)]
      BY ONLY ConcatPlaces, p \in Seq(S), t \in Seq(S), Zenon
    <2> HIDE DEF U, L, a
    <2> QED BY ONLY <2>1, <2>2, <2>3, Zenon
  <1>12. Z \in [1..(a + Len(X)) -> S]
         /\ \A n \in 1..(a + Len(X)) : Z[n] = IF n <= a THEN o[n] ELSE X[n - a]
    BY ONLY ConcatPlaces, o \in Seq(S), X \in Seq(S), Zenon
  <1>13. DOMAIN Z = 1..(a + Len(X))
    <2> HIDE DEF Z
    <2> QED BY <1>12
  <1>23. Good(T) /\ Good(Z)
    OBVIOUS
  <1>24. p[a + 1] = e /\ \A n \in 1..a : p[n] = o[n]
    OBVIOUS
  <1> HIDE DEF T, U, Z, a
  <1>14. L \in Nat /\ a < L
    BY <1>5
  <1>15. \A n \in 1..a : U[n] = T[n] /\ Z[n] = T[n]
    <2> TAKE n \in 1..a
    <2>1. n <= a /\ n <= a + 1 /\ n \in 1..L /\ n \in 1..(L + 1) /\ n \in 1..(a + Len(X))
      BY <1>5
    <2>2. U[n] = p[n] /\ T[n] = o[n] /\ Z[n] = o[n]
      BY <1>9, <1>11, <1>12, <2>1
    <2> QED BY <1>24, <2>2
  <1>16. U[a + 1] = e /\ Z[a + 1] = e
    <2>1. a + 1 <= a + 1 /\ ~(a + 1 <= a) /\ a + 1 \in 1..(L + 1) /\ a + 1 \in 1..(a + Len(X)) /\ (a + 1) - a = 1
      BY <1>5
    <2>2. U[a + 1] = p[a + 1]
      BY <1>11, <2>1
    <2>3. Z[a + 1] = X[(a + 1) - a]
      BY <1>12, <2>1
    <2> QED BY <1>24, <2>1, <2>2, <2>3
  <1>17. T[a + 1] = Y[1] /\ U[a + 2] = t[1]
    <2>1. ~(a + 1 <= a) /\ ~(a + 2 <= a + 1) /\ a + 1 \in 1..L /\ a + 2 \in 1..(L + 1) /\ (a + 1) - a = 1
          /\ (a + 2) - (a + 1) = 1
      BY <1>5
    <2>2. T[a + 1] = Y[(a + 1) - a]
      BY ONLY <1>9, <2>1
    <2>3. U[a + 2] = t[(a + 2) - (a + 1)]
      BY ONLY <1>11, <2>1
    <2> QED BY ONLY <2>1, <2>2, <2>3
  <1>18. ASSUME NEW n \in (a + 2)..L PROVE U[n + 1] = T[n]
    <2>1. n - a \in 2..Len(t) /\ n \in 1..L /\ n + 1 \in 1..(L + 1) /\ (n + 1) - (a + 1) = n - a
          /\ ~(n <= a) /\ ~(n + 1 <= a + 1)
      BY ONLY <1>5, <1>14, n \in (a + 2)..L, Len(t) = Len(Y)
    <2>2. T[n] = Y[n - a]
      BY ONLY <1>9, <2>1
    <2>3. U[n + 1] = t[(n + 1) - (a + 1)]
      BY ONLY <1>11, <2>1
    <2> QED BY <2>1, <2>2, <2>3
  <1>19. 1..a \subseteq DOMAIN Z /\ a + 1 \in DOMAIN Z /\ \A n \in DOMAIN Z : n < a + 1 <=> n \in 1..a
    BY ONLY <1>5, <1>13
  <1>20. \A n \in 1..a : Compare(T[n].lkg, e.lkg) <= 0
    BY <1>15, <1>16, <1>19, <1>23 DEF Good, Sorted
  <1>21. e.dupe <=> \E n \in 1..a : Marks(T[n].lkg, e.lkg)
    <2>1. Z[a + 1].dupe <=> \E n \in DOMAIN Z : n < a + 1 /\ Marks(Z[n].lkg, Z[a + 1].lkg)
      BY <1>19, <1>23 DEF Good, MarkedRight
    <2>2. (\E n \in DOMAIN Z : n < a + 1 /\ Marks(Z[n].lkg, Z[a + 1].lkg))
            <=> \E n \in 1..a : Marks(Z[n].lkg, Z[a + 1].lkg)
      BY <1>19
    <2> QED BY <1>15, <1>16, <2>1, <2>2
  <1> HIDE DEF L
  <1>25. /\ \A k \in 1..a : U[k] = T[k]
         /\ \A k \in (a + 2)..L : U[k + 1] = T[k]
         /\ U[a + 2].lkg = T[a + 1].lkg
         /\ U[a + 2].dupe <=> T[a + 1].dupe \/ Marks(U[a + 1].lkg, T[a + 1].lkg)
         /\ Compare(U[a + 1].lkg, T[a + 1].lkg) <= 0
         /\ \A k \in 1..a : Compare(T[k].lkg, U[a + 1].lkg) <= 0
         /\ U[a + 1].dupe <=> \E k \in 1..a : Marks(T[k].lkg, U[a + 1].lkg)
    BY <1>15, <1>16, <1>17, <1>18, <1>20, <1>21
  <1> QED BY <1>5, <1>9, <1>11, <1>14, <1>23, <1>25, InsertGood DEF U

(* After the head of run x has gone to the merged part, this part still    *)
(* goes before either run.                                                 *)
LEMMA EmitOrdered ==
  ASSUME Comparable, TypeOK, TypeOK', Ordered, at # 0, UNCHANGED <<extracted, at>>,
         NEW x \in {at, at + 1}, NEW y \in {at, at + 1}, x # y, runs[x] # <<>>, runs[y] # <<>>,
         Len(runs') = Len(runs), NEW t \in Seq(Slots),
         runs'[x] = Tail(runs[x]), runs'[y] = t,
         \A k \in DOMAIN runs \ {x, y} : runs'[k] = runs[k],
         out' = Append(out, runs[x][1]),
         Len(t) = Len(runs[y]), \A n \in 2..Len(t) : t[n] = runs[y][n],
         t[1].lkg = runs[y][1].lkg,
         t[1].dupe <=> runs[y][1].dupe \/ Marks(runs[x][1].lkg, runs[y][1].lkg),
         Compare(runs[x][1].lkg, runs[y][1].lkg) <= 0
  PROVE  Ordered'
  <1> DEFINE X == runs[x]  Y == runs[y]  e == runs[x][1]
             p == Append(out, e)
  <1>1. runs \in Seq(Seq(Slots)) /\ out \in Seq(Slots) /\ x \in 1..Len(runs) /\ y \in 1..Len(runs)
        /\ Len(runs) \in Nat /\ Len(out) \in Nat
    <2>1. runs \in Seq(Seq(Slots)) /\ out \in Seq(Slots) /\ at \in 0..(Len(runs) - 1)
      BY DEF TypeOK
    <2>2. Len(runs) \in Nat /\ Len(out) \in Nat
      BY <2>1, LenProperties
    <2> QED BY <2>1, <2>2
  <1>2. X \in Seq(Slots) /\ Y \in Seq(Slots) /\ DOMAIN runs = 1..Len(runs)
    BY <1>1, ElementOfSeq, LenProperties
  <1>3. DOMAIN runs' = DOMAIN runs
    <2>1. runs' \in Seq(Seq(Slots'))
      BY DEF TypeOK
    <2> QED BY <1>2, <2>1, LenProperties
  <1>4. Good(out \o X) /\ Good(out \o Y)
    BY DEF Ordered
  <1>5. Len(X) \in Nat \ {0}
    BY <1>1, <1>2, EmptySeq
  <1>6. e \in Slots /\ Head(X) = e
    BY <1>2, <1>5, ElementOfSeq
  <1>7. p \in Seq(Slots) /\ Len(p) = Len(out) + 1 /\ p[Len(out) + 1] = e
        /\ \A n \in 1..Len(out) : p[n] = out[n]
    BY <1>1, <1>6, AppendProperties
  <1>8. p \o Tail(X) = out \o X
    <2>1. X # <<>>
      OBVIOUS
    <2> HIDE DEF X, e
    <2> QED BY <1>1, <1>2, <1>6, <2>1, AppendTail
  <1>9. Slots \subseteq [id : Nat, lkg : Candidates, dupe : BOOLEAN]
    <2>1. extracted \in Seq(Candidates)
      BY DEF TypeOK
    <2>2. DOMAIN extracted \subseteq Nat
      BY <2>1, LenProperties
    <2> QED BY <2>2 DEF Slots
  <1>10. Good(p \o t)
    <2>1. /\ X # <<>> /\ Y # <<>> /\ e = X[1] /\ Len(t) = Len(Y) /\ \A n \in 2..Len(t) : t[n] = Y[n]
          /\ t[1].lkg = Y[1].lkg
          /\ t[1].dupe <=> Y[1].dupe \/ Marks(e.lkg, Y[1].lkg)
          /\ Compare(e.lkg, Y[1].lkg) <= 0
      OBVIOUS
    <2> HIDE DEF X, Y, e, p
    <2> QED BY ONLY Comparable, t \in Seq(Slots), <1>1, <1>2, <1>4, <1>6, <1>7, <1>9, <2>1, EmitGood
  <1>11. out' = p /\ runs'[x] = Tail(X) /\ runs'[y] = t
    OBVIOUS
  <1> HIDE DEF p, X
  <1>12. Good(out' \o runs'[x]) /\ Good(out' \o runs'[y])
    <2>1. Good(p \o Tail(X))
      BY <1>4, <1>8
    <2> QED BY <1>10, <1>11, <2>1
  <1>13. \A k \in DOMAIN runs : k \notin {at, at + 1} => Good(runs'[k])
    BY DEF Ordered
  <1> QED BY <1>3, <1>12, <1>13 DEF Ordered

(* At first each linkage is a run of its own. *)
LEMMA MergeInit == ASSUME MaxAlloced \in Nat, Init PROVE MergeInv
  <1>1. PICK N \in 1..MaxAlloced : extracted \in [1..N -> Candidates]
    BY DEF Init
  <1> DEFINE sl(n) == Slot(extracted[n], n)
  <1>2. /\ runs = [n \in 1..N |-> <<sl(n)>>] /\ pc = "sort" /\ random \in BOOLEAN /\ out = <<>> /\ at = 0
        /\ DOMAIN extracted = 1..N /\ N \in Nat /\ N >= 1
    BY <1>1 DEF Init
  <1>3. \A n \in 1..N : sl(n) \in Slots /\ sl(n).id = n /\ sl(n).dupe = FALSE
    BY <1>1, <1>2 DEF Slots, Slot
  <1> HIDE DEF sl
  <1>4. /\ \A n \in 1..N : runs[n] \in Seq(Slots) /\ DOMAIN runs[n] = {1} /\ runs[n][1] = sl(n)
        /\ DOMAIN runs = 1..N
    <2>1. DOMAIN runs = 1..N /\ \A n \in 1..N : runs[n] = <<sl(n)>>
      BY <1>2
    <2>2. ASSUME NEW n \in 1..N PROVE runs[n] \in Seq(Slots) /\ DOMAIN runs[n] = {1} /\ runs[n][1] = sl(n)
      <3>1. sl(n) \in Slots /\ runs[n] = <<sl(n)>>
        BY <1>3, <2>1
      <3> QED BY <3>1
    <2> QED BY <2>1, <2>2
  <1>5. runs \in Seq(Seq(Slots)) /\ Len(runs) = N
    <2>1. runs \in [1..N -> Seq(Slots)]
      BY <1>2, <1>4
    <2> QED BY <1>2, <2>1
  <1>6. extracted \in Seq(Candidates) /\ out \in Seq(Slots) /\ Ids(out) = {} /\ Once(out)
    BY <1>1, <1>2 DEF Ids, Once
  <1>7. TypeOK
    BY <1>2, <1>5, <1>6 DEF TypeOK
  <1>8. \A n \in 1..N : Once(runs[n]) /\ Ids(runs[n]) = {n} /\ Good(runs[n])
    BY <1>3, <1>4 DEF Once, Ids, Good, Sorted, MarkedRight
  <1>9. EachOnce
    BY <1>2, <1>4, <1>6, <1>8 DEF EachOnce
  <1>10. Ordered
    BY <1>2, <1>4, <1>8 DEF Ordered
  <1> QED BY <1>7, <1>9, <1>10 DEF MergeInv

(* StartMerge only chooses the runs to merge. *)
LEMMA MergeStart == ASSUME MergeInv, StartMerge PROVE MergeInv'
  <1>1. /\ at = 0 /\ at' \in 1..(Len(runs) - 1) /\ out' = <<>> /\ out = <<>>
        /\ runs' = runs /\ extracted' = extracted /\ pc' = pc /\ random' = random /\ pc = "sort"
    BY DEF StartMerge, MergeInv, TypeOK
  <1>2. Slots' = Slots
    BY <1>1 DEF Slots
  <1>3. TypeOK'
    <2>1. /\ extracted \in Seq(Candidates) /\ runs \in Seq(Seq(Slots)) /\ Len(runs) >= 1 /\ out \in Seq(Slots)
          /\ random \in BOOLEAN
      BY DEF MergeInv, TypeOK
    <2>2. at' \in 0..(Len(runs) - 1) /\ at' # 0
      BY <1>1, <2>1
    <2> QED BY <1>1, <1>2, <2>1, <2>2 DEF TypeOK
  <1>4. EachOnce'
    BY <1>1 DEF MergeInv, EachOnce
  <1>5. runs \in Seq(Seq(Slots)) /\ DOMAIN runs = 1..Len(runs) /\ Len(runs) \in Nat
    BY LenProperties DEF MergeInv, TypeOK
  <1>6. \A k \in DOMAIN runs : Good(runs[k]) /\ out' \o runs[k] = runs[k]
    <2>1. \A k \in DOMAIN runs : Good(runs[k]) /\ runs[k] \in Seq(Slots)
      BY <1>1, <1>5, ElementOfSeq DEF MergeInv, Ordered
    <2>2. \A k \in DOMAIN runs : <<>> \o runs[k] = runs[k]
      BY <2>1, ConcatEmptySeq
    <2> QED BY <1>1, <2>1, <2>2
  <1>7. at' # 0 /\ at' \in DOMAIN runs /\ at' + 1 \in DOMAIN runs
    <2>1. \A b \in 1..(Len(runs) - 1) : b # 0 /\ b \in 1..Len(runs) /\ b + 1 \in 1..Len(runs)
      BY <1>5
    <2> QED BY <1>1, <1>5, <2>1
  <1>8. Ordered'
    BY <1>1, <1>6, <1>7 DEF Ordered
  <1> QED BY <1>3, <1>4, <1>8 DEF MergeInv

(* Nothing moves as long as the runs stay. *)
LEMMA MergeStays ==
  ASSUME MergeInv, UNCHANGED <<random, extracted, runs, out, at>>, pc' \in {"sort", "sweep", "done"},
         pc' # "sort" => Len(runs) = 1
  PROVE  MergeInv'
  <1>1. Slots' = Slots
    BY DEF Slots
  <1>2. TypeOK'
    BY <1>1 DEF MergeInv, TypeOK
  <1>3. EachOnce' /\ Ordered'
    BY DEF MergeInv, EachOnce, Ordered
  <1> QED BY <1>2, <1>3 DEF MergeInv

(* CompareHeads emits the smaller head, the left one of two equal ones.    *)
LEMMA MergeCompare == ASSUME Comparable, MergeInv, CompareHeads PROVE MergeInv'
  <1> DEFINE L == runs[at]
             R == runs[at + 1]
             l == Head(L)
             r == Head(R)
             m == <<Marked(r, l)>> \o Tail(R)
  <1>1. /\ runs \in Seq(Seq(Slots)) /\ out \in Seq(Slots) /\ at \in 1..(Len(runs) - 1) /\ at # 0
        /\ Len(runs) \in Nat /\ at \in DOMAIN runs /\ at + 1 \in DOMAIN runs /\ at # at + 1
        /\ DOMAIN runs = 1..Len(runs)
    <2>1. /\ runs \in Seq(Seq(Slots)) /\ out \in Seq(Slots) /\ at \in 0..(Len(runs) - 1) /\ at # 0
      BY DEF MergeInv, TypeOK, CompareHeads
    <2>2. Len(runs) \in Nat /\ DOMAIN runs = 1..Len(runs)
      BY <2>1, LenProperties
    <2> QED BY <2>1, <2>2
  <1>2. UNCHANGED <<pc, random, extracted, at>> /\ L # <<>> /\ R # <<>>
    BY DEF CompareHeads
  <1>3. L \in Seq(Slots) /\ R \in Seq(Slots)
    BY <1>1, ElementOfSeq
  <1>4. /\ l = L[1] /\ r = R[1] /\ l \in Slots /\ r \in Slots /\ Tail(L) \in Seq(Slots) /\ Tail(R) \in Seq(Slots)
        /\ l.lkg \in Candidates /\ r.lkg \in Candidates
    <2> HIDE DEF L, R
    <2>1. l = L[1] /\ r = R[1] /\ Tail(L) \in Seq(Slots) /\ Tail(R) \in Seq(Slots) /\ l \in Slots /\ r \in Slots
      BY <1>2, <1>3, HeadTailProperties
    <2> QED BY <2>1 DEF Slots
  <1>5. /\ Marked(r, l) \in Slots /\ Marked(r, l).id = r.id /\ Marked(r, l).lkg = r.lkg
        /\ Marked(r, l).dupe <=> r.dupe \/ Marks(l.lkg, r.lkg)
    <2> HIDE DEF r, l
    <2> QED BY <1>4 DEF Slots, Marked, Marks
  <1>6. /\ m \in Seq(Slots) /\ Len(m) = Len(R) /\ DOMAIN m = DOMAIN R
        /\ m[1] = Marked(r, l) /\ \A n \in 2..Len(R) : m[n] = R[n]
    <2> DEFINE f == <<Marked(r, l)>>
               q == Tail(R)
    <2>1. f \in Seq(Slots) /\ Len(f) = 1 /\ f[1] = Marked(r, l)
      BY <1>5
    <2>2. q \in Seq(Slots) /\ Len(q) = Len(R) - 1 /\ \A n \in 1..Len(q) : q[n] = R[n + 1]
      <3> HIDE DEF R
      <3> QED BY <1>2, <1>3, HeadTailProperties
    <2>3. Len(R) \in Nat \ {0} /\ DOMAIN R = 1..Len(R)
      <3> HIDE DEF R
      <3> QED BY <1>2, <1>3, EmptySeq, LenProperties
    <2> HIDE DEF f, q, R, r, l
    <2>4. f \o q \in Seq(Slots) /\ Len(f \o q) = Len(f) + Len(q)
          /\ \A n \in 1..(Len(f) + Len(q)) : (f \o q)[n] = IF n <= Len(f) THEN f[n] ELSE q[n - Len(f)]
      <3>1. f \in Seq(Slots) /\ q \in Seq(Slots)
        BY <2>1, <2>2
      <3> QED BY ONLY <3>1, ConcatProperties, Zenon
    <2>5. Len(f) + Len(q) = Len(R)
      BY <2>1, <2>2, <2>3
    <2>6. DOMAIN (f \o q) = DOMAIN R
      BY <2>3, <2>4, <2>5, LenProperties
    <2>7. (f \o q)[1] = Marked(r, l)
      <3>1. 1 \in 1..(Len(f) + Len(q)) /\ 1 <= Len(f)
        BY <2>1, <2>3, <2>5
      <3> QED BY <2>1, <2>4, <3>1
    <2>8. ASSUME NEW n \in 2..Len(R) PROVE (f \o q)[n] = R[n]
      <3>1. n \in 1..(Len(f) + Len(q)) /\ ~(n <= Len(f)) /\ n - Len(f) \in 1..Len(q) /\ (n - Len(f)) + 1 = n
        BY <2>1, <2>2, <2>3, <2>5
      <3>2. (f \o q)[n] = q[n - Len(f)] /\ q[n - Len(f)] = R[(n - Len(f)) + 1]
        BY <2>2, <2>4, <3>1
      <3> QED BY <3>1, <3>2
    <2> QED BY <2>4, <2>5, <2>6, <2>7, <2>8 DEF f, q
  <1>7. CASE Compare(l.lkg, r.lkg) <= 0
    <2>1. out' = Append(out, l) /\ runs' = [runs EXCEPT ![at] = Tail(L), ![at + 1] = m]
      BY <1>7 DEF CompareHeads
    <2> HIDE DEF m, l, r
    <2>2. /\ runs' \in Seq(Seq(Slots)) /\ Len(runs') = Len(runs)
          /\ runs'[at] = Tail(L) /\ runs'[at + 1] = m /\ \A k \in DOMAIN runs \ {at, at + 1} : runs'[k] = runs[k]
      <3> DEFINE t == Tail(L)
      <3>1. t \in Seq(Slots) /\ m \in Seq(Slots)
        BY <1>4, <1>6
      <3>2. runs' = [runs EXCEPT ![at] = t, ![at + 1] = m]
        BY <2>1
      <3> HIDE DEF t, L, R
      <3> DEFINE q == [runs EXCEPT ![at] = t, ![at + 1] = m]
      <3>3. q \in Seq(Seq(Slots)) /\ Len(q) = Len(runs) /\ q[at] = t /\ q[at + 1] = m
            /\ \A k \in DOMAIN runs \ {at, at + 1} : q[k] = runs[k]
        BY <1>1, <3>1
      <3> QED BY <3>2, <3>3 DEF t
    <2>3. TypeOK' /\ EachOnce'
      <3>1. \A n \in DOMAIN m : m[n].id = R[n].id
        <4>1. DOMAIN m = 1..Len(R)
          <5> HIDE DEF R
          <5> QED BY <1>3, <1>6, LenProperties
        <4>2. \A n \in 1..Len(R) : n = 1 \/ n \in 2..Len(R)
          OBVIOUS
        <4> QED BY <1>4, <1>5, <1>6, <4>1, <4>2
      <3>2. TypeOK /\ EachOnce /\ out' = Append(out, Head(runs[at]))
        BY <2>1 DEF MergeInv, l
      <3> QED BY <1>1, <1>2, <1>6, <2>2, <3>1, <3>2, EmitOnce
    <2>4. Ordered'
      <3>1. /\ Ordered /\ TypeOK /\ out' = Append(out, runs[at][1])
            /\ Compare(runs[at][1].lkg, runs[at + 1][1].lkg) <= 0
            /\ m[1].lkg = runs[at + 1][1].lkg
            /\ m[1].dupe <=> runs[at + 1][1].dupe \/ Marks(runs[at][1].lkg, runs[at + 1][1].lkg)
        BY <1>4, <1>5, <1>6, <1>7, <2>1 DEF MergeInv
      <3>2. /\ \A n \in 2..Len(m) : m[n] = runs[at + 1][n]
            /\ Len(m) = Len(runs[at + 1]) /\ m \in Seq(Slots) /\ at \in {at, at + 1} /\ at + 1 \in {at, at + 1}
            /\ \A k \in DOMAIN runs \ {at, at + 1} : runs'[k] = runs[k]
        BY <1>6, <2>2
      <3> QED BY <1>1, <1>2, <2>2, <2>3, <3>1, <3>2, EmitOrdered
    <2> QED BY <2>3, <2>4 DEF MergeInv
  <1>8. CASE ~(Compare(l.lkg, r.lkg) <= 0)
    <2>1. out' = Append(out, r) /\ runs' = [runs EXCEPT ![at + 1] = Tail(R)]
      BY <1>8 DEF CompareHeads
    <2>0. Compare(r.lkg, l.lkg) <= 0 /\ ~Marks(r.lkg, l.lkg)
      <3> HIDE DEF l, r
      <3> QED BY <1>4, <1>8, MarksFacts
    <2> HIDE DEF m, l, r
    <2>2. /\ runs' \in Seq(Seq(Slots)) /\ Len(runs') = Len(runs)
          /\ runs'[at + 1] = Tail(R) /\ runs'[at] = L /\ \A k \in DOMAIN runs \ {at + 1, at} : runs'[k] = runs[k]
      <3> DEFINE t == Tail(R)
      <3>1. t \in Seq(Slots)
        BY <1>4
      <3>2. runs' = [runs EXCEPT ![at + 1] = t]
        BY <2>1
      <3> HIDE DEF t, R
      <3> DEFINE q == [runs EXCEPT ![at + 1] = t]
      <3>3. q \in Seq(Seq(Slots)) /\ Len(q) = Len(runs) /\ q[at + 1] = t /\ q[at] = L
            /\ \A k \in DOMAIN runs \ {at + 1, at} : q[k] = runs[k]
        BY <1>1, <3>1
      <3> QED BY <3>2, <3>3 DEF t
    <2>3. TypeOK' /\ EachOnce'
      <3>1. TypeOK /\ EachOnce /\ out' = Append(out, Head(runs[at + 1]))
        BY <2>1 DEF MergeInv, r
      <3> QED BY <1>1, <1>2, <1>3, <2>2, <3>1, EmitOnce
    <2>4. Ordered'
      <3>1. /\ Ordered /\ TypeOK /\ out' = Append(out, runs[at + 1][1])
            /\ Compare(runs[at + 1][1].lkg, runs[at][1].lkg) <= 0
            /\ L[1].dupe <=> runs[at][1].dupe \/ Marks(runs[at + 1][1].lkg, runs[at][1].lkg)
        BY <1>4, <2>0, <2>1 DEF MergeInv
      <3>2. /\ \A k \in DOMAIN runs \ {at + 1, at} : runs'[k] = runs[k]
            /\ at \in {at, at + 1} /\ at + 1 \in {at, at + 1}
        BY <2>2
      <3> QED BY <1>1, <1>2, <1>3, <2>2, <2>3, <3>1, <3>2, EmitOrdered
    <2> QED BY <2>3, <2>4 DEF MergeInv
  <1> QED BY <1>7, <1>8

(* EndMerge leaves one run in the place of two. *)
LEMMA MergeEnd == ASSUME MergeInv, EndMerge PROVE MergeInv'
  <1> DEFINE L == runs[at]
             R == runs[at + 1]
             Z == out \o L \o R
             q == [runs EXCEPT ![at] = Z]
             from(k) == IF k <= at THEN k ELSE k + 1
  <1>1. /\ runs \in Seq(Seq(Slots)) /\ out \in Seq(Slots) /\ at \in 1..(Len(runs) - 1) /\ at # 0
        /\ Len(runs) \in Nat /\ at \in DOMAIN runs /\ at + 1 \in DOMAIN runs /\ at # at + 1
        /\ DOMAIN runs = 1..Len(runs)
    <2>1. /\ runs \in Seq(Seq(Slots)) /\ out \in Seq(Slots) /\ at \in 0..(Len(runs) - 1) /\ at # 0
      BY DEF MergeInv, TypeOK, EndMerge
    <2>2. Len(runs) \in Nat /\ DOMAIN runs = 1..Len(runs)
      BY <2>1, LenProperties
    <2> QED BY <2>1, <2>2
  <1>2. /\ UNCHANGED <<pc, random, extracted>>
        /\ L = <<>> \/ R = <<>>
        /\ runs' = RemoveAt(q, at + 1) /\ out' = <<>> /\ at' = 0
    BY DEF EndMerge
  <1>3. L \in Seq(Slots) /\ R \in Seq(Slots)
    BY <1>1, ElementOfSeq
  <1>4. /\ Once(out) /\ Once(L) /\ Once(R) /\ Ids(out) \cap Ids(L) = {} /\ Ids(out) \cap Ids(R) = {}
        /\ Good(out \o L) /\ Good(out \o R)
    BY <1>1 DEF MergeInv, EachOnce, Ordered
  <1>5. Z \in Seq(Slots) /\ Once(Z) /\ Ids(Z) = Ids(out) \cup Ids(L) \cup Ids(R) /\ Good(Z)
    <2> HIDE DEF L, R
    <2>1. Ids(<<>>) = {}
      BY DEF Ids
    <2>2. CASE R = <<>>
      <3>1. out \o L \in Seq(Slots)
        BY <1>1, <1>3, ConcatProperties
      <3>2. Z = out \o L
        BY <2>2, <3>1, ConcatEmptySeq
      <3>3. Once(out \o L) /\ Ids(out \o L) = Ids(out) \cup Ids(L)
        BY <1>1, <1>3, <1>4, ConcatIds
      <3> QED BY <1>4, <2>1, <2>2, <3>1, <3>2, <3>3
    <2>3. CASE L = <<>>
      <3>1. out \o L = out
        BY <1>1, <2>3, ConcatEmptySeq
      <3>2. Z = out \o R
        BY <3>1
      <3>3. out \o R \in Seq(Slots)
        BY <1>1, <1>3, ConcatProperties
      <3>4. Once(out \o R) /\ Ids(out \o R) = Ids(out) \cup Ids(R)
        BY <1>1, <1>3, <1>4, ConcatIds
      <3> QED BY <1>4, <2>1, <2>3, <3>2, <3>3, <3>4
    <2> QED BY <1>2, <2>2, <2>3
  <1> HIDE DEF Z
  <1>6. /\ q \in Seq(Seq(Slots)) /\ Len(q) = Len(runs) /\ q[at] = Z
        /\ \A k \in 1..Len(runs) : k # at => q[k] = runs[k]
    <2> HIDE DEF L, R
    <2> QED BY <1>1, <1>5
  <1> HIDE DEF q
  <1>7. /\ runs' \in Seq(Seq(Slots)) /\ Len(runs') = Len(runs) - 1
        /\ \A n \in 1..(Len(runs) - 1) : runs'[n] = IF n < at + 1 THEN q[n] ELSE q[n + 1]
    <2>1. at + 1 \in 1..Len(q)
      BY <1>1, <1>6
    <2>2. /\ RemoveAt(q, at + 1) \in Seq(Seq(Slots)) /\ Len(RemoveAt(q, at + 1)) = Len(q) - 1
          /\ \A n \in 1..(Len(q) - 1) : RemoveAt(q, at + 1)[n] = IF n < at + 1 THEN q[n] ELSE q[n + 1]
      BY ONLY <1>6, <2>1, RemoveAtProperties
    <2> QED BY <1>2, <1>6, <2>2
  <1>8. DOMAIN runs' = 1..(Len(runs) - 1)
    BY <1>7, LenProperties
  (* Run n is the merged one or one of the others. *)
  <1>9. ASSUME NEW n \in DOMAIN runs'
        PROVE  /\ from(n) \in DOMAIN runs \ {at + 1}
               /\ n = at => runs'[n] = Z
               /\ n # at => from(n) # at /\ runs'[n] = runs[from(n)]
    <2>1. n \in 1..(Len(runs) - 1)
      BY <1>8
    <2>2. CASE n <= at
      <3>1. n < at + 1 /\ n \in 1..Len(runs) /\ from(n) = n /\ n # at + 1
        BY <1>1, <2>1, <2>2
      <3>2. runs'[n] = q[n]
        BY <1>7, <2>1, <3>1
      <3> QED BY <1>1, <1>6, <3>1, <3>2
    <2>3. CASE ~(n <= at)
      <3>1. ~(n < at + 1) /\ n + 1 \in 1..Len(runs) /\ from(n) = n + 1 /\ n + 1 # at + 1 /\ n + 1 # at /\ n # at
        BY <1>1, <2>1, <2>3
      <3>2. runs'[n] = q[n + 1]
        BY <1>7, <2>1, <3>1
      <3> QED BY <1>1, <1>6, <3>1, <3>2
    <2> QED BY <2>2, <2>3
  <1>10. \A m, n \in DOMAIN runs' : m # n => from(m) # from(n)
    <2>1. at \in Nat /\ \A n \in DOMAIN runs' : n \in Nat
      BY <1>1, <1>8
    <2> QED BY ONLY <2>1
  <1>11. from(at) = at /\ at \in DOMAIN runs'
    <2>1. at \in 1..(Len(runs) - 1) /\ at <= at
      BY <1>1
    <2> QED BY <1>8, <2>1
  <1>12. ASSUME NEW k \in DOMAIN runs, k # at + 1 PROVE \E n \in DOMAIN runs' : from(n) = k
    <2>1. CASE k <= at
      <3>1. k \in DOMAIN runs' /\ from(k) = k
        BY <1>1, <1>8, <2>1
      <3> QED BY <3>1
    <2>2. CASE ~(k <= at)
      <3>1. k - 1 \in 1..(Len(runs) - 1) /\ ~(k - 1 <= at) /\ (k - 1) + 1 = k
        <4>1. at \in Nat /\ k \in 1..Len(runs) /\ Len(runs) \in Nat
          BY <1>1
        <4> QED BY ONLY <1>12, <2>2, <4>1
      <3>2. k - 1 \in DOMAIN runs' /\ from(k - 1) = k
        BY <1>8, <3>1
      <3> QED BY <3>2
    <2> QED BY <2>1, <2>2
  <1> HIDE DEF from
  <1>13. TypeOK'
    <2>1. Slots' = Slots
      BY <1>2 DEF Slots
    <2>2. /\ pc \in {"sort", "sweep", "done"} /\ random \in BOOLEAN /\ extracted \in Seq(Candidates)
          /\ pc # "sort" => Len(runs) = 1
      BY DEF MergeInv, TypeOK
    <2>3. <<>> \in Seq(Slots) /\ Len(runs') >= 1 /\ 0 \in 0..(Len(runs') - 1) /\ pc = "sort"
      <3>1. pc = "sort"
        BY <1>1, <2>2
      <3>2. Len(runs) \in Nat /\ Len(runs) >= 2
        BY <1>1
      <3> HIDE DEF L, R
      <3>3. Len(runs') >= 1 /\ 0 \in 0..(Len(runs') - 1)
        BY ONLY <1>7, <3>2
      <3> QED BY ONLY <3>1, <3>3
    <2> QED BY <1>2, <1>7, <2>1, <2>2, <2>3 DEF TypeOK
  <1>14. ASSUME NEW n \in DOMAIN runs' PROVE Once(runs'[n]) /\ Good(runs'[n])
    <2>1. CASE n = at
      BY <1>5, <1>9, <2>1
    <2>2. CASE n # at
      BY <1>9, <2>2 DEF MergeInv, EachOnce, Ordered
    <2> QED BY <2>1, <2>2
  <1>15. ASSUME NEW m \in DOMAIN runs', NEW n \in DOMAIN runs', m # n
         PROVE  Ids(runs'[m]) \cap Ids(runs'[n]) = {}
    <2>1. \A k, j \in DOMAIN runs : k # j => Ids(runs[k]) \cap Ids(runs[j]) = {}
      BY DEF MergeInv, EachOnce
    <2>2. \A k \in DOMAIN runs : Ids(runs[k]) \cap Ids(out) = {}
      BY DEF MergeInv, EachOnce
    <2>3. \A k \in DOMAIN runs \ {at, at + 1} : Ids(runs[k]) \cap Ids(Z) = {}
      BY <1>1, <1>5, <2>1, <2>2
    <2>4. CASE m = at
      BY <1>9, <1>15, <2>3, <2>4
    <2>5. CASE n = at
      BY <1>9, <1>15, <2>3, <2>5
    <2>6. CASE m # at /\ n # at
      BY <1>9, <1>10, <1>15, <2>1, <2>6
    <2> QED BY <2>4, <2>5, <2>6
  <1>16. ASSUME NEW x \in DOMAIN extracted PROVE \E n \in DOMAIN runs' : x \in Ids(runs'[n])
    <2>1. x \in Ids(out) \/ \E k \in DOMAIN runs : x \in Ids(runs[k])
      BY DEF MergeInv, EachOnce
    <2>2. CASE x \in Ids(Z)
      BY <1>9, <1>11, <2>2
    <2>3. CASE x \notin Ids(Z)
      <3>1. PICK k \in DOMAIN runs : x \in Ids(runs[k]) /\ k # at /\ k # at + 1
        BY <1>5, <2>1, <2>3
      <3>2. PICK n \in DOMAIN runs' : from(n) = k
        BY <1>12, <3>1
      <3> QED BY <1>9, <1>11, <3>1, <3>2
    <2> QED BY <2>2, <2>3
  <1>17. EachOnce'
    <2>1. Ids(out') = {} /\ Once(out')
      BY <1>2 DEF Ids, Once
    <2> QED BY <1>2, <1>14, <1>15, <1>16, <2>1 DEF EachOnce
  <1>18. Ordered'
    BY <1>2, <1>14 DEF Ordered
  <1> QED BY <1>13, <1>17, <1>18 DEF MergeInv

-----------------------------------------------------------------------------
(* The sorted array has every linkage once, in order, with the right marks.*)
LEMMA ArrayFacts ==
  ASSUME MergeInv, Len(runs) = 1
  PROVE  /\ Array \in Seq(Slots) /\ Once(Array) /\ Good(Array) /\ Ids(Array) = DOMAIN extracted
         /\ Len(Array) = Len(extracted) /\ Len(Array) \in Nat
         /\ DOMAIN Array = 1..Len(Array) /\ DOMAIN extracted = 1..Len(Array)
  <1>1. /\ runs \in Seq(Seq(Slots)) /\ at = 0 /\ out = <<>> /\ extracted \in Seq(Candidates)
    BY DEF MergeInv, TypeOK
  <1>2. DOMAIN runs = {1}
    BY <1>1, LenProperties
  <1>3. Array \in Seq(Slots) /\ Once(Array) /\ Good(Array)
    <2>1. 1 \in 1..Len(runs) /\ 1 \in DOMAIN runs
      BY <1>2
    <2>2. runs[1] \in Seq(Slots)
      BY <1>1, <2>1, ElementOfSeq
    <2>3. Once(runs[1])
      BY <2>1 DEF MergeInv, EachOnce
    <2>4. Good(runs[1])
      BY <1>1, <2>1 DEF MergeInv, Ordered
    <2> QED BY <2>2, <2>3, <2>4 DEF Array
  <1>4. /\ Len(Array) \in Nat /\ DOMAIN Array = 1..Len(Array)
        /\ Len(extracted) \in Nat /\ DOMAIN extracted = 1..Len(extracted)
    <2> HIDE DEF Array
    <2> QED BY <1>1, <1>3, LenProperties
  <1>5. \A n \in DOMAIN Array : Array[n] \in Slots
    <2> HIDE DEF Array
    <2> QED BY <1>3, <1>4, ElementOfSeq
  <1>6. Ids(Array) = DOMAIN extracted
    <2>1. Ids(Array) \subseteq DOMAIN extracted
      BY <1>5 DEF Ids, Slots
    <2>2. Ids(out) = {}
      BY <1>1 DEF Ids
    <2>3. DOMAIN extracted \subseteq Ids(Array)
      BY <1>2, <2>2 DEF MergeInv, EachOnce, Array
    <2> QED BY <2>1, <2>3
  <1>7. Len(Array) = Len(extracted)
    <2> DEFINE A == 1..Len(Array)
               B == 1..Len(extracted)
               g == [n \in A |-> Array[n].id]
    <2>1. g \in Bijection(A, B)
      <3>1. g \in [A -> B]
        BY <1>4, <1>6 DEF Ids
      <3>2. \A m, n \in A : m # n => g[m] # g[n]
        BY <1>3, <1>4 DEF Once
      <3>3. \A x \in B : \E n \in A : g[n] = x
        BY <1>4, <1>6 DEF Ids
      <3> QED BY <3>1, <3>2, <3>3 DEF Bijection, Injection, Surjection, IsInjective
    <2>2. ExistsBijection(A, B)
      BY <2>1 DEF ExistsBijection
    <2>3. IsFiniteSet(A) /\ Cardinality(A) = Len(Array) /\ Cardinality(B) = Len(extracted)
      <3>1. \A n \in Nat : IsFiniteSet(1..n) /\ Cardinality(1..n) = n
        <4> TAKE n \in Nat
        <4>1. IsFiniteSet(1..n) /\ Cardinality(1..n) = IF 1 > n THEN 0 ELSE n - 1 + 1
          BY FS_Interval
        <4> QED BY <4>1
      <3> QED BY <1>4, <3>1
    <2> HIDE DEF A, B
    <2>4. Cardinality(B) = Cardinality(A)
      BY <2>2, <2>3, FS_Bijection
    <2> QED BY <2>3, <2>4
  <1> QED BY <1>3, <1>4, <1>6, <1>7

(* The valid linkages come first. *)
LEMMA ValidPlaces ==
  ASSUME Comparable, MergeInv, Len(runs) = 1
  PROVE  LET V == Cardinality(Valids(extracted))
         IN  V \in 0..Len(Array) /\ \A k \in 1..Len(Array) : Array[k].lkg.viol = 0 <=> k <= V
  <1> DEFINE N == Len(Array)
             E == Valids(extracted)
             D == {k \in 1..N : Array[k].lkg.viol = 0}
             V == Cardinality(E)
             g == [k \in D |-> Array[k].id]
  <1>1. /\ Array \in Seq(Slots) /\ Once(Array) /\ Good(Array) /\ Ids(Array) = DOMAIN extracted
        /\ N \in Nat /\ DOMAIN Array = 1..N
    BY ArrayFacts
  <1>2. \A k \in 1..N : Array[k] \in Slots
    BY <1>1, ElementOfSeq
  <1>3. \A k \in 1..N : /\ Array[k].lkg \in Candidates /\ Array[k].lkg = extracted[Array[k].id]
                        /\ Array[k].id \in DOMAIN extracted
    BY <1>2 DEF Slots
  <1> HIDE DEF N
  <1>4. g \in Bijection(D, E)
    <2>1. g \in [D -> E]
      BY <1>3 DEF Valids
    <2>2. \A m, n \in D : m # n => g[m] # g[n]
      BY <1>1 DEF Once
    <2>3. ASSUME NEW x \in E PROVE \E k \in D : g[k] = x
      <3>1. x \in DOMAIN extracted /\ extracted[x].viol = 0
        BY DEF Valids
      <3>2. PICK k \in 1..N : Array[k].id = x
        BY <1>1, <3>1 DEF Ids
      <3>3. k \in D
        BY <1>3, <3>1, <3>2
      <3> QED BY <3>2, <3>3
    <2> QED BY <2>1, <2>2, <2>3 DEF Bijection, Injection, Surjection, IsInjective
  <1>5. IsFiniteSet(1..N) /\ Cardinality(1..N) = N /\ D \in SUBSET (1..N)
    BY <1>1, FS_Interval
  <1>6. IsFiniteSet(D) /\ Cardinality(D) <= N /\ Cardinality(D) \in Nat
    BY <1>5, FS_Subset, FS_CardinalityType
  <1>7. V = Cardinality(D)
    <2>1. ExistsBijection(D, E)
      BY <1>4 DEF ExistsBijection
    <2> HIDE DEF D, E
    <2> QED BY <1>6, <2>1, FS_Bijection
  <1> HIDE DEF V
  <1>8. V \in 0..N
    <2> HIDE DEF D
    <2> QED BY <1>1, <1>6, <1>7
  <1>9. ASSUME NEW k \in D PROVE k <= V
    <2>1. ASSUME NEW j \in 1..k PROVE j \in D
      <3>1. j \in 1..N /\ k \in 1..N /\ Array[k].lkg.viol = 0
        BY <1>1
      <3>2. CASE j = k
        BY <3>2
      <3>3. CASE j # k
        <4>1. Compare(Array[j].lkg, Array[k].lkg) <= 0
          <5>1. j < k
            BY <3>3
          <5> QED BY <1>1, <3>1, <5>1 DEF Good, Sorted
        <4>2. Array[j].lkg.viol \in Nat /\ Array[j].lkg.viol <= Array[k].lkg.viol
          BY <1>3, <3>1, <4>1, ValidFirst
        <4> QED BY <3>1, <4>2
      <3> QED BY <3>2, <3>3
    <2>2. 1..k \in SUBSET D
      BY <2>1
    <2>3. Cardinality(1..k) = k /\ k \in Nat
      <3>1. k \in Int /\ k >= 1
        OBVIOUS
      <3> QED BY <3>1, FS_Interval
    <2> HIDE DEF D
    <2>4. Cardinality(1..k) <= Cardinality(D)
      BY <1>6, <2>2, FS_Subset
    <2> QED BY <1>7, <2>3, <2>4
  <1>10. D = 1..V
    <2>1. D \in SUBSET (1..V)
      BY <1>8, <1>9
    <2>2. IsFiniteSet(1..V) /\ Cardinality(1..V) = V
      BY <1>8, FS_Interval
    <2> HIDE DEF D
    <2> QED BY <1>7, <2>1, <2>2, FS_Subset
  <1>11. \A k \in 1..N : Array[k].lkg.viol = 0 <=> k <= V
    <2>1. \A k \in 1..N : Array[k].lkg.viol = 0 <=> k \in D
      OBVIOUS
    <2> HIDE DEF D
    <2> QED BY <1>1, <1>8, <1>10, <2>1
  <1> QED BY <1>8, <1>11 DEF N, V

(* A block of what is kept, from place "from" of the sorted array A on,    *)
(* moves down in a to place "to"; this gives b.                            *)
BlockMoves(S, N, A, a, b, F, to, from, len) ==
  /\ N \in Nat /\ A \in [1..N -> S] /\ a \in [1..N -> S] /\ b \in [1..N -> S]
  /\ to \in Nat /\ from \in Nat /\ len \in Nat /\ to <= from /\ from + len <= N
  /\ \A m, n \in 1..N : m # n => A[m].id # A[n].id
  /\ \A k \in (from + 1)..(from + len) : A[k].id \notin F /\ a[k] = A[k]
  /\ \A m, n \in 1..to : m # n => a[m].id # a[n].id
  /\ {a[m] : m \in 1..to} = {A[k] : k \in {n \in 1..from : A[n].id \notin F}}
  /\ \A k \in 1..N : b[k] = IF k - 1 \in to..(to + len - 1) THEN a[k - to + from] ELSE a[k]

(* The places filled then hold, once each, what is kept up to the end of   *)
(* the block, in any part of which this is so too; the others are as       *)
(* before.                                                                 *)
BlockMoved(N, A, a, b, F, to, from, len) ==
  /\ \A k \in 1..N : k > to + len => b[k] = a[k]
  /\ \A m, n \in 1..(to + len) : m # n => b[m].id # b[n].id
  /\ \A q \in 0..len : {b[m] : m \in 1..(to + q)} = {A[k] : k \in {n \in 1..(from + q) : A[n].id \notin F}}

(* The move does this. *)
LEMMA MovedBlock ==
  ASSUME NEW S, NEW N, NEW A, NEW a, NEW b, NEW F, NEW to, NEW from, NEW len,
         BlockMoves(S, N, A, a, b, F, to, from, len)
  PROVE  BlockMoved(N, A, a, b, F, to, from, len)
  <1> USE DEF BlockMoves
  <1>1. \A k \in 1..N : k > to + len => b[k] = a[k]
    OBVIOUS
  <1>2. \A k \in 1..to : b[k] = a[k] /\ k \in 1..N
    OBVIOUS
  <1>3. ASSUME NEW k \in 1..len PROVE b[to + k] = A[from + k] /\ A[from + k].id \notin F
    <2>1. /\ to + k \in 1..N /\ (to + k) - 1 \in to..(to + len - 1) /\ (to + k) - to + from = from + k
          /\ from + k \in (from + 1)..(from + len)
      OBVIOUS
    <2>2. b[to + k] = a[(to + k) - to + from]
      BY <2>1
    <2> QED BY <2>1, <2>2
  <1>4. \A k \in (to + 1)..(to + len) : k - to \in 1..len /\ to + (k - to) = k
    OBVIOUS
  <1> DEFINE P == {a[m] : m \in 1..to}
             Q == {A[k] : k \in {n \in 1..from : A[n].id \notin F}}
  <1>0. P = Q
    OBVIOUS
  <1> HIDE DEF P, Q
  <1>5. ASSUME NEW m \in 1..to PROVE \E k \in 1..from : a[m] = A[k] /\ A[k].id \notin F
    <2>1. a[m] \in P
      BY DEF P
    <2> QED BY ONLY <1>0, <2>1 DEF Q
  <1>6. ASSUME NEW m \in 1..(to + len), NEW n \in 1..(to + len), m < n PROVE b[m].id # b[n].id
    <2>1. CASE n <= to
      BY <1>2, <2>1, <1>6
    <2>2. CASE n > to /\ m <= to
      <3>1. PICK k \in 1..from : a[m] = A[k]
        BY <1>5, <2>2
      <3>2. b[m] = A[k]
        BY <1>2, <2>2, <3>1
      <3>3. n - to \in 1..len /\ b[n] = A[from + (n - to)]
        BY <1>3, <1>4, <2>2
      <3>4. k # from + (n - to) /\ k \in 1..N /\ from + (n - to) \in 1..N
        BY <3>3
      <3> QED BY <3>2, <3>3, <3>4
    <2>3. CASE m > to
      <3>1. m - to \in 1..len /\ b[m] = A[from + (m - to)]
        BY <1>3, <1>4, <1>6, <2>3
      <3>2. n - to \in 1..len /\ b[n] = A[from + (n - to)]
        BY <1>3, <1>4, <1>6, <2>3
      <3>3. from + (m - to) # from + (n - to) /\ from + (m - to) \in 1..N /\ from + (n - to) \in 1..N
        BY <1>6, <3>1, <3>2
      <3> QED BY <3>1, <3>2, <3>3
    <2> QED BY <2>1, <2>2, <2>3
  <1>7. ASSUME NEW q \in 0..len, NEW m \in 1..(to + q)
        PROVE  \E k \in 1..(from + q) : b[m] = A[k] /\ A[k].id \notin F
    <2>1. CASE m <= to
      <3>1. m \in 1..to
        BY <2>1
      <3>2. PICK k \in 1..from : a[m] = A[k] /\ A[k].id \notin F
        BY <1>5, <3>1
      <3>3. k \in 1..(from + q)
        OBVIOUS
      <3> QED BY <1>2, <3>1, <3>2, <3>3
    <2>2. CASE m > to
      <3>0. m \in (to + 1)..(to + len)
        BY <2>2
      <3>1. m - to \in 1..len /\ b[m] = A[from + (m - to)] /\ A[from + (m - to)].id \notin F
        BY <1>3, <1>4, <3>0
      <3>2. from + (m - to) \in 1..(from + q)
        BY <3>1
      <3> QED BY <3>1, <3>2
    <2> QED BY <2>1, <2>2
  <1>8. ASSUME NEW q \in 0..len, NEW k \in 1..(from + q), A[k].id \notin F
        PROVE  \E m \in 1..(to + q) : A[k] = b[m]
    <2>1. CASE k <= from
      <3>0. A[k] \in Q
        <4>1. k \in 1..from
          BY <2>1
        <4> QED BY <1>8, <4>1 DEF Q
      <3>1. PICK m \in 1..to : A[k] = a[m]
        BY ONLY <1>0, <3>0 DEF P
      <3>2. m \in 1..(to + q)
        OBVIOUS
      <3> QED BY <1>2, <3>1, <3>2
    <2>2. CASE k > from
      <3>1. k - from \in 1..len /\ from + (k - from) = k /\ to + (k - from) \in 1..(to + q)
        BY <2>2
      <3> QED BY <1>3, <3>1
    <2> QED BY <2>1, <2>2
  <1>9. \A m, n \in 1..(to + len) : m # n => b[m].id # b[n].id
    BY <1>6
  <1>10. ASSUME NEW q \in 0..len
         PROVE  {b[m] : m \in 1..(to + q)} = {A[k] : k \in {n \in 1..(from + q) : A[n].id \notin F}}
    <2> DEFINE X == {b[m] : m \in 1..(to + q)}
               Y == {A[k] : k \in {n \in 1..(from + q) : A[n].id \notin F}}
    <2>1. ASSUME NEW x \in X PROVE x \in Y
      <3>1. PICK m \in 1..(to + q) : x = b[m]
        BY ONLY x \in X DEF X
      <3>2. PICK k \in 1..(from + q) : b[m] = A[k] /\ A[k].id \notin F
        BY ONLY <1>7, q \in 0..len, m \in 1..(to + q)
      <3> QED BY ONLY <3>1, <3>2
    <2>2. ASSUME NEW y \in Y PROVE y \in X
      <3>1. PICK k \in 1..(from + q) : y = A[k] /\ A[k].id \notin F
        BY ONLY y \in Y DEF Y
      <3>2. PICK m \in 1..(to + q) : A[k] = b[m]
        BY ONLY <1>8, <3>1, q \in 0..len, k \in 1..(from + q)
      <3> QED BY ONLY <3>1, <3>2
    <2>3. X = Y
      BY ONLY <2>1, <2>2
    <2> QED BY <2>3
  <1> QED BY <1>1, <1>9, <1>10 DEF BlockMoved

-----------------------------------------------------------------------------
(* The merging does not touch what the sweep works on. *)
LEMMA MergePhase ==
  ASSUME TypeOK, StartMerge \/ CompareHeads \/ EndMerge
  PROVE  /\ pc = "sort" /\ pc' = "sort"
         /\ UNCHANGED <<random, extracted, lnkages, alloced, valid, sweepVars, freed>>
  <1>1. CASE StartMerge
    BY <1>1 DEF StartMerge
  <1>2. CASE CompareHeads \/ EndMerge
    <2>1. at # 0 /\ pc' = pc /\ UNCHANGED <<random, extracted, lnkages, alloced, valid, sweepVars, freed>>
      BY <1>2 DEF CompareHeads, EndMerge
    <2>2. Len(runs) = 1 => at = 0
      BY DEF TypeOK
    <2>3. pc = "sort"
      BY <2>1, <2>2 DEF TypeOK
    <2> QED BY <2>1, <2>3
  <1> QED BY <1>1, <1>2

(* EndSort hands the sorted array to the sweep, or ends without one.       *)
LEMMA SweepStart ==
  ASSUME Comparable, SortInv, EndSort
  PROVE  Extraction' /\ Swept' /\ Result'
  <1>1. /\ pc = "sort" /\ Len(runs) = 1 /\ lnkages' = Array
        /\ pc' = IF random /\ valid >= 2 THEN "sweep" ELSE "done"
        /\ UNCHANGED <<random, extracted, runs, alloced, valid, i, tgt, blkstart, blklen, num_dupes, freed>>
    BY DEF EndSort, Array, sortVars, sweepVars
  <1>2. Array' = Array /\ Slots' = Slots /\ Valids(extracted)' = Valids(extracted)
    BY <1>1 DEF Array, Slots, Valids
  <1> DEFINE N == Len(Array)
             V == Cardinality(Valids(extracted))
  <1>3. /\ Array \in Seq(Slots) /\ Once(Array) /\ DOMAIN Array = 1..N /\ N = Len(extracted) /\ N \in Nat
    BY <1>1, ArrayFacts DEF SortInv
  <1>4. V \in 0..N
    BY <1>1, ValidPlaces DEF SortInv
  <1>5. alloced = N /\ valid = V
    BY <1>1, <1>3 DEF SortInv, Extraction
  <1>6. freed = {} /\ i = 1 /\ tgt = 0 /\ blkstart = 0 /\ blklen = 1 /\ num_dupes = 0
    BY <1>1 DEF SortInv, Swept
  <1> HIDE DEF N, V
  <1>7. Extraction'
    BY <1>1, <1>2 DEF SortInv, Extraction
  <1>8. Swept'
    <2>1. CASE pc' = "sweep"
      <3>1. valid >= 2
        BY <1>1, <2>1
      <3>2. /\ 1 \in 1..valid /\ 0 \in Nat /\ 1 \in Nat /\ 1 = 0 + 1 /\ 0 = 0 - 0
            /\ {Array[k].id : k \in {n \in 2..1 : Array[n].dupe}} = {}
            /\ \A m, n \in 1..0 : m # n => Array[m].id # Array[n].id
            /\ {Array[m] : m \in 1..0} = {Array[k] : k \in {n \in 1..0 : Array[n].id \notin {}}}
            /\ \A k \in (0 + 1)..1 : Array[k].id \notin {}
            /\ \A k \in (0 + 1)..alloced : Array[k] = Array[k]
        BY <1>4, <1>5, <3>1
      <3>3. /\ lnkages' = Array /\ Array' = Array /\ freed' = {} /\ i' = 1 /\ tgt' = 0 /\ blkstart' = 0
            /\ blklen' = 1 /\ num_dupes' = 0 /\ valid' = valid /\ alloced' = alloced /\ Len(Array) = alloced
        BY <1>1, <1>2, <1>5, <1>6 DEF N
      <3> QED BY <1>2, <1>3, <2>1, <3>2, <3>3 DEF Swept
    <2>2. CASE pc' # "sweep"
      BY <1>1, <2>2 DEF Swept
    <2> QED BY <2>1, <2>2
  <1>9. Result'
    <2>1. CASE pc' = "done"
      <3>1. random => valid < 2
        BY <1>1, <1>4, <1>5, <2>1
      <3>2. random => {Array[k].id : k \in {n \in 2..V : Array[n].dupe}} = {}
        BY <1>4, <1>5, <3>1
      <3>3. alloced \in 0..Len(Array) /\ valid \in 0..alloced
        BY <1>3, <1>4, <1>5 DEF N
      <3>4. /\ \A m, n \in 1..alloced : m # n => Array[m].id # Array[n].id
            /\ {Array[m] : m \in 1..alloced} = {Array[k] : k \in {n \in DOMAIN Array : Array[n].id \notin {}}}
            /\ {Array[m] : m \in 1..valid} = {Array[k] : k \in {n \in 1..V : Array[n].id \notin {}}}
        BY <1>3, <1>5 DEF Once
      <3>5. /\ lnkages' = Array /\ Array' = Array /\ freed' = {} /\ valid' = valid /\ alloced' = alloced
            /\ Cardinality(Valids(extracted))' = V /\ random' = random
        BY <1>1, <1>2, <1>6 DEF V
      <3>6. /\ lnkages' \in Seq(Slots') /\ alloced' \in 0..Len(lnkages') /\ valid' \in 0..alloced'
        BY <1>2, <1>3, <3>3, <3>5
      <3>7. freed' = IF random' THEN {Array'[k].id : k \in {n \in 2..V : Array'[n].dupe}} ELSE {}
        BY <3>2, <3>5
      <3>8. /\ \A m, n \in 1..alloced' : m # n => lnkages'[m].id # lnkages'[n].id
            /\ {lnkages'[m] : m \in 1..alloced'} = {Array'[k] : k \in {n \in DOMAIN Array' : Array'[n].id \notin freed'}}
            /\ {lnkages'[m] : m \in 1..valid'} = {Array'[k] : k \in {n \in 1..V : Array'[n].id \notin freed'}}
        BY <3>4, <3>5
      <3> QED BY <3>5, <3>6, <3>7, <3>8 DEF Result
    <2>2. CASE pc' # "done"
      BY <2>2 DEF Result
    <2> QED BY <2>1, <2>2
  <1> QED BY <1>7, <1>8, <1>9

(* What the sweep knows. *)
LEMMA SweepFacts ==
  ASSUME Comparable, SortInv, pc = "sweep"
  PROVE  /\ Len(runs) = 1
         /\ Array \in Seq(Slots) /\ Len(Array) = alloced /\ alloced \in Nat /\ Array \in [1..alloced -> Slots]
         /\ \A m, n \in 1..alloced : m # n => Array[m].id # Array[n].id
         /\ valid = Cardinality(Valids(extracted)) /\ valid \in 0..alloced
         /\ i \in 1..valid /\ blkstart \in Nat /\ blklen \in Nat /\ tgt \in Nat /\ num_dupes \in Nat
         /\ i = blkstart + blklen /\ tgt = blkstart - num_dupes
         /\ tgt = 0 => blkstart = 0
         /\ freed = {Array[k].id : k \in {n \in 2..i : Array[n].dupe}}
         /\ lnkages \in Seq(Slots) /\ Len(lnkages) = alloced /\ lnkages \in [1..alloced -> Slots]
         /\ \A k \in (blkstart + 1)..alloced : lnkages[k] = Array[k]
         /\ \A k \in (blkstart + 1)..i : Array[k].id \notin freed
         /\ \A m, n \in 1..tgt : m # n => lnkages[m].id # lnkages[n].id
         /\ {lnkages[m] : m \in 1..tgt} = {Array[k] : k \in {n \in 1..blkstart : Array[n].id \notin freed}}
  <1>1. MergeInv /\ Len(runs) = 1
    BY DEF SortInv, MergeInv, TypeOK
  <1>2. /\ Array \in Seq(Slots) /\ Once(Array) /\ DOMAIN Array = 1..Len(Array) /\ Len(Array) = Len(extracted)
        /\ Len(Array) \in Nat
    BY <1>1, ArrayFacts
  <1>3. Cardinality(Valids(extracted)) \in 0..Len(Array)
    BY <1>1, ValidPlaces
  <1>4. alloced = Len(extracted) /\ valid = Cardinality(Valids(extracted))
    BY DEF SortInv, Extraction
  <1>5. /\ i \in 1..valid /\ blkstart \in Nat /\ blklen \in Nat /\ tgt \in Nat /\ num_dupes \in Nat
        /\ i = blkstart + blklen /\ tgt = blkstart - num_dupes
        /\ tgt = 0 => blkstart = 0
        /\ freed = {Array[k].id : k \in {n \in 2..i : Array[n].dupe}}
        /\ lnkages \in Seq(Slots) /\ Len(lnkages) = alloced
        /\ \A k \in (blkstart + 1)..alloced : lnkages[k] = Array[k]
        /\ \A k \in (blkstart + 1)..i : Array[k].id \notin freed
        /\ \A m, n \in 1..tgt : m # n => lnkages[m].id # lnkages[n].id
        /\ {lnkages[m] : m \in 1..tgt} = {Array[k] : k \in {n \in 1..blkstart : Array[n].id \notin freed}}
    BY DEF SortInv, Swept
  <1>6. lnkages \in [1..alloced -> Slots]
    BY <1>5, LenProperties
  <1>7. Array \in [1..alloced -> Slots]
    <2> HIDE DEF Array
    <2> QED BY <1>2, <1>4, LenProperties
  <1>8. \A m, n \in 1..alloced : m # n => Array[m].id # Array[n].id
    BY <1>2, <1>4 DEF Once
  <1> HIDE DEF Array
  <1> QED BY ONLY <1>1, <1>2, <1>3, <1>4, <1>5, <1>6, <1>7, <1>8

(* KeepLinkage makes the block longer. *)
LEMMA SweepKeeps ==
  ASSUME Comparable, SortInv, KeepLinkage
  PROVE  Extraction' /\ Swept' /\ Result'
  <1>1. /\ pc = "sweep" /\ pc' = "sweep" /\ i < valid /\ ~lnkages[i + 1].dupe
        /\ blklen' = blklen + 1 /\ i' = i + 1
        /\ UNCHANGED <<random, extracted, runs, lnkages, alloced, valid, tgt, blkstart, num_dupes, freed>>
    BY DEF KeepLinkage, sortVars
  <1>2. Array' = Array /\ Slots' = Slots /\ Valids(extracted)' = Valids(extracted)
    BY <1>1 DEF Array, Slots, Valids
  <1>3. /\ alloced \in Nat /\ \A m, n \in 1..alloced : m # n => Array[m].id # Array[n].id
        /\ valid \in 0..alloced
        /\ i \in 1..valid /\ blkstart \in Nat /\ blklen \in Nat /\ tgt \in Nat /\ num_dupes \in Nat
        /\ i = blkstart + blklen /\ tgt = blkstart - num_dupes
        /\ tgt = 0 => blkstart = 0
        /\ freed = {Array[k].id : k \in {n \in 2..i : Array[n].dupe}}
        /\ lnkages \in Seq(Slots) /\ Len(lnkages) = alloced
        /\ \A k \in (blkstart + 1)..alloced : lnkages[k] = Array[k]
        /\ \A k \in (blkstart + 1)..i : Array[k].id \notin freed
        /\ \A m, n \in 1..tgt : m # n => lnkages[m].id # lnkages[n].id
        /\ {lnkages[m] : m \in 1..tgt} = {Array[k] : k \in {n \in 1..blkstart : Array[n].id \notin freed}}
    BY <1>1, SweepFacts
  <1> HIDE DEF Array
  <1>4. i + 1 \in (blkstart + 1)..alloced /\ i + 1 \in 1..alloced /\ i + 1 \in 1..valid
    <2>1. valid \in Nat /\ valid <= alloced /\ i <= valid /\ i \in Nat /\ i >= blkstart
      BY <1>3
    <2>2. i < valid /\ i = blkstart + blklen /\ alloced \in Nat /\ blkstart \in Nat /\ blklen \in Nat
      BY <1>1, <1>3
    <2> QED BY ONLY <2>1, <2>2
  <1>5. ~Array[i + 1].dupe
    BY <1>1, <1>3, <1>4
  <1>6. freed = {Array[k].id : k \in {n \in 2..(i + 1) : Array[n].dupe}}
    <2>1. \A n : n \in 2..(i + 1) /\ Array[n].dupe <=> n \in 2..i /\ Array[n].dupe
      BY <1>3, <1>5
    <2>2. {n \in 2..(i + 1) : Array[n].dupe} = {n \in 2..i : Array[n].dupe}
      BY <2>1
    <2> QED BY <1>3, <2>2
  <1>7. Array[i + 1].id \notin freed
    <2>1. \A n \in 2..i : n \in 1..alloced /\ n # i + 1
      BY <1>3
    <2> QED BY <1>3, <1>4, <2>1
  <1>8. \A k \in (blkstart + 1)..(i + 1) : Array[k].id \notin freed
    <2>1. \A k \in (blkstart + 1)..(i + 1) : k = i + 1 \/ k \in (blkstart + 1)..i
      BY <1>3
    <2> QED BY <1>3, <1>7, <2>1
  <1>9. Swept'
    <2>1. i' = blkstart' + blklen' /\ blklen' \in Nat /\ tgt' = blkstart' - num_dupes' /\ i' \in 1..valid'
      BY <1>1, <1>3, <1>4
    <2>2. /\ blkstart' \in Nat /\ tgt' \in Nat /\ num_dupes' \in Nat
          /\ tgt' = 0 => blkstart' = 0
          /\ lnkages' \in Seq(Slots') /\ Len(lnkages') = alloced'
      BY <1>1, <1>2, <1>3
    <2>4. lnkages' = lnkages /\ Array' = Array /\ tgt' = tgt /\ freed' = freed /\ blkstart' = blkstart
          /\ alloced' = alloced
      BY <1>1, <1>2
    <2>5. /\ \A k \in (blkstart' + 1)..alloced' : lnkages'[k] = Array'[k]
          /\ \A m, n \in 1..tgt' : m # n => lnkages'[m].id # lnkages'[n].id
      <3>1. /\ \A k \in (blkstart + 1)..alloced : lnkages[k] = Array[k]
            /\ \A m, n \in 1..tgt : m # n => lnkages[m].id # lnkages[n].id
        BY ONLY <1>3
      <3> QED BY ONLY <2>4, <3>1, Zenon
    <2>6. {lnkages'[m] : m \in 1..tgt'} = {Array'[k] : k \in {n \in 1..blkstart' : Array'[n].id \notin freed'}}
      <3>1. {lnkages[m] : m \in 1..tgt} = {Array[k] : k \in {n \in 1..blkstart : Array[n].id \notin freed}}
        BY ONLY <1>3
      <3> QED BY ONLY <2>4, <3>1, Zenon
    <2>3. /\ freed' = {Array'[k].id : k \in {n \in 2..i' : Array'[n].dupe}}
          /\ \A k \in (blkstart' + 1)..i' : Array'[k].id \notin freed'
      BY <1>1, <1>2, <1>6, <1>8
    <2> QED BY <1>1, <2>1, <2>2, <2>3, <2>5, <2>6 DEF Swept
  <1>10. Extraction' /\ Result'
    BY <1>1, <1>2 DEF SortInv, Extraction, Result
  <1> QED BY <1>9, <1>10

(* SweepDupe moves the block down and starts the next one behind the       *)
(* duplicate.                                                              *)
LEMMA SweepFrees ==
  ASSUME Comparable, SortInv, SweepDupe
  PROVE  Extraction' /\ Swept' /\ Result'
  <1> DEFINE a == lnkages
             b == lnkages'
             A == Array
             N == alloced
             F == freed \cup {A[i + 1].id}
  <1>1. /\ pc = "sweep" /\ pc' = "sweep" /\ i < valid /\ a[i + 1].dupe
        /\ freed' = freed \cup {a[i + 1].id} /\ num_dupes' = num_dupes + 1
        /\ b = IF blklen > 0 /\ tgt > 0 THEN Move(a, tgt, blkstart, blklen) ELSE a
        /\ tgt' = tgt + blklen /\ blklen' = 0 /\ blkstart' = i + 1 /\ i' = i + 1
        /\ UNCHANGED <<random, extracted, runs, alloced, valid>>
    BY DEF SweepDupe, NextBlock, sortVars
  <1>2. Array' = Array /\ Slots' = Slots /\ Valids(extracted)' = Valids(extracted)
    BY <1>1 DEF Array, Slots, Valids
  <1>3. /\ N \in Nat /\ \A m, n \in 1..N : m # n => A[m].id # A[n].id
        /\ A \in [1..N -> Slots] /\ a \in [1..N -> Slots]
        /\ valid \in 0..N
        /\ i \in 1..valid /\ blkstart \in Nat /\ blklen \in Nat /\ tgt \in Nat /\ num_dupes \in Nat
        /\ i = blkstart + blklen /\ tgt = blkstart - num_dupes
        /\ tgt = 0 => blkstart = 0
        /\ freed = {A[k].id : k \in {n \in 2..i : A[n].dupe}}
        /\ \A k \in (blkstart + 1)..N : a[k] = A[k]
        /\ \A k \in (blkstart + 1)..i : A[k].id \notin freed
        /\ \A m, n \in 1..tgt : m # n => a[m].id # a[n].id
        /\ {a[m] : m \in 1..tgt} = {A[k] : k \in {n \in 1..blkstart : A[n].id \notin freed}}
    BY <1>1, SweepFacts
  <1>4. /\ i + 1 \in (blkstart + 1)..N /\ i + 1 \in 1..N /\ i + 1 \in 2..(i + 1) /\ i + 1 \in 1..valid
        /\ blkstart + blklen <= N /\ tgt <= blkstart /\ i \in Nat
    <2> HIDE DEF N
    <2>1. /\ valid \in 0..N /\ i \in 1..valid /\ N \in Nat /\ blkstart \in Nat /\ num_dupes \in Nat
          /\ blklen \in Nat /\ i = blkstart + blklen /\ tgt = blkstart - num_dupes /\ i < valid
      BY <1>1, <1>3
    <2>2. valid \in Nat /\ valid <= N /\ i \in Nat /\ i >= blkstart /\ i >= 1
      BY ONLY <2>1
    <2> QED BY ONLY <2>1, <2>2
  <1>5. a[i + 1] = A[i + 1]
    BY <1>3, <1>4
  <1>6. freed' = F /\ A[i + 1].dupe
    BY <1>1, <1>5
  <1> HIDE DEF A, a, b, N
  <1>7. b \in [1..N -> Slots]
        /\ \A k \in 1..N : b[k] = IF k - 1 \in tgt..(tgt + blklen - 1) THEN a[k - tgt + blkstart] ELSE a[k]
    <2>1. CASE blklen > 0 /\ tgt > 0
      <3>1. b = Move(a, tgt, blkstart, blklen)
        BY <1>1, <2>1
      <3>2. /\ N \in Nat /\ a \in [1..N -> Slots] /\ tgt \in Nat /\ blkstart \in Nat /\ blklen \in Nat
            /\ blkstart + blklen <= N
        BY <1>3, <1>4
      <3>3. \A k \in 1..N : k - 1 \in tgt..(tgt + blklen - 1) => k - tgt + blkstart \in 1..N
        BY ONLY <3>2
      <3>4. b = [k \in 1..N |-> IF k - 1 \in tgt..(tgt + blklen - 1) THEN a[k - tgt + blkstart] ELSE a[k]]
        BY ONLY <3>1, <3>2 DEF Move
      <3> QED BY ONLY <3>2, <3>3, <3>4
    <2>2. CASE ~(blklen > 0 /\ tgt > 0)
      <3>1. b = a
        BY <1>1, <2>2
      <3>2. ASSUME NEW k \in 1..N, k - 1 \in tgt..(tgt + blklen - 1) PROVE k - tgt + blkstart = k
        <4>1. /\ tgt \in Nat /\ blklen \in Nat /\ blkstart \in Nat /\ k \in Nat
              /\ tgt = 0 => blkstart = 0
          BY <1>3
        <4>2. blklen > 0
          BY ONLY <4>1, <3>2
        <4> QED BY ONLY <2>2, <4>1, <4>2
      <3> QED BY <1>3, <3>1, <3>2
    <2> QED BY <2>1, <2>2
  <1>8. \A n \in 1..i : n \in 1..N /\ A[n].id # A[i + 1].id
    <2>1. \A n \in 1..i : n \in 1..N /\ n # i + 1
      BY <1>3, <1>4
    <2> QED BY <1>3, <1>4, <2>1
  <1>9. \A n \in 1..i : A[n].id \notin F <=> A[n].id \notin freed
    BY <1>8
  <1>10. \A k \in (blkstart + 1)..(blkstart + blklen) : A[k].id \notin F /\ a[k] = A[k]
    <2> TAKE k \in (blkstart + 1)..(blkstart + blklen)
    <2>1. k \in 1..i /\ k \in (blkstart + 1)..i /\ k \in (blkstart + 1)..N
      BY <1>3, <1>4
    <2> QED BY <1>3, <1>9, <2>1
  <1>11. {a[m] : m \in 1..tgt} = {A[k] : k \in {n \in 1..blkstart : A[n].id \notin F}}
    <2>1. \A n \in 1..blkstart : n \in 1..i
      BY <1>3
    <2>2. {n \in 1..blkstart : A[n].id \notin F} = {n \in 1..blkstart : A[n].id \notin freed}
      BY <1>9, <2>1
    <2> HIDE DEF F
    <2> QED BY <1>3, <2>2
  <1> HIDE DEF F
  <1>12. /\ \A k \in 1..N : k > tgt + blklen => b[k] = a[k]
         /\ \A m, n \in 1..(tgt + blklen) : m # n => b[m].id # b[n].id
         /\ \A q \in 0..blklen :
              {b[m] : m \in 1..(tgt + q)} = {A[k] : k \in {n \in 1..(blkstart + q) : A[n].id \notin F}}
    <2>1. /\ N \in Nat /\ A \in [1..N -> Slots] /\ a \in [1..N -> Slots] /\ b \in [1..N -> Slots]
          /\ tgt \in Nat /\ blkstart \in Nat /\ blklen \in Nat /\ tgt <= blkstart /\ blkstart + blklen <= N
      BY <1>3, <1>4, <1>7
    <2>2. /\ \A m, n \in 1..N : m # n => A[m].id # A[n].id
          /\ \A m, n \in 1..tgt : m # n => a[m].id # a[n].id
      BY <1>3
    <2>3. BlockMoves(Slots, N, A, a, b, F, tgt, blkstart, blklen)
      BY ONLY <1>7, <1>10, <1>11, <2>1, <2>2, Zenon DEF BlockMoves
    <2>4. BlockMoved(N, A, a, b, F, tgt, blkstart, blklen)
      BY ONLY <2>3, MovedBlock
    <2> QED BY ONLY <2>4 DEF BlockMoved
  <1>13. {b[m] : m \in 1..(tgt + blklen)} = {A[k] : k \in {n \in 1..(i + 1) : A[n].id \notin F}}
    <2>1. {n \in 1..(blkstart + blklen) : A[n].id \notin F} = {n \in 1..(i + 1) : A[n].id \notin F}
      <3>1. A[i + 1].id \in F
        BY DEF F
      <3>2. \A n : n \in 1..(i + 1) <=> n \in 1..(blkstart + blklen) \/ n = i + 1
        BY <1>3, <1>4
      <3> QED BY <3>1, <3>2
    <2>2. blklen \in 0..blklen
      BY <1>3
    <2> QED BY ONLY <1>12, <2>1, <2>2
  <1>14. ASSUME NEW k \in ((i + 1) + 1)..N PROVE b[k] = A[k]
    <2>0. /\ N \in Nat /\ i \in Nat /\ i = blkstart + blklen /\ tgt <= blkstart /\ blkstart \in Nat
          /\ blklen \in Nat /\ tgt \in Nat
      BY <1>3, <1>4
    <2>1. k \in 1..N /\ k > tgt + blklen /\ k \in (blkstart + 1)..N
      BY ONLY <2>0, k \in ((i + 1) + 1)..N
    <2>2. b[k] = a[k]
      BY <1>12, <2>1
    <2>3. a[k] = A[k]
      BY <1>3, <2>1
    <2> QED BY ONLY <2>2, <2>3
  <1>15. F = {A[k].id : k \in {n \in 2..(i + 1) : A[n].dupe}}
    <2>1. \A n : n \in 2..(i + 1) /\ A[n].dupe <=> (n \in 2..i /\ A[n].dupe) \/ n = i + 1
      BY <1>3, <1>4, <1>6
    <2>2. {n \in 2..(i + 1) : A[n].dupe} = {n \in 2..i : A[n].dupe} \cup {i + 1}
      BY <2>1
    <2> QED BY <1>3, <2>2 DEF F
  <1>16. b \in Seq(Slots) /\ Len(b) = N
    BY <1>3, <1>7
  <1>17. Swept'
    <2>1. /\ i + 1 \in Nat /\ 0 \in Nat /\ tgt + blklen \in Nat /\ num_dupes + 1 \in Nat
          /\ i + 1 = (i + 1) + 0 /\ tgt + blklen = (i + 1) - (num_dupes + 1) /\ tgt + blklen # 0
      <3>1. /\ valid \in Nat /\ i \in 1..valid /\ blkstart \in Nat /\ blklen \in Nat /\ tgt \in Nat
            /\ num_dupes \in Nat /\ i = blkstart + blklen /\ tgt = blkstart - num_dupes
            /\ tgt = 0 => blkstart = 0
        BY <1>3
      <3> QED BY ONLY <3>1
    <2>2. /\ i' \in 1..valid' /\ blkstart' \in Nat /\ blklen' \in Nat /\ tgt' \in Nat /\ num_dupes' \in Nat
          /\ i' = blkstart' + blklen' /\ tgt' = blkstart' - num_dupes'
          /\ tgt' = 0 => blkstart' = 0
      BY <1>1, <1>4, <2>1
    <2>3. /\ lnkages' = b /\ Array' = A /\ freed' = F /\ i' = i + 1 /\ blkstart' = i + 1 /\ tgt' = tgt + blklen
          /\ alloced' = N
      BY <1>1, <1>2, <1>6 DEF A, b, N
    <2>4. freed' = {Array'[k].id : k \in {n \in 2..i' : Array'[n].dupe}}
      BY ONLY <1>15, <2>3, Zenon
    <2>5. lnkages' \in Seq(Slots') /\ Len(lnkages') = alloced'
      BY <1>2, <1>16, <2>3
    <2>6. \A k \in (blkstart' + 1)..alloced' : lnkages'[k] = Array'[k]
      <3>1. \A k \in ((i + 1) + 1)..N : b[k] = A[k]
        BY <1>14
      <3> QED BY ONLY <2>3, <3>1, Zenon
    <2>7. \A k \in (blkstart' + 1)..i' : Array'[k].id \notin freed'
      BY ONLY <1>4, <2>3
    <2>8. /\ \A m, n \in 1..tgt' : m # n => lnkages'[m].id # lnkages'[n].id
          /\ {lnkages'[m] : m \in 1..tgt'} = {Array'[k] : k \in {n \in 1..blkstart' : Array'[n].id \notin freed'}}
      <3>1. \A m, n \in 1..(tgt + blklen) : m # n => b[m].id # b[n].id
        BY <1>12
      <3>2. \A m, n \in 1..tgt' : m # n => lnkages'[m].id # lnkages'[n].id
        BY ONLY <2>3, <3>1, Zenon
      <3>3. {lnkages'[m] : m \in 1..tgt'} = {Array'[k] : k \in {n \in 1..blkstart' : Array'[n].id \notin freed'}}
        BY ONLY <1>13, <2>3, Zenon
      <3> QED BY ONLY <3>2, <3>3
    <2> QED BY <1>1, <2>2, <2>4, <2>5, <2>6, <2>7, <2>8 DEF Swept
  <1>18. Extraction' /\ Result'
    BY <1>1, <1>2 DEF SortInv, Extraction, Result
  <1> QED BY <1>17, <1>18

(* EndSweep moves the last block, with the bad linkages behind it.         *)
LEMMA SweepEnds ==
  ASSUME Comparable, SortInv, EndSweep
  PROVE  Extraction' /\ Swept' /\ Result'
  <1> DEFINE a == lnkages
             b == lnkages'
             A == Array
             N == alloced
             F == freed
             len == blklen + alloced - valid
             V == Cardinality(Valids(extracted))
  <1>1. /\ pc = "sweep" /\ pc' = "done" /\ i = valid
        /\ b = IF tgt > 0 THEN Move(a, tgt, blkstart, len) ELSE a
        /\ alloced' = alloced - num_dupes /\ valid' = valid - num_dupes
        /\ UNCHANGED <<random, extracted, runs, freed>>
    BY DEF EndSweep, sortVars
  <1>2. Array' = Array /\ Slots' = Slots /\ Valids(extracted)' = Valids(extracted)
    BY <1>1 DEF Array, Slots, Valids
  <1>3. /\ N \in Nat /\ \A m, n \in 1..N : m # n => A[m].id # A[n].id
        /\ A \in [1..N -> Slots] /\ a \in [1..N -> Slots]
        /\ valid \in 0..N /\ valid = V
        /\ i \in 1..valid /\ blkstart \in Nat /\ blklen \in Nat /\ tgt \in Nat /\ num_dupes \in Nat
        /\ i = blkstart + blklen /\ tgt = blkstart - num_dupes
        /\ tgt = 0 => blkstart = 0
        /\ F = {A[k].id : k \in {n \in 2..i : A[n].dupe}}
        /\ \A k \in (blkstart + 1)..N : a[k] = A[k]
        /\ \A k \in (blkstart + 1)..i : A[k].id \notin F
        /\ \A m, n \in 1..tgt : m # n => a[m].id # a[n].id
        /\ {a[m] : m \in 1..tgt} = {A[k] : k \in {n \in 1..blkstart : A[n].id \notin F}}
    BY <1>1, SweepFacts
  <1>4. /\ len \in Nat /\ blkstart + len = N /\ tgt <= blkstart /\ blklen \in 0..len /\ len \in 0..len
        /\ tgt + len = N - num_dupes /\ tgt + blklen = valid - num_dupes /\ blkstart + blklen = valid
        /\ i \in Nat
    <2>1. /\ valid \in Nat /\ valid <= alloced /\ alloced \in Nat /\ i = valid /\ blkstart \in Nat /\ blklen \in Nat
          /\ num_dupes \in Nat /\ i = blkstart + blklen /\ tgt = blkstart - num_dupes
      BY <1>1, <1>3
    <2> QED BY ONLY <2>1
  <1> HIDE DEF A, a, b, N, F, len, V
  <1>7. b \in [1..N -> Slots]
        /\ \A k \in 1..N : b[k] = IF k - 1 \in tgt..(tgt + len - 1) THEN a[k - tgt + blkstart] ELSE a[k]
    <2>1. CASE tgt > 0
      <3>1. b = Move(a, tgt, blkstart, len)
        BY <1>1, <2>1
      <3>2. /\ N \in Nat /\ a \in [1..N -> Slots] /\ tgt \in Nat /\ blkstart \in Nat /\ len \in Nat
            /\ blkstart + len <= N
        <4>1. N \in Nat /\ a \in [1..N -> Slots] /\ tgt \in Nat /\ blkstart \in Nat
          BY ONLY <1>3
        <4>2. len \in Nat /\ blkstart + len = N
          BY ONLY <1>4
        <4> QED BY ONLY <4>1, <4>2
      <3>3. \A k \in 1..N : k - 1 \in tgt..(tgt + len - 1) => k - tgt + blkstart \in 1..N
        BY ONLY <3>2
      <3>4. b = [k \in 1..N |-> IF k - 1 \in tgt..(tgt + len - 1) THEN a[k - tgt + blkstart] ELSE a[k]]
        BY ONLY <3>1, <3>2 DEF Move
      <3> QED BY ONLY <3>2, <3>3, <3>4
    <2>2. CASE ~(tgt > 0)
      <3>1. b = a
        BY <1>1, <2>2
      <3>2. \A k \in 1..N : k - tgt + blkstart = k
        BY <1>3, <2>2
      <3> QED BY <1>3, <3>1, <3>2
    <2> QED BY <2>1, <2>2
  <1>8. \A k \in (blkstart + 1)..(blkstart + len) : A[k].id \notin F /\ a[k] = A[k]
    <2> TAKE k \in (blkstart + 1)..(blkstart + len)
    <2>1. k \in (blkstart + 1)..N /\ k \in 1..N
      <3>1. N \in Nat /\ blkstart \in Nat
        BY ONLY <1>3
      <3>2. blkstart + len = N
        BY ONLY <1>4
      <3> QED BY ONLY <3>1, <3>2, k \in (blkstart + 1)..(blkstart + len)
    <2>2. CASE k <= i
      <3>1. k \in (blkstart + 1)..i
        BY <1>3, <1>4, <2>1, <2>2
      <3> QED BY <1>3, <2>1, <3>1
    <2>3. CASE ~(k <= i)
      <3>1. \A n \in 2..i : n # k /\ n \in 1..N
        BY <1>1, <1>3, <1>4, <2>3
      <3> QED BY <1>3, <2>1, <3>1
    <2> QED BY <2>2, <2>3
  <1>9. /\ \A m, n \in 1..(tgt + len) : m # n => b[m].id # b[n].id
        /\ \A q \in 0..len :
             {b[m] : m \in 1..(tgt + q)} = {A[k] : k \in {n \in 1..(blkstart + q) : A[n].id \notin F}}
    <2>1. /\ N \in Nat /\ A \in [1..N -> Slots] /\ a \in [1..N -> Slots] /\ b \in [1..N -> Slots]
          /\ tgt \in Nat /\ blkstart \in Nat /\ len \in Nat /\ tgt <= blkstart /\ blkstart + len <= N
      BY <1>3, <1>4, <1>7
    <2>2. /\ \A m, n \in 1..N : m # n => A[m].id # A[n].id
          /\ \A m, n \in 1..tgt : m # n => a[m].id # a[n].id
          /\ {a[m] : m \in 1..tgt} = {A[k] : k \in {n \in 1..blkstart : A[n].id \notin F}}
      BY <1>3
    <2>3. BlockMoves(Slots, N, A, a, b, F, tgt, blkstart, len)
      BY ONLY <1>7, <1>8, <2>1, <2>2, Zenon DEF BlockMoves
    <2>4. BlockMoved(N, A, a, b, F, tgt, blkstart, len)
      BY ONLY <2>3, MovedBlock
    <2> QED BY ONLY <2>4 DEF BlockMoved
  <1>10. {b[m] : m \in 1..(N - num_dupes)} = {A[k] : k \in {n \in 1..N : A[n].id \notin F}}
    BY ONLY <1>4, <1>9
  <1>11. {b[m] : m \in 1..(valid - num_dupes)} = {A[k] : k \in {n \in 1..V : A[n].id \notin F}}
    <2>1. valid = V
      BY <1>3
    <2> QED BY ONLY <1>4, <1>9, <2>1
  <1>12. b \in Seq(Slots) /\ Len(b) = N /\ DOMAIN A = 1..N
    <2>1. N \in Nat /\ A \in [1..N -> Slots] /\ b \in [1..N -> Slots]
      BY <1>3, <1>7
    <2> QED BY ONLY <2>1
  <1>13. Result'
    <2>1. /\ lnkages' = b /\ Array' = A /\ freed' = F /\ alloced' = N - num_dupes /\ valid' = valid - num_dupes
          /\ Cardinality(Valids(extracted))' = V /\ random'
      BY <1>1, <1>2 DEF A, b, N, F, V, SortInv, Extraction
    <2>2. F = {A[k].id : k \in {n \in 2..V : A[n].dupe}}
      BY <1>1, <1>3
    <2>3. N - num_dupes \in 0..N /\ valid - num_dupes \in 0..(N - num_dupes)
      <3>1. valid \in Nat /\ valid <= N
        BY <1>3
      <3> QED BY <1>3, <1>4, <3>1
    <2>4. \A m, n \in 1..(N - num_dupes) : m # n => b[m].id # b[n].id
      BY <1>4, <1>9
    <2>5. /\ lnkages' \in Seq(Slots') /\ alloced' \in 0..Len(lnkages') /\ valid' \in 0..alloced'
      BY <1>2, <1>12, <2>1, <2>3
    <2>6. freed' = {Array'[k].id : k \in {n \in 2..V : Array'[n].dupe}}
      BY ONLY <2>1, <2>2, Zenon
    <2>7. \A m, n \in 1..alloced' : m # n => lnkages'[m].id # lnkages'[n].id
      BY ONLY <2>1, <2>4, Zenon
    <2>8. {lnkages'[m] : m \in 1..alloced'} = {Array'[k] : k \in {n \in DOMAIN Array' : Array'[n].id \notin freed'}}
      <3>1. {b[m] : m \in 1..(N - num_dupes)} = {A[k] : k \in {n \in DOMAIN A : A[n].id \notin F}}
        BY ONLY <1>10, <1>12, Zenon
      <3> QED BY ONLY <2>1, <3>1, Zenon
    <2>9. {lnkages'[m] : m \in 1..valid'} = {Array'[k] : k \in {n \in 1..V : Array'[n].id \notin freed'}}
      BY ONLY <1>11, <2>1, Zenon
    <2> QED BY <2>1, <2>5, <2>6, <2>7, <2>8, <2>9 DEF Result
  <1>14. Extraction' /\ Swept'
    BY <1>1, <1>2 DEF SortInv, Extraction, Swept
  <1> QED BY <1>13, <1>14

-----------------------------------------------------------------------------
(* A set of natural numbers has a least element: the intervals 0..n are    *)
(* finite sets, which strict inclusion orders well.                        *)
LEMMA LeastNumber ==
  ASSUME NEW T \in SUBSET Nat, T # {}
  PROVE  \E n \in T : \A m \in T : n <= m
  <1> DEFINE R == StrictSubsetOrdering(Nat)
             S == FiniteSubsetsOf(Nat)
             I == {0..n : n \in T}
  <1>1. IsWellFoundedOn(R, S)
    BY FS_StrictSubsetOrderingWellFounded
  <1>2. I \subseteq S
    <2>1. ASSUME NEW n \in T PROVE IsFiniteSet(0..n) /\ 0..n \in SUBSET Nat
      BY FS_Interval
    <2> QED BY <2>1 DEF FiniteSubsetsOf
  <1>3. I # {}
    OBVIOUS
  <1>4. PICK x \in I : \A y \in I : ~(<<y, x>> \in R)
    <2> HIDE DEF R, S, I
    <2> QED BY <1>1, <1>2, <1>3, WFMin
  <1>5. PICK n \in T : x = 0..n
    OBVIOUS
  <1>6. ASSUME NEW m \in T, m < n PROVE FALSE
    <2>1. 0..m \subseteq 0..n /\ 0..m # 0..n /\ 0..m \in SUBSET Nat /\ 0..n \in SUBSET Nat
      <3>1. n \in 0..n /\ n \notin 0..m
        BY <1>6
      <3> QED BY <1>6, <3>1
    <2>2. <<0..m, 0..n>> \in R
      BY <2>1 DEF StrictSubsetOrdering
    <2> QED BY <1>4, <1>5, <2>2
  <1> QED BY <1>6

(* What the sorting and the sweep end with is what SweepExact asks for.    *)
LEMMA ResultExact ==
  ASSUME Comparable, SortInv, pc = "done"
  PROVE  SweepExact
  <1> DEFINE A == Array
             N == Len(A)
             V == Cardinality(Valids(extracted))
             K == SubSeq(lnkages, 1, alloced)
  <1>1. MergeInv /\ Len(runs) = 1
    BY DEF SortInv, MergeInv, TypeOK
  <1>2. /\ A \in Seq(Slots) /\ Once(A) /\ Good(A) /\ Ids(A) = DOMAIN extracted
        /\ DOMAIN A = 1..N /\ N \in Nat /\ DOMAIN extracted = 1..N
    BY <1>1, ArrayFacts
  <1>3. V \in 0..N /\ \A k \in 1..N : A[k].lkg.viol = 0 <=> k <= V
    BY <1>1, ValidPlaces
  <1>4. /\ freed = IF random THEN {A[k].id : k \in {n \in 2..V : A[n].dupe}} ELSE {}
        /\ lnkages \in Seq(Slots)
        /\ alloced \in 0..Len(lnkages) /\ valid \in 0..alloced
        /\ \A m, n \in 1..alloced : m # n => lnkages[m].id # lnkages[n].id
        /\ {lnkages[m] : m \in 1..alloced} = {A[k] : k \in {n \in DOMAIN A : A[n].id \notin freed}}
        /\ {lnkages[m] : m \in 1..valid} = {A[k] : k \in {n \in 1..V : A[n].id \notin freed}}
    BY DEF SortInv, Result
  <1>5. ~random => \A m, n \in DOMAIN extracted : m # n => Value(extracted[m]) # Value(extracted[n])
    BY DEF SortInv, Extraction
  <1> HIDE DEF A, N, V
  <1>6. ASSUME NEW k \in 1..N
        PROVE  /\ A[k].lkg \in Candidates /\ A[k].id \in DOMAIN extracted /\ A[k].lkg = extracted[A[k].id]
               /\ A[k].dupe \in BOOLEAN
    <2>1. A[k] \in Slots
      BY <1>2, ElementOfSeq DEF N
    <2> QED BY <2>1 DEF Slots
  <1>7. \A m, n \in 1..N : m # n => A[m].id # A[n].id
    BY <1>2 DEF Once
  <1>8. \A n \in 1..N : A[n].dupe <=> \E m \in 1..N : m < n /\ Marks(A[m].lkg, A[n].lkg)
    BY <1>2 DEF Good, MarkedRight
  <1>9. K \in Seq(Slots) /\ Len(K) = alloced /\ DOMAIN K = 1..alloced /\ \A n \in 1..alloced : K[n] = lnkages[n]
    <2>1. alloced \in Nat /\ alloced <= Len(lnkages) /\ Len(lnkages) \in Nat
      BY <1>4, LenProperties
    <2>2. \A n \in 1..alloced : lnkages[n] \in Slots
      BY <1>4, <2>1, ElementOfSeq
    <2>3. /\ K \in Seq(Slots) /\ Len(K) = (IF 1 <= alloced THEN alloced - 1 + 1 ELSE 0)
          /\ \A n \in 1..(alloced - 1 + 1) : K[n] = lnkages[1 + n - 1]
      BY <2>1, <2>2, SubSeqProperties
    <2> HIDE DEF K
    <2>4. Len(K) = alloced /\ \A n \in 1..alloced : K[n] = lnkages[n]
      BY <2>1, <2>3
    <2>5. DOMAIN K = 1..alloced
      BY <2>3, <2>4, LenProperties
    <2> QED BY <2>3, <2>4, <2>5
  <1> HIDE DEF K
  <1>10. ASSUME NEW x \in freed PROVE random /\ \E k \in 2..V : x = A[k].id /\ A[k].dupe
    <2>1. CASE random
      BY <1>4, <2>1
    <2>2. CASE ~random
      BY <1>4, <2>2
    <2> QED BY <2>1, <2>2
  <1> DEFINE P == {lnkages[m] : m \in 1..alloced}
             Q == {A[k] : k \in {n \in 1..N : A[n].id \notin freed}}
             P1 == {lnkages[m] : m \in 1..valid}
             Q1 == {A[k] : k \in {n \in 1..V : A[n].id \notin freed}}
  <1>11. P = Q /\ P1 = Q1
    <2>1. DOMAIN A = 1..N
      BY <1>2
    <2> QED BY ONLY <1>4, <2>1
  <1> HIDE DEF P, Q, P1, Q1
  (* The linkages that remain are those that were not freed. *)
  <1>12. {K[n].id : n \in DOMAIN K} = DOMAIN extracted \ freed
    <2>1. ASSUME NEW n \in DOMAIN K PROVE K[n].id \in DOMAIN extracted \ freed
      <3>1. K[n] \in P
        BY <1>9 DEF P
      <3>2. PICK k \in 1..N : K[n] = A[k] /\ A[k].id \notin freed
        BY ONLY <1>11, <3>1 DEF Q
      <3> QED BY <1>6, <3>2
    <2>2. ASSUME NEW x \in DOMAIN extracted \ freed PROVE \E n \in DOMAIN K : x = K[n].id
      <3>1. PICK k \in 1..N : x = A[k].id
        BY <1>2 DEF Ids
      <3>2. A[k] \in Q
        BY <3>1 DEF Q
      <3>3. PICK n \in 1..alloced : A[k] = lnkages[n]
        BY ONLY <1>11, <3>2 DEF P
      <3> QED BY <1>9, <3>1, <3>3
    <2> QED BY <2>1, <2>2
  <1>13. \A m, n \in DOMAIN K : m # n => K[m].id # K[n].id
    BY <1>4, <1>9
  (* A linkage that is marked is valid. *)
  <1>14. ASSUME NEW n \in DOMAIN extracted, extracted[n].viol > 0 PROVE n \notin freed
    <2> SUFFICES ASSUME n \in freed PROVE FALSE
      OBVIOUS
    <2>1. PICK k \in 2..V : n = A[k].id
      BY <1>10
    <2>2. k \in 1..N /\ k <= V
      BY <1>2, <1>3
    <2>3. A[k].lkg.viol = 0 /\ A[k].lkg = extracted[n]
      BY <1>3, <1>6, <2>1, <2>2
    <2> QED BY <1>14, <2>3
  (* What remains of the valid linkages. *)
  <1>15. ASSUME NEW m \in 1..valid
         PROVE  \E k \in 1..V : lnkages[m] = A[k] /\ A[k].id \notin freed
    <2>1. lnkages[m] \in P1
      BY DEF P1
    <2> QED BY ONLY <1>11, <2>1 DEF Q1
  <1>16. ASSUME NEW j \in 1..V, NEW k \in 1..V, j < k, A[j].id \notin freed, A[k].id \notin freed
         PROVE  Value(A[j].lkg) # Value(A[k].lkg)
    <2>1. j \in 1..N /\ k \in 1..N /\ j <= V /\ k <= V /\ j # k /\ k \in 2..V
      BY <1>2, <1>3, <1>16
    <2>2. CASE ~random
      <3>1. A[j].id # A[k].id
        BY <1>7, <2>1
      <3> QED BY <1>5, <1>6, <2>1, <2>2, <3>1
    <2>3. CASE random
      <3> SUFFICES ASSUME Value(A[j].lkg) = Value(A[k].lkg) PROVE FALSE
        OBVIOUS
      <3>1. Marks(A[j].lkg, A[k].lkg)
        BY <1>3, <1>6, <2>1, MarksFacts
      <3>2. A[k].dupe
        BY <1>8, <1>16, <2>1, <3>1
      <3> QED BY <1>4, <1>16, <2>1, <2>3, <3>2
    <2> QED BY <2>2, <2>3
  <1>17. ASSUME NEW m \in 1..valid, NEW n \in 1..valid, m # n
         PROVE  Value(lnkages[m].lkg) # Value(lnkages[n].lkg)
    <2>1. PICK j \in 1..V : lnkages[m] = A[j] /\ A[j].id \notin freed
      BY <1>15
    <2>2. PICK k \in 1..V : lnkages[n] = A[k] /\ A[k].id \notin freed
      BY <1>15
    <2>3. lnkages[m].id # lnkages[n].id
      <3>1. m \in 1..alloced /\ n \in 1..alloced
        BY <1>4
      <3> QED BY <1>4, <1>17, <3>1
    <2>4. j # k /\ j \in Nat /\ k \in Nat
      BY <2>1, <2>2, <2>3
    <2>5. CASE j < k
      BY <1>16, <2>1, <2>2, <2>5
    <2>6. CASE k < j
      BY <1>16, <2>1, <2>2, <2>6
    <2> QED BY <2>4, <2>5, <2>6
  (* The first of the linkages that are equal to a valid one is not marked. *)
  <1>18. ASSUME NEW n \in Valids(extracted)
         PROVE  \E m \in 1..valid : Value(lnkages[m].lkg) = Value(extracted[n])
    <2>1. n \in DOMAIN extracted /\ extracted[n].viol = 0
      BY DEF Valids
    <2>2. PICK p \in 1..N : A[p].id = n
      BY <1>2, <2>1 DEF Ids
    <2>3. A[p].lkg = extracted[n] /\ p <= V /\ p \in 1..V
      BY <1>2, <1>3, <1>6, <2>1, <2>2
    <2> DEFINE T == {k \in 1..N : Value(A[k].lkg) = Value(A[p].lkg) /\ A[k].lkg.viol = 0}
    <2>4. p \in T /\ T \in SUBSET Nat
      BY <2>1, <2>3
    <2>5. PICK k \in T : \A m \in T : k <= m
      <3> HIDE DEF T
      <3> QED BY <2>4, LeastNumber
    <2>6. k \in 1..N /\ k \in 1..V /\ Value(A[k].lkg) = Value(A[p].lkg) /\ A[k].lkg.viol = 0
      BY <1>3, <2>5
    <2>7. ~A[k].dupe
      <3> SUFFICES ASSUME A[k].dupe PROVE FALSE
        OBVIOUS
      <3>1. PICK m \in 1..N : m < k /\ Marks(A[m].lkg, A[k].lkg)
        BY <1>8, <2>6
      <3>2. A[m].lkg.viol = 0 /\ Value(A[m].lkg) = Value(A[k].lkg)
        BY <1>6, <2>6, <3>1, MarksFacts
      <3>3. m \in T
        BY <2>6, <3>2
      <3> QED BY <2>5, <2>6, <3>1, <3>3
    <2>8. A[k].id \notin freed
      <3> SUFFICES ASSUME A[k].id \in freed PROVE FALSE
        OBVIOUS
      <3>1. PICK j \in 2..V : A[k].id = A[j].id /\ A[j].dupe
        BY <1>10
      <3>2. j \in 1..N
        BY <1>2, <1>3
      <3> QED BY <1>7, <2>6, <2>7, <3>1, <3>2
    <2>9. A[k] \in Q1
      BY <2>6, <2>8 DEF Q1
    <2>10. PICK m \in 1..valid : A[k] = lnkages[m]
      BY ONLY <1>11, <2>9 DEF P1
    <2> QED BY <2>3, <2>6, <2>10
  <1>19. K = Kept
    BY DEF K, Kept
  <1> QED BY <1>12, <1>13, <1>14, <1>17, <1>18, <1>19 DEF SweepExact, NoDuplicates, DistinctStay

(* The invariant holds at first. *)
LEMMA SortInit == ASSUME MaxAlloced \in Nat, Init PROVE SortInv
  <1>1. MergeInv
    BY MergeInit
  <1>2. Extraction /\ Swept /\ Result
    BY DEF Init, Extraction, Swept, Result, Valids
  <1> QED BY <1>1, <1>2 DEF SortInv

(* Every step preserves the invariant. *)
LEMMA SortStep == ASSUME Comparable, SortInv, [Next]_vars PROVE SortInv'
  <1>1. MergeInv
    BY DEF SortInv
  <1>2. CASE StartMerge \/ CompareHeads \/ EndMerge
    <2>1. MergeInv'
      BY <1>1, <1>2, MergeStart, MergeCompare, MergeEnd
    <2>2. /\ pc = "sort" /\ pc' = "sort"
          /\ UNCHANGED <<random, extracted, lnkages, alloced, valid, sweepVars, freed>>
      BY <1>1, <1>2, MergePhase DEF MergeInv
    <2>3. Extraction' /\ Swept' /\ Result'
      BY <2>2 DEF SortInv, Extraction, Swept, Result, Valids, sweepVars
    <2> QED BY <2>1, <2>3 DEF SortInv
  <1>3. CASE EndSort
    <2>1. /\ UNCHANGED <<random, extracted, runs, out, at>> /\ pc' \in {"sort", "sweep", "done"}
          /\ pc' # "sort" => Len(runs) = 1
      BY <1>3 DEF EndSort, sortVars
    <2> QED BY <1>1, <1>3, <2>1, MergeStays, SweepStart DEF SortInv
  <1>4. CASE KeepLinkage \/ SweepDupe \/ EndSweep
    <2>1. /\ UNCHANGED <<random, extracted, runs, out, at>> /\ pc' \in {"sort", "sweep", "done"} /\ pc = "sweep"
      BY <1>4 DEF KeepLinkage, SweepDupe, EndSweep, sortVars
    <2>2. Len(runs) = 1
      BY <1>1, <2>1 DEF MergeInv, TypeOK
    <2> QED BY <1>1, <1>4, <2>1, <2>2, MergeStays, SweepKeeps, SweepFrees, SweepEnds DEF SortInv
  <1>5. CASE UNCHANGED vars
    <2>1. /\ UNCHANGED <<pc, random, extracted, runs, out, at, lnkages, alloced, valid, freed>>
          /\ UNCHANGED <<i, tgt, blkstart, blklen, num_dupes>>
      BY <1>5 DEF vars, sortVars, sweepVars
    <2>2. MergeInv'
      BY <1>1, <2>1, MergeStays DEF MergeInv, TypeOK
    <2>3. Array' = Array /\ Slots' = Slots /\ Valids(extracted)' = Valids(extracted)
      BY <2>1 DEF Array, Slots, Valids
    <2>4. Extraction'
      BY <2>1, <2>3 DEF SortInv, Extraction
    <2>5. Swept'
      <3>1. Swept
        BY DEF SortInv
      <3>2. CASE pc # "sweep"
        BY ONLY <2>1, <3>1, <3>2 DEF Swept
      <3>3. CASE pc = "sweep"
        <4>1. /\ i \in 1..valid /\ blkstart \in Nat /\ blklen \in Nat /\ tgt \in Nat /\ num_dupes \in Nat
              /\ i = blkstart + blklen /\ tgt = blkstart - num_dupes
              /\ tgt = 0 => blkstart = 0
              /\ lnkages \in Seq(Slots) /\ Len(lnkages) = alloced
          BY ONLY <3>1, <3>3 DEF Swept
        <4>2. /\ freed = {Array[k].id : k \in {n \in 2..i : Array[n].dupe}}
              /\ \A k \in (blkstart + 1)..alloced : lnkages[k] = Array[k]
              /\ \A k \in (blkstart + 1)..i : Array[k].id \notin freed
              /\ \A m, n \in 1..tgt : m # n => lnkages[m].id # lnkages[n].id
              /\ {lnkages[m] : m \in 1..tgt} = {Array[k] : k \in {n \in 1..blkstart : Array[n].id \notin freed}}
          BY ONLY <3>1, <3>3 DEF Swept
        <4>3. /\ i' \in 1..valid' /\ blkstart' \in Nat /\ blklen' \in Nat /\ tgt' \in Nat /\ num_dupes' \in Nat
              /\ i' = blkstart' + blklen' /\ tgt' = blkstart' - num_dupes'
              /\ tgt' = 0 => blkstart' = 0
              /\ lnkages' \in Seq(Slots') /\ Len(lnkages') = alloced'
          BY ONLY <2>1, <2>3, <4>1
        <4>4. /\ freed' = {Array'[k].id : k \in {n \in 2..i' : Array'[n].dupe}}
              /\ \A k \in (blkstart' + 1)..alloced' : lnkages'[k] = Array'[k]
              /\ \A k \in (blkstart' + 1)..i' : Array'[k].id \notin freed'
              /\ \A m, n \in 1..tgt' : m # n => lnkages'[m].id # lnkages'[n].id
              /\ {lnkages'[m] : m \in 1..tgt'} =
                   {Array'[k] : k \in {n \in 1..blkstart' : Array'[n].id \notin freed'}}
          <5>1. freed' = {Array'[k].id : k \in {n \in 2..i' : Array'[n].dupe}}
            <6>1. freed = {Array[k].id : k \in {n \in 2..i : Array[n].dupe}}
              BY ONLY <4>2
            <6> QED BY ONLY <2>1, <2>3, <6>1, Zenon
          <5>2. \A k \in (blkstart' + 1)..alloced' : lnkages'[k] = Array'[k]
            <6>1. \A k \in (blkstart + 1)..alloced : lnkages[k] = Array[k]
              BY ONLY <4>2
            <6> QED BY ONLY <2>1, <2>3, <6>1, Zenon
          <5>3. \A k \in (blkstart' + 1)..i' : Array'[k].id \notin freed'
            <6>1. \A k \in (blkstart + 1)..i : Array[k].id \notin freed
              BY ONLY <4>2
            <6> QED BY ONLY <2>1, <2>3, <6>1, Zenon
          <5>4. \A m, n \in 1..tgt' : m # n => lnkages'[m].id # lnkages'[n].id
            <6>1. \A m, n \in 1..tgt : m # n => lnkages[m].id # lnkages[n].id
              BY ONLY <4>2
            <6> QED BY ONLY <2>1, <2>3, <6>1, Zenon
          <5>5. {lnkages'[m] : m \in 1..tgt'} = {Array'[k] : k \in {n \in 1..blkstart' : Array'[n].id \notin freed'}}
            <6>1. {lnkages[m] : m \in 1..tgt} = {Array[k] : k \in {n \in 1..blkstart : Array[n].id \notin freed}}
              BY ONLY <4>2
            <6> QED BY ONLY <2>1, <2>3, <6>1, Zenon
          <5> QED BY ONLY <5>1, <5>2, <5>3, <5>4, <5>5
        <4> QED BY ONLY <2>1, <3>3, <4>3, <4>4 DEF Swept
      <3> QED BY <3>2, <3>3
    <2>6. Result'
      <3>1. Result
        BY DEF SortInv
      <3>2. CASE pc # "done"
        BY ONLY <2>1, <3>2 DEF Result
      <3>3. CASE pc = "done"
        <4> DEFINE V == Cardinality(Valids(extracted))
                   Swept1 == {Array[k].id : k \in {n \in 2..V : Array[n].dupe}}
                   Kept1 == {Array[k] : k \in {n \in DOMAIN Array : Array[n].id \notin freed}}
                   Kept2 == {Array[k] : k \in {n \in 1..V : Array[n].id \notin freed}}
        <4>1. /\ freed = IF random THEN Swept1 ELSE {}
              /\ lnkages \in Seq(Slots)
              /\ alloced \in 0..Len(lnkages) /\ valid \in 0..alloced
              /\ \A m, n \in 1..alloced : m # n => lnkages[m].id # lnkages[n].id
              /\ {lnkages[m] : m \in 1..alloced} = Kept1
              /\ {lnkages[m] : m \in 1..valid} = Kept2
          BY ONLY <3>1, <3>3 DEF Result
        <4>2. V' = V
          BY ONLY <2>3
        <4> HIDE DEF V
        <4>3. Swept1' = Swept1
          BY ONLY <2>3, <4>2, Zenon
        <4>4. Kept1' = Kept1
          BY ONLY <2>1, <2>3, Zenon
        <4>5. Kept2' = Kept2
          BY ONLY <2>1, <2>3, <4>2, Zenon
        <4> HIDE DEF Swept1, Kept1, Kept2
        <4>6. /\ freed' = IF random' THEN Swept1' ELSE {}
              /\ lnkages' \in Seq(Slots')
              /\ alloced' \in 0..Len(lnkages') /\ valid' \in 0..alloced'
          BY ONLY <2>1, <2>3, <4>1, <4>3
        <4>7. \A m, n \in 1..alloced' : m # n => lnkages'[m].id # lnkages'[n].id
          <5>1. \A m, n \in 1..alloced : m # n => lnkages[m].id # lnkages[n].id
            BY ONLY <4>1
          <5> QED BY ONLY <2>1, <5>1, Zenon
        <4>8. {lnkages'[m] : m \in 1..alloced'} = Kept1'
          <5>1. {lnkages[m] : m \in 1..alloced} = Kept1
            BY ONLY <4>1
          <5> QED BY ONLY <2>1, <4>4, <5>1, Zenon
        <4>9. {lnkages'[m] : m \in 1..valid'} = Kept2'
          <5>1. {lnkages[m] : m \in 1..valid} = Kept2
            BY ONLY <4>1
          <5> QED BY ONLY <2>1, <4>5, <5>1, Zenon
        <4> USE DEF Swept1, Kept1, Kept2, V
        <4> QED BY ONLY <4>6, <4>7, <4>8, <4>9 DEF Result
      <3> QED BY ONLY <3>2, <3>3
    <2> QED BY <2>2, <2>4, <2>5, <2>6 DEF SortInv
  <1> QED BY <1>2, <1>3, <1>4, <1>5 DEF Next

(* If the comparison is an order that finds exactly the valid linkages     *)
(* with the same links and words equal, then sort_linkages() is right for  *)
(* any linkages, any number of them and any order of merging: the array    *)
(* that remains has every linkage that was not freed, once, no two valid   *)
(* ones that are equal, and one for every valid one that was extracted.    *)
THEOREM SweepCorrect == ASSUME MaxAlloced \in Nat, Comparable PROVE Spec => []SweepExact
  <1>1. Init => SortInv
    BY SortInit
  <1>2. SortInv /\ [Next]_vars => SortInv'
    BY SortStep
  <1>3. SortInv => SweepExact
    <2>1. CASE pc = "done"
      BY <2>1, ResultExact
    <2>2. CASE pc # "done"
      BY <2>2 DEF SweepExact, NoDuplicates, DistinctStay
    <2> QED BY <2>1, <2>2
  <1> QED BY <1>1, <1>2, <1>3, PTL DEF Spec

=============================================================================
