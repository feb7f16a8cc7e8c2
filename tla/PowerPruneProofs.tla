-------------------------- MODULE PowerPruneProofs --------------------------
(***************************************************************************)
(* Proofs about PowerPrune, for any sentences, null counts and rules: the  *)
(* refcounts are exact through all calls of power_prune(), and the power   *)
(* table keeps every connector that is still used.                         *)
(*                                                                         *)
(* The argument: a disjunct is deleted once, since no word has it twice in *)
(* its list, and its two jets have no connector in common; so what each    *)
(* connector loses is exactly its use by that disjunct.  The marks and the *)
(* limits of a connector play no part in this.                             *)
(***************************************************************************)
EXTENDS PowerPrune, FiniteSetTheorems, SequenceTheorems, TLAPS

(* The words of the sentence have lists of disjuncts.                      *)
Lists ==
  /\ sent_length \in Nat \ {0}
  /\ \A w \in Words : sentence[w] \in Seq(ToSet(sentence[w]))

(* The lists of those left have indices of these, none twice.              *)
Remaining ==
  /\ word \in [Words -> Seq(Nat)]
  /\ \A w \in Words : IsInjective(word[w]) /\ Left(w) \subseteq DOMAIN sentence[w]

(* A pass is at some word.                                                 *)
Position == at \in [dir : Dirs, w : Words, i : Nat \ {0}]

Counted ==
  /\ refcount = [c \in AllCells |-> refcount[c]]
  /\ \A c \in AllCells : refcount[c] = Uses(c, Left(c.w))

Tabled ==
  /\ table \in [Dirs -> [Words -> SUBSET AllCells]]
  /\ \A c \in AllCells : refcount[c] > 0 => c \in table[c.dir][c.w]

PruneInv == Lists /\ Remaining /\ Position /\ Counted /\ Tabled

-----------------------------------------------------------------------------
(* Deleting an element of a list without repetitions deletes it alone.     *)
LEMMA RemoveOne ==
  ASSUME NEW s \in Seq(Nat), IsInjective(s), NEW i \in 1..Len(s)
  PROVE  /\ RemoveAt(s, i) \in Seq(Nat) /\ IsInjective(RemoveAt(s, i))
         /\ ToSet(RemoveAt(s, i)) = ToSet(s) \ {s[i]}
  <1> DEFINE t == RemoveAt(s, i)
  <1>1. Len(s) \in Nat /\ DOMAIN s = 1..Len(s)
    OBVIOUS
  <1>2. /\ t \in Seq(Nat) /\ Len(t) = Len(s) - 1 /\ DOMAIN t = 1..(Len(s) - 1)
        /\ \A k \in 1..(Len(s) - 1) : t[k] = IF k < i THEN s[k] ELSE s[k + 1]
    <2> DEFINE a == SubSeq(s, 1, i - 1)
               b == SubSeq(s, i + 1, Len(s))
    <2>1. a \in Seq(Nat) /\ Len(a) = i - 1 /\ \A k \in 1..(i - 1) : a[k] = s[k]
      <3>1. \A k \in 1..(i - 1) : s[k] \in Nat
        BY <1>1
      <3> QED BY <1>1, <3>1, SubSeqProperties
    <2>2. b \in Seq(Nat) /\ Len(b) = Len(s) - i /\ \A k \in 1..(Len(s) - i) : b[k] = s[k + i]
      <3>1. \A k \in (i + 1)..Len(s) : s[k] \in Nat
        BY <1>1
      <3>2. /\ b \in Seq(Nat)
            /\ Len(b) = IF i + 1 <= Len(s) THEN Len(s) - (i + 1) + 1 ELSE 0
            /\ \A k \in 1..(Len(s) - (i + 1) + 1) : b[k] = s[(i + 1) + k - 1]
        BY <1>1, <3>1, SubSeqProperties
      <3>3. Len(s) - (i + 1) + 1 = Len(s) - i /\ \A k \in Nat : (i + 1) + k - 1 = k + i
        BY <1>1
      <3> HIDE DEF b
      <3>4. Len(b) = Len(s) - i
        <4>1. CASE i + 1 <= Len(s)
          BY <3>2, <3>3, <4>1
        <4>2. CASE ~(i + 1 <= Len(s))
          <5>1. \A m \in Nat : \A k \in 1..m : ~(k + 1 <= m) => m - k = 0
            OBVIOUS
          <5>2. Len(s) - i = 0
            BY <1>1, <4>2, <5>1
          <5> QED BY <3>2, <4>2, <5>2
        <4> QED BY <4>1, <4>2
      <3>5. ASSUME NEW k \in 1..(Len(s) - i)
            PROVE  b[k] = s[k + i]
        <4>1. k \in 1..(Len(s) - (i + 1) + 1) /\ (i + 1) + k - 1 = k + i
          BY <3>3
        <4> QED BY <3>2, <4>1
      <3> QED BY <3>2, <3>4, <3>5
    <2>3. t = a \o b
      BY DEF RemoveAt
    <2> HIDE DEF a, b, t
    <2>4. /\ t \in Seq(Nat) /\ Len(t) = Len(s) - 1 /\ DOMAIN t = 1..(Len(s) - 1)
          /\ \A k \in 1..(Len(s) - 1) : t[k] = IF k <= i - 1 THEN a[k] ELSE b[k - (i - 1)]
      <3>1. /\ a \o b \in Seq(Nat) /\ Len(a \o b) = Len(a) + Len(b)
            /\ \A k \in 1..(Len(a) + Len(b)) :
                 (a \o b)[k] = IF k <= Len(a) THEN a[k] ELSE b[k - Len(a)]
        BY <2>1, <2>2, ConcatProperties
      <3>2. Len(a) + Len(b) = Len(s) - 1
        BY <1>1, <2>1, <2>2
      <3>3. DOMAIN t = 1..Len(t)
        BY <2>3, <3>1
      <3> QED BY <2>1, <2>3, <3>1, <3>2, <3>3
    <2>5. ASSUME NEW k \in 1..(Len(s) - 1)
          PROVE  t[k] = IF k < i THEN s[k] ELSE s[k + 1]
      <3>1. CASE k < i
        <4>1. t[k] = a[k] /\ k \in 1..(i - 1)
          BY <2>4, <3>1
        <4> QED BY <2>1, <3>1, <4>1
      <3>2. CASE ~(k < i)
        <4>1. t[k] = b[k - (i - 1)] /\ k - (i - 1) \in 1..(Len(s) - i)
          <5>1. k - (i - 1) \in 1..(Len(s) - i)
            BY <1>1, <3>2
          <5> QED BY <2>4, <3>2, <5>1
        <4>2. k - (i - 1) + i = k + 1
          OBVIOUS
        <4>3. b[k - (i - 1)] = s[k + 1]
          BY <2>2, <4>1, <4>2
        <4> QED BY <3>2, <4>1, <4>3
      <3> QED BY <3>1, <3>2
    <2> QED BY <2>4, <2>5
  <1> HIDE DEF t
  <1>3. \A k \in 1..(Len(s) - 1) : \E m \in 1..Len(s) : m # i /\ t[k] = s[m]
                                    /\ m = IF k < i THEN k ELSE k + 1
    <2> SUFFICES ASSUME NEW k \in 1..(Len(s) - 1)
                 PROVE  \E m \in 1..Len(s) : /\ m # i /\ t[k] = s[m]
                                              /\ m = IF k < i THEN k ELSE k + 1
      OBVIOUS
    <2>1. k < i => k \in 1..Len(s) /\ k # i
      BY <1>1
    <2>2. ~(k < i) => k + 1 \in 1..Len(s) /\ k + 1 # i
      BY <1>1
    <2> QED BY <1>2, <2>1, <2>2
  <1>4. \A m \in 1..Len(s) : m # i => \E k \in 1..(Len(s) - 1) : t[k] = s[m]
    <2> SUFFICES ASSUME NEW m \in 1..Len(s), m # i
                 PROVE  \E k \in 1..(Len(s) - 1) : t[k] = s[m]
      OBVIOUS
    <2>1. CASE m < i
      <3>1. m \in 1..(Len(s) - 1)
        BY <1>1, <2>1
      <3> QED BY <1>2, <2>1, <3>1
    <2>2. CASE ~(m < i)
      <3>1. m - 1 \in 1..(Len(s) - 1) /\ ~(m - 1 < i) /\ (m - 1) + 1 = m
        BY <1>1, <2>2
      <3> QED BY <1>2, <3>1
    <2> QED BY <2>1, <2>2
  <1>5. IsInjective(t)
    <2> SUFFICES ASSUME NEW k \in 1..(Len(s) - 1), NEW j \in 1..(Len(s) - 1), t[k] = t[j]
                 PROVE  k = j
      BY <1>2 DEF IsInjective
    <2>1. PICK m \in 1..Len(s) : t[k] = s[m] /\ m = IF k < i THEN k ELSE k + 1
      BY <1>3
    <2>2. PICK n \in 1..Len(s) : t[j] = s[n] /\ n = IF j < i THEN j ELSE j + 1
      BY <1>3
    <2>3. m = n
      BY <1>1, <2>1, <2>2 DEF IsInjective
    <2> QED BY <2>1, <2>2, <2>3
  <1>6. ToSet(t) \subseteq ToSet(s) \ {s[i]}
    <2> SUFFICES ASSUME NEW k \in 1..(Len(s) - 1)
                 PROVE  t[k] \in ToSet(s) \ {s[i]}
      BY <1>2 DEF ToSet
    <2>1. PICK m \in 1..Len(s) : m # i /\ t[k] = s[m]
      BY <1>3
    <2> QED BY <1>1, <2>1 DEF IsInjective, ToSet
  <1>7. ToSet(s) \ {s[i]} \subseteq ToSet(t)
    <2> SUFFICES ASSUME NEW m \in 1..Len(s), m # i
                 PROVE  s[m] \in ToSet(t)
      BY <1>1 DEF ToSet
    <2>1. PICK k \in 1..(Len(s) - 1) : t[k] = s[m]
      BY <1>4
    <2> QED BY <1>2, <2>1 DEF ToSet
  <1>8. t \in Seq(Nat) /\ IsInjective(t) /\ ToSet(t) = ToSet(s) \ {s[i]}
    BY <1>2, <1>5, <1>6, <1>7
  <1> QED BY <1>8 DEF t

(* A cell belongs to one side of one word.                                 *)
LEMMA CellOfJet ==
  ASSUME NEW dir, NEW w, NEW i, NEW c \in ToSet(Jet(dir, w, i))
  PROVE  c.dir = dir /\ c.w = w
  BY DEF ToSet, Jet

LEMMA CellWords ==
  ASSUME NEW c \in AllCells
  PROVE  c.dir \in Dirs /\ c.w \in Words
  BY CellOfJet DEF AllCells, PowerTable, CellsOf

(* The uses of a connector before and after a disjunct is deleted.         *)
LEMMA OneUseLess ==
  ASSUME NEW c, NEW S, IsFiniteSet(S), NEW i \in S
  PROVE  /\ Uses(c, S) \in Nat
         /\ Uses(c, S \ {i}) = IF c \in ToSet(Jet(c.dir, c.w, i)) THEN Uses(c, S) - 1 ELSE Uses(c, S)
  <1> DEFINE U == {k \in S : c \in ToSet(Jet(c.dir, c.w, k))}
  <1>1. IsFiniteSet(U)
    <2>1. U \in SUBSET S
      OBVIOUS
    <2> HIDE DEF U
    <2> QED BY <2>1, FS_Subset
  <1>2. {k \in S \ {i} : c \in ToSet(Jet(c.dir, c.w, k))} = U \ {i}
    OBVIOUS
  <1>3. i \in U <=> c \in ToSet(Jet(c.dir, c.w, i))
    OBVIOUS
  <1>4. Uses(c, S) = Cardinality(U) /\ Uses(c, S \ {i}) = Cardinality(U \ {i})
    BY <1>2 DEF Uses
  <1> HIDE DEF U
  <1>5. /\ Cardinality(U) \in Nat
        /\ Cardinality(U \ {i}) = IF i \in U THEN Cardinality(U) - 1 ELSE Cardinality(U)
    BY <1>1, FS_RemoveElement, FS_CardinalityType
  <1> QED BY <1>3, <1>4, <1>5

(* The disjuncts left of a word are finitely many.                         *)
LEMMA LeftFinite ==
  ASSUME Lists, Remaining, NEW w \in Words
  PROVE  IsFiniteSet(Left(w))
  <1>1. Left(w) \in SUBSET (DOMAIN sentence[w])
    BY DEF Remaining
  <1>2. DOMAIN sentence[w] = 1..Len(sentence[w]) /\ Len(sentence[w]) \in Nat
    BY DEF Lists
  <1>3. IsFiniteSet(DOMAIN sentence[w])
    BY <1>2, FS_Interval
  <1> QED BY <1>1, <1>3, FS_Subset

(* The disjunct the pass is at can be deleted from its list.               *)
LEMMA CurrentIsLeft ==
  ASSUME Lists, Remaining, Position, InWord
  PROVE  /\ at.w \in Words /\ word[at.w] \in Seq(Nat) /\ IsInjective(word[at.w])
         /\ at.i \in 1..Len(word[at.w])
         /\ Current \in Left(at.w)
  <1>1. /\ at.w \in Words /\ word[at.w] \in Seq(Nat) /\ IsInjective(word[at.w])
        /\ at.i \in Nat \ {0} /\ at.i <= Len(word[at.w])
    BY DEF Remaining, Position, InWord
  <1>2. Len(word[at.w]) \in Nat /\ DOMAIN word[at.w] = 1..Len(word[at.w])
    BY <1>1
  <1>3. at.i \in 1..Len(word[at.w])
    BY <1>1, <1>2
  <1> QED BY <1>1, <1>2, <1>3 DEF Left, ToSet, Current

(* mark_jet_for_dequeue() on the jets of a disjunct that is deleted leaves *)
(* every refcount right, and touches no list of another word.              *)
LEMMA DiscardKeeps ==
  ASSUME PruneInv, InWord, NEW f, Discard(f)
  PROVE  PruneInv'
  <1> DEFINE w == at.w
             i == at.i
             d == Current
  <1>1. /\ w \in Words /\ word[w] \in Seq(Nat) /\ IsInjective(word[w])
        /\ i \in 1..Len(word[w]) /\ d \in Left(w) /\ d = word[w][i]
    BY CurrentIsLeft DEF PruneInv, Current
  <1>2. /\ word' = [word EXCEPT ![w] = RemoveAt(word[w], i)]
        /\ refcount' = Dequeue(w, d)
        /\ sentence' = sentence /\ table' = table /\ at' = at
    BY DEF Discard, input
  <1>3. Words' = Words /\ sent_length' = sent_length /\ AllCells' = AllCells
    BY <1>2 DEF Words, sent_length, L!Words, L!length, AllCells, PowerTable, CellsOf, Jet, Side
  <1>4. \A c, S : Uses(c, S)' = Uses(c, S)
    BY <1>2 DEF Uses, Jet, Side
  <1>5. /\ RemoveAt(word[w], i) \in Seq(Nat) /\ IsInjective(RemoveAt(word[w], i))
        /\ ToSet(RemoveAt(word[w], i)) = Left(w) \ {d}
    BY <1>1, RemoveOne DEF Left
  <1> HIDE DEF w, i, d
  <1>6. /\ word' \in [Words -> Seq(Nat)]
        /\ word'[w] = RemoveAt(word[w], i)
        /\ \A v \in Words : v # w => word'[v] = word[v]
    BY <1>1, <1>2, <1>5 DEF PruneInv, Remaining
  <1>7. \A v \in Words : Left(v)' = IF v = w THEN Left(w) \ {d} ELSE Left(v)
    BY <1>5, <1>6 DEF Left
  <1>8. Lists' /\ Position'
    BY <1>2, <1>3 DEF PruneInv, Lists, Position
  <1>9. Remaining'
    <2> SUFFICES ASSUME NEW v \in Words
                 PROVE  IsInjective(word'[v]) /\ Left(v)' \subseteq DOMAIN sentence[v]
      BY <1>2, <1>3, <1>6 DEF Remaining
    <2>1. IsInjective(word[v]) /\ Left(v) \subseteq DOMAIN sentence[v]
      BY DEF PruneInv, Remaining
    <2> QED BY <1>5, <1>6, <1>7, <2>1
  <1>10. ASSUME NEW c \in AllCells
         PROVE  /\ refcount'[c] = Uses(c, Left(c.w)')
                /\ refcount'[c] <= refcount[c] /\ refcount[c] \in Nat /\ refcount'[c] \in Int
    <2>1. c.w \in Words /\ c.dir \in Dirs /\ refcount[c] = Uses(c, Left(c.w)) /\ c \in DOMAIN refcount
      BY CellWords DEF PruneInv, Counted
    <2>2. refcount'[c] = IF c \in JetCells(w, d) THEN refcount[c] - 1 ELSE refcount[c]
      BY <1>2, <2>1 DEF Dequeue
    <2>3. IsFiniteSet(Left(c.w))
      BY <2>1, LeftFinite DEF PruneInv
    <2>4. refcount[c] \in Nat
      <3>1. Uses(c, Left(c.w)) \in Nat
        <4>1. {k \in Left(c.w) : c \in ToSet(Jet(c.dir, c.w, k))} \in SUBSET Left(c.w)
          OBVIOUS
        <4>2. IsFiniteSet({k \in Left(c.w) : c \in ToSet(Jet(c.dir, c.w, k))})
          BY <2>3, <4>1, FS_Subset
        <4> QED BY <4>2, FS_CardinalityType DEF Uses
      <3> QED BY <2>1, <3>1
    <2>5. c \in JetCells(w, d) <=> c.w = w /\ c \in ToSet(Jet(c.dir, c.w, d))
      <3>1. c \in JetCells(w, d) => c.w = w /\ c \in ToSet(Jet(c.dir, c.w, d))
        BY CellOfJet DEF JetCells
      <3>2. c.dir = 0 \/ c.dir = 1
        BY <2>1 DEF Dirs
      <3> QED BY <3>1, <3>2 DEF JetCells
    <2>6. CASE c.w = w
      <3>1. Uses(c, Left(c.w) \ {d}) =
              IF c \in ToSet(Jet(c.dir, c.w, d)) THEN Uses(c, Left(c.w)) - 1 ELSE Uses(c, Left(c.w))
        BY <1>1, <2>3, <2>6, OneUseLess
      <3>2. Left(c.w)' = Left(c.w) \ {d}
        BY <1>7, <2>1, <2>6
      <3> QED BY <2>1, <2>2, <2>4, <2>5, <2>6, <3>1, <3>2
    <2>7. CASE c.w # w
      BY <1>7, <2>1, <2>2, <2>4, <2>5, <2>7
    <2> QED BY <2>6, <2>7
  <1>11. Counted'
    <2>1. refcount' = [c \in AllCells |-> refcount'[c]]
      <3>1. DOMAIN refcount = AllCells
        BY DEF PruneInv, Counted
      <3> QED BY <1>2, <3>1 DEF Dequeue
    <2>2. \A c \in AllCells : (refcount[c] = Uses(c, Left(c.w)))'
      BY <1>4, <1>10
    <2> QED BY <1>3, <2>1, <2>2 DEF Counted
  <1>12. Tabled'
    BY <1>2, <1>3, <1>10 DEF PruneInv, Tabled
  <1> QED BY <1>8, <1>9, <1>11, <1>12 DEF PruneInv

(* Steps that leave the lists of disjuncts and the refcounts alone.        *)
LEMMA OthersKeep ==
  ASSUME PruneInv, sentence' = sentence, word' = word, refcount' = refcount, Position', Tabled'
  PROVE  PruneInv'
  <1>1. Words' = Words /\ sent_length' = sent_length /\ AllCells' = AllCells
    BY DEF Words, sent_length, L!Words, L!length, AllCells, PowerTable, CellsOf, Jet, Side
  <1>2. \A c : Uses(c, Left(c.w))' = Uses(c, Left(c.w))
    BY DEF Uses, Jet, Side, Left
  <1>3. Lists' /\ Remaining' /\ Counted'
    BY <1>1, <1>2 DEF PruneInv, Lists, Remaining, Counted, Left
  <1> QED BY <1>3 DEF PruneInv

(* clean_table() takes out what is not used any more, and nothing else.    *)
LEMMA CleanKeeps ==
  ASSUME PruneInv, NEW dir \in Dirs, NEW w \in Words,
         sentence' = sentence, refcount' = refcount,
         table' = CleanTable(dir, w) \/ table' = table
  PROVE  Tabled'
  <1>1. AllCells' = AllCells /\ Words' = Words
    BY DEF AllCells, PowerTable, CellsOf, Jet, Side, Words, L!Words, L!length
  <1>2. table \in [Dirs -> [Words -> SUBSET AllCells]]
    BY DEF PruneInv, Tabled
  <1>3. CASE table' = table
    BY <1>1, <1>3 DEF PruneInv, Tabled
  <1>4. CASE table' = CleanTable(dir, w)
    <2> DEFINE kept == {c \in table[dir][w] : refcount[c] > 0}
    <2>1. table' = [table EXCEPT ![dir][w] = kept]
      BY <1>4 DEF CleanTable
    <2>2. kept \in SUBSET AllCells
      BY <1>2
    <2>3. \A c : c \in kept <=> c \in table[dir][w] /\ refcount[c] > 0
      OBVIOUS
    <2> HIDE DEF kept
    <2>4. table' \in [Dirs -> [Words -> SUBSET AllCells]]
      BY <1>2, <2>1, <2>2
    <2>5. \A e \in Dirs, v \in Words : table'[e][v] = IF e = dir /\ v = w THEN kept ELSE table[e][v]
      BY <1>2, <2>1
    <2>6. ASSUME NEW c \in AllCells, refcount[c] > 0
          PROVE  c \in table'[c.dir][c.w]
      <3>1. c \in table[c.dir][c.w] /\ c.dir \in Dirs /\ c.w \in Words
        BY <2>6, CellWords DEF PruneInv, Tabled
      <3> QED BY <2>3, <2>5, <2>6, <3>1
    <2> QED BY <1>1, <2>4, <2>6 DEF Tabled
  <1> QED BY <1>3, <1>4

(* A call of power_prune() starts at the first word.                       *)
LEMMA StartsAtWord ==
  ASSUME PruneInv, sentence' = sentence, NEW k, StartPowerPrune(k)
  PROVE  Position'
  <1>1. sent_length \in Nat \ {0} /\ Words' = Words
    BY DEF PruneInv, Lists, Words, L!Words, L!length
  <1>2. 0 \in Words
    BY <1>1 DEF Words, sent_length, L!Words
  <1> QED BY <1>1, <1>2 DEF StartPowerPrune, Position, Dirs

LEMMA StepKeeps ==
  ASSUME PruneInv, [PruneNext]_prunevars
  PROVE  PruneInv'
  <1>1. /\ sent_length \in Nat \ {0} /\ Words = 0..(sent_length - 1)
        /\ at.dir \in Dirs /\ at.w \in Words /\ at.i \in Nat \ {0}
        /\ at = [dir |-> at.dir, w |-> at.w, i |-> at.i]
        /\ 1 - at.dir \in Dirs /\ 0 \in Dirs /\ 0 \in Words
    BY DEF PruneInv, Lists, Position, Words, sent_length, L!Words, Dirs
  <1>2. ASSUME sentence' = sentence, NEW d \in Dirs, NEW w \in Words, NEW i \in Nat \ {0},
               at' = [dir |-> d, w |-> w, i |-> i]
        PROVE  Position'
    <2>1. Words' = Words
      BY <1>2 DEF Words, L!Words, L!length
    <2> QED BY <1>2, <2>1 DEF Position, Dirs
  <1>3. sentence' = sentence /\ refcount' = refcount /\ table' = table => Tabled'
    BY <1>1, CleanKeeps
  <1>4. sentence' = sentence /\ at' = at => Position'
    BY <1>1, <1>2
  <1>5. CASE SkipDisjunct
    <2>1. /\ at' = [dir |-> at.dir, w |-> at.w, i |-> at.i + 1]
          /\ sentence' = sentence /\ word' = word /\ refcount' = refcount /\ table' = table
      BY <1>1, <1>5 DEF SkipDisjunct, input
    <2> QED BY <1>1, <1>2, <1>3, <2>1, OthersKeep
  <1>6. CASE DiscardBad
    BY <1>6, DiscardKeeps DEF DiscardBad
  <1>7. CASE UpdateDisjunct
    <2> DEFINE U == {ListUpdate(Jet(at.dir, at.w, Current), at.w)}
    <2>1. PICK u \in U : IF u.n = BadWord THEN Discard(u.f)
                         ELSE /\ at' = [at EXCEPT !.i = @ + 1]
                              /\ UNCHANGED <<input, word, refcount, table>>
      BY <1>7 DEF UpdateDisjunct
    <2>2. CASE u.n = BadWord
      BY <1>7, <2>1, <2>2, DiscardKeeps DEF UpdateDisjunct
    <2>3. CASE u.n # BadWord
      <3>1. /\ at' = [dir |-> at.dir, w |-> at.w, i |-> at.i + 1]
            /\ sentence' = sentence /\ word' = word /\ refcount' = refcount /\ table' = table
        BY <1>1, <2>1, <2>3 DEF input
      <3> QED BY <1>1, <1>2, <1>3, <3>1, OthersKeep
    <2> QED BY <2>2, <2>3
  <1>8. CASE EndWord
    <2>1. /\ sentence' = sentence /\ word' = word /\ refcount' = refcount
          /\ table' = CleanTable(1 - at.dir, at.w)
      BY <1>8 DEF EndWord, input
    <2>2. Position'
      <3>1. CASE EndOfPass(at.dir, at.w)
        BY <1>4, <1>8, <2>1, <3>1 DEF EndWord
      <3>2. CASE ~EndOfPass(at.dir, at.w)
        <4>1. at' = [dir |-> at.dir, w |-> IF at.dir = 0 THEN at.w + 1 ELSE at.w - 1, i |-> 1]
          BY <1>1, <1>8, <3>2 DEF EndWord
        <4>2. (at.dir = 0 => at.w # sent_length - 1) /\ (at.dir # 0 => at.w # 0)
          BY <3>2 DEF EndOfPass
        <4>3. (IF at.dir = 0 THEN at.w + 1 ELSE at.w - 1) \in Words
          BY <1>1, <4>2
        <4> QED BY <1>1, <1>2, <2>1, <4>1, <4>3
      <3> QED BY <3>1, <3>2
    <2>3. Tabled'
      BY <1>1, <2>1, CleanKeeps
    <2> QED BY <2>1, <2>2, <2>3, OthersKeep
  <1>9. CASE PassEnd
    <2>1. /\ sentence' = sentence /\ word' = word /\ refcount' = refcount /\ table' = table
          /\ at' = at \/ at' = [dir |-> 1 - at.dir, w |-> at.w, i |-> 1]
      BY <1>9 DEF PassEnd, input
    <2>2. Position'
      BY <1>1, <1>2, <1>4, <2>1
    <2> QED BY <1>3, <2>1, <2>2, OthersKeep
  <1>10. ASSUME UseMlinkTable
         PROVE  PruneInv'
    <2>1. sentence' = sentence /\ word' = word /\ refcount' = refcount /\ table' = table
      BY <1>10 DEF UseMlinkTable, input
    <2>2. Position'
      <3>1. CASE null_links = 0
        BY <1>1, <1>2, <1>10, <2>1, <3>1 DEF UseMlinkTable
      <3>2. CASE null_links # 0
        BY <1>10, <2>1, <3>2, StartsAtWord DEF UseMlinkTable
      <3> QED BY <3>1, <3>2
    <2> QED BY <1>3, <2>1, <2>2, OthersKeep
  <1>11. CASE AfterFirst \/ AfterPP
    BY <1>10, <1>11 DEF AfterFirst, AfterPP
  <1>12. CASE CrossMlinkPrune
    <2>1. sentence' = sentence /\ word' = word /\ refcount' = refcount /\ table' = table
      BY <1>12 DEF CrossMlinkPrune, input
    <2>2. Position'
      <3>1. CASE at.w < sent_length - 1
        <4>1. at' = [at EXCEPT !.w = @ + 1]
          BY <1>12, <3>1 DEF CrossMlinkPrune
        <4>2. at.w + 1 \in Words
          BY <1>1, <3>1
        <4>3. at' = [dir |-> at.dir, w |-> at.w + 1, i |-> at.i]
          BY <1>1, <4>1
        <4> QED BY <1>1, <1>2, <2>1, <4>2, <4>3
      <3>2. CASE ~(at.w < sent_length - 1)
        BY <1>12, <2>1, <3>2, StartsAtWord DEF CrossMlinkPrune
      <3> QED BY <3>1, <3>2
    <2> QED BY <1>3, <2>1, <2>2, OthersKeep
  <1>13. CASE PPPrune
    <2>1. sentence' = sentence /\ word' = word /\ refcount' = refcount /\ table' = table
      BY <1>13 DEF PPPrune, input
    <2>2. Position'
      <3>1. CASE BadNames # {}
        BY <1>13, <2>1, <3>1, StartsAtWord DEF PPPrune
      <3>2. CASE ~(BadNames # {})
        BY <1>4, <1>13, <2>1, <3>2 DEF PPPrune
      <3> QED BY <3>1, <3>2
    <2> QED BY <1>3, <2>1, <2>2, OthersKeep
  <1>14. CASE End
    BY <1>3, <1>4, <1>14, OthersKeep DEF End, Finish, input
  <1>15. CASE UNCHANGED prunevars
    BY <1>3, <1>4, <1>15, OthersKeep DEF prunevars, input
  <1> QED BY <1>5, <1>6, <1>7, <1>8, <1>9, <1>11, <1>12, <1>13, <1>14, <1>15 DEF PruneNext

-----------------------------------------------------------------------------
(* After power_table_init() every connector is used by the jets that have  *)
(* it, and is in the table.                                                *)
LEMMA InitInv ==
  ASSUME PruneInit
  PROVE  PruneInv
  <1>1. PICK s \in Sentences : sentence = L!SetupConnectors(s)
    BY DEF PruneInit
  <1>2. /\ DOMAIN sentence = DOMAIN s
        /\ Cardinality(DOMAIN s) \in Nat \ {0}
        /\ DOMAIN s = 0..(Cardinality(DOMAIN s) - 1)
        /\ \A w \in DOMAIN s : sentence[w] \in Seq(ToSet(sentence[w]))
    BY <1>1, SentenceAssumption DEF L!SetupConnectors
  <1>3. sent_length \in Nat \ {0} /\ Words = DOMAIN s /\ 0 \in Words
    BY <1>2 DEF sent_length, Words, L!Words, L!length
  <1>4. Lists
    BY <1>2, <1>3 DEF Lists
  <1>5. /\ word = [w \in Words |-> [i \in DOMAIN sentence[w] |-> i]]
        /\ refcount = [c \in AllCells |-> Uses(c, DOMAIN sentence[c.w])]
        /\ table = [dir \in Dirs |-> [w \in Words |-> PowerTable(dir, w)]]
        /\ at = [dir |-> 0, w |-> 0, i |-> 1]
    BY DEF PruneInit
  <1>6. ASSUME NEW w \in Words
        PROVE  word[w] \in Seq(Nat) /\ IsInjective(word[w]) /\ Left(w) = DOMAIN sentence[w]
    <2>1. DOMAIN sentence[w] = 1..Len(sentence[w]) /\ Len(sentence[w]) \in Nat
      BY <1>4 DEF Lists
    <2>2. word[w] = [i \in 1..Len(sentence[w]) |-> i]
      BY <1>5, <2>1
    <2>3. word[w] \in Seq(Nat)
      BY <2>1, <2>2
    <2>4. ToSet(word[w]) = 1..Len(sentence[w])
      BY <2>2 DEF ToSet
    <2> QED BY <2>1, <2>2, <2>3, <2>4 DEF IsInjective, Left
  <1>7. Remaining
    <2>1. word \in [Words -> Seq(Nat)]
      BY <1>5, <1>6
    <2> QED BY <1>6, <2>1 DEF Remaining
  <1>8. Position
    BY <1>3, <1>5 DEF Position, Dirs
  <1>9. Counted
    BY <1>5, <1>6, CellWords DEF Counted
  <1>10. Tabled
    <2>1. \A dir \in Dirs, w \in Words : PowerTable(dir, w) \subseteq AllCells
      BY DEF AllCells
    <2>2. table \in [Dirs -> [Words -> SUBSET AllCells]]
      BY <1>5, <2>1
    <2>3. ASSUME NEW c \in AllCells
          PROVE  c \in table[c.dir][c.w]
      <3>1. PICK dir \in Dirs, w \in Words : c \in PowerTable(dir, w)
        BY DEF AllCells
      <3>2. c.dir = dir /\ c.w = w
        BY <3>1, CellOfJet DEF PowerTable, CellsOf
      <3> QED BY <1>5, <3>1, <3>2
    <2> QED BY <2>2, <2>3 DEF Tabled
  <1> QED BY <1>4, <1>7, <1>8, <1>9, <1>10 DEF PruneInv

(* The invariant holds while a sentence is pruned: the lists have none of  *)
(* the sentence's disjuncts twice, and a pass is at a word of it.          *)
THEOREM PruningInvariance == PruneSpec => []PruneInv
  <1>1. PruneInit => PruneInv
    BY InitInv
  <1>2. PruneInv /\ [PruneNext]_prunevars => PruneInv'
    BY StepKeeps
  <1> QED BY <1>1, <1>2, PTL DEF PruneSpec

(* What put_into_power_table() and clean_table() assert of the refcounts   *)
(* holds, for any sentence and through every call of power_prune(): they   *)
(* are the numbers of remaining jets, and clean_table() takes no connector *)
(* out of the power table that a remaining disjunct has.                   *)
THEOREM RefcountsCorrect == PruneSpec => []RefcountsExact
  <1>1. PruneInv => RefcountsExact
    BY DEF PruneInv, Counted, Tabled, RefcountsExact
  <1> QED BY <1>1, PruningInvariance, PTL
=============================================================================
