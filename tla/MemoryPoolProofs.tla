-------------------------- MODULE MemoryPoolProofs --------------------------
(***************************************************************************)
(* Proofs about MemoryPool, for every element size, block size, alignment, *)
(* set of vector sizes and number of blocks.  The argument: everything     *)
(* issued lies before the allocation point (current block, alloc_next),    *)
(* and in a zero_out pool everything after that point in the current block *)
(* is still clean.                                                         *)
(***************************************************************************)
EXTENDS MemoryPool, TLAPS

(* The allocation point exists exactly when there is a block.              *)
PointInv ==
  /\ (ring = 0) <=> (blocks = 0)
  /\ (alloc_next = -1) <=> (ring = 0)

(* Issued regions lie in the data part of a block, before the point.       *)
BeforePoint ==
  \A r \in live :
    /\ 1 <= r.blk /\ r.blk <= ring
    /\ r.off + r.len <= DataSize
    /\ r.blk = ring => r.off + r.len <= alloc_next

(* Issued regions are apart from each other.                               *)
Apart ==
  \A r, s \in live : r # s =>
    \/ r.blk # s.blk
    \/ r.off + r.len <= s.off
    \/ s.off + s.len <= r.off

(* The rest of the current block is clean.                                 *)
CleanAhead == ZeroOut => \A p \in dirty : p[1] = ring => p[2] < alloc_next

(* Only the data part of a block is ever filled.                           *)
DirtyInData == \A p \in dirty : p[2] < DataSize

PoolInv == TypeOK /\ PointInv /\ BeforePoint /\ Apart /\ CleanAhead /\ DirtyInData

-----------------------------------------------------------------------------
(* ALIGN() rounds up: the data part of a block has room for its elements.  *)
LEMMA AlignRoundsUp ==
  ASSUME NEW x \in Nat, NEW a \in Nat \ {0}
  PROVE  ALIGN(x, a) \in Nat /\ ALIGN(x, a) >= x
  <1>1. (x + a - 1) \div a \in Nat
    OBVIOUS
  <1>2. x + a - 1 = a * ((x + a - 1) \div a) + ((x + a - 1) % a)
    OBVIOUS
  <1>3. (x + a - 1) % a \in 0..(a - 1)
    OBVIOUS
  <1>4. a * ((x + a - 1) \div a) = ((x + a - 1) \div a) * a
    BY <1>1
  <1> QED BY <1>1, <1>2, <1>3, <1>4 DEF ALIGN

(* The size of a vector that pool_alloc_vec() does not refuse is positive  *)
(* and fits in an empty block.                                             *)
LEMMA VectorFits ==
  ASSUME NEW v \in Vecs, v < NumElements
  PROVE  /\ v \in Nat /\ ElementSize * v \in Nat /\ DataSize \in Nat
         /\ ElementSize * v <= DataSize
  <1>1. v \in Nat /\ NumElements \in Nat /\ ElementSize \in Nat
        /\ NextSize \in Nat \ {0}
    BY PoolAssumption
  <1>2. ElementSize * v \in Nat /\ ElementSize * v <= NumElements * ElementSize
        /\ NumElements * ElementSize \in Nat
    BY <1>1
  <1>3. DataSize \in Nat /\ NumElements * ElementSize <= DataSize
    BY <1>1, <1>2, AlignRoundsUp DEF DataSize
  <1> HIDE DEF DataSize
  <1>4. \A x, y, z \in Nat : x <= y /\ y <= z => x <= z
    OBVIOUS
  <1> QED BY <1>1, <1>2, <1>3, <1>4

(* The data part of a block has a size.                                    *)
LEMMA DataSizeNat == DataSize \in Nat
  <1>1. NumElements * ElementSize \in Nat /\ NextSize \in Nat \ {0}
    BY PoolAssumption
  <1> QED BY <1>1, AlignRoundsUp DEF DataSize

(* Issuing a region at a place that follows all the others, in a block     *)
(* that is clean from there on, keeps the invariant.                       *)
LEMMA IssueKeeps ==
  ASSUME PoolInv, NEW b \in Nat \ {0}, NEW off \in Nat, NEW v \in Nat,
         ElementSize * v \in Nat,
         off + ElementSize * v <= DataSize,
         Issue(b, off, v),
         blocks' \in Nat, b <= blocks',
         \A r \in live : r.blk < b \/ (r.blk = b /\ r.off + r.len <= off),
         dirty' \subseteq Nat \X Nat, DirtyInData',
         ZeroOut => \A p \in dirty' : p[1] = b => p[2] < off,
         loc' = loc
  PROVE  /\ PoolInv'
         /\ ZeroOut => \A r \in live' \ live : BytesOf(r) \cap dirty' = {}
  <1> DEFINE n == ElementSize * v
             new == [blk |-> b, off |-> off, len |-> n, last |-> issued_elements + v]
  <1>1. /\ ring' = b /\ alloc_next' = off + n
        /\ issued_elements' = issued_elements + v
        /\ live' = live \cup {new}
    BY DEF Issue
  <1>2. n \in Nat /\ DataSize \in Nat
    BY DataSizeNat
  <1>3. TypeOK'
    <2>1. issued_elements \in Nat /\ live \subseteq Region
          /\ loc \in [number : Nat, blk : Nat, off : Nat, end : Nat]
      BY DEF PoolInv, TypeOK
    <2>2. new \in Region
      BY <1>2, <2>1 DEF Region
    <2>3. off + n <= DataSize /\ (DataSize)' = DataSize
      BY DEF DataSize
    <2> HIDE DEF n, new
    <2>4. b \in 0..blocks' /\ off + n \in -1..DataSize
      BY <1>2, <2>3
    <2> QED BY <1>1, <2>1, <2>2, <2>3, <2>4 DEF TypeOK
  <1>4. \A r \in live : /\ r.blk \in Nat /\ r.off \in Nat /\ r.len \in Nat
                        /\ 1 <= r.blk /\ r.off + r.len <= DataSize
    BY DEF PoolInv, TypeOK, Region, BeforePoint
  <1>5. new.blk = b /\ new.off = off /\ new.len = n
    OBVIOUS
  <1> HIDE DEF n, new
  <1>6. PointInv'
    BY <1>1, <1>2 DEF PointInv
  <1>7. BeforePoint'
    <2>1. off + n <= DataSize
      BY DEF n
    <2> QED BY <1>1, <1>2, <1>4, <1>5, <2>1 DEF BeforePoint
  <1>8. Apart'
    <2> SUFFICES ASSUME NEW r \in live \cup {new}, NEW s \in live \cup {new}, r # s
                 PROVE  \/ r.blk # s.blk
                        \/ r.off + r.len <= s.off
                        \/ s.off + s.len <= r.off
      BY <1>1 DEF Apart
    <2>1. CASE r \in live /\ s \in live
      BY <2>1 DEF PoolInv, Apart
    <2>2. CASE r \in live /\ s = new
      BY <2>2, <1>2, <1>4, <1>5
    <2>3. CASE s \in live /\ r = new
      BY <2>3, <1>2, <1>4, <1>5
    <2> QED BY <2>1, <2>2, <2>3
  <1>9. CleanAhead'
    <2> SUFFICES ASSUME ZeroOut, NEW p \in dirty', p[1] = b
                 PROVE  p[2] < off + n
      BY <1>1 DEF CleanAhead
    <2>1. p[2] \in Nat /\ p[2] < off
      OBVIOUS
    <2> QED BY <2>1, <1>2
  <1>10. ASSUME ZeroOut, NEW r \in live' \ live
         PROVE  BytesOf(r) \cap dirty' = {}
    <2>1. r = new
      BY <1>10, <1>1
    <2> SUFFICES ASSUME NEW p \in BytesOf(new), p \in dirty'
                 PROVE  FALSE
      BY <2>1
    <2>2. p[1] = b /\ p[2] \in off..(off + n - 1)
      BY <1>5 DEF BytesOf, Bytes
    <2>3. p[2] < off
      BY <1>10, <2>2
    <2> QED BY <1>2, <2>2, <2>3
  <1> QED BY <1>3, <1>6, <1>7, <1>8, <1>9, <1>10 DEF PoolInv

-----------------------------------------------------------------------------
(* Each action of the pool keeps the invariant and issues clean memory.    *)
Clean == ZeroOut => \A r \in live' \ live : BytesOf(r) \cap dirty' = {}

(* pool_alloc_vec() from the current block.                                *)
LEMMA AllocCurrentKeeps ==
  ASSUME PoolInv, NEW v \in Vecs, AllocCurrent(v)
  PROVE  PoolInv' /\ Clean
  <1>1. /\ v < NumElements /\ alloc_next # -1
        /\ ~(alloc_next + ElementSize * v > DataSize)
        /\ blocks' = blocks /\ dirty' = dirty /\ loc' = loc
        /\ Issue(ring, alloc_next, v)
    BY DEF AllocCurrent, Exhausted
  <1>2. v \in Nat /\ ElementSize * v \in Nat /\ DataSize \in Nat
    BY <1>1, VectorFits
  <1>3. /\ ring \in Nat \ {0} /\ alloc_next \in Nat /\ blocks \in Nat
        /\ ring <= blocks
    BY <1>1 DEF PoolInv, TypeOK, PointInv
  <1>4. alloc_next + ElementSize * v <= DataSize
    BY <1>1, <1>2, <1>3
  <1>5. \A r \in live : r.blk < ring \/ (r.blk = ring /\ r.off + r.len <= alloc_next)
    <2> SUFFICES ASSUME NEW r \in live
                 PROVE  r.blk < ring \/ (r.blk = ring /\ r.off + r.len <= alloc_next)
      OBVIOUS
    <2>1. r.blk \in Nat
      BY DEF PoolInv, TypeOK, Region
    <2>2. r.blk <= ring /\ (r.blk = ring => r.off + r.len <= alloc_next)
      BY DEF PoolInv, BeforePoint
    <2> QED BY <1>3, <2>1, <2>2
  <1>6. dirty' \subseteq Nat \X Nat
        /\ (ZeroOut => \A p \in dirty' : p[1] = ring => p[2] < alloc_next)
    BY <1>1 DEF PoolInv, TypeOK, CleanAhead
  <1>7. DirtyInData'
    BY <1>1 DEF PoolInv, DirtyInData, DataSize
  <1> QED BY <1>1, <1>2, <1>3, <1>4, <1>5, <1>6, <1>7, IssueKeeps DEF Clean

(* pool_alloc_vec() from the next block of the chain, after pool_reuse().  *)
LEMMA AllocNextBlockKeeps ==
  ASSUME PoolInv, NEW v \in Vecs, AllocNextBlock(v)
  PROVE  PoolInv' /\ Clean
  <1>1. /\ v < NumElements /\ ring < blocks
        /\ blocks' = blocks /\ loc' = loc
        /\ dirty' = IF ZeroOut THEN dirty \ Block(ring + 1) ELSE dirty
        /\ Issue(ring + 1, 0, v)
    BY DEF AllocNextBlock, Zeroed
  <1>2. /\ v \in Nat /\ ElementSize * v \in Nat /\ DataSize \in Nat
        /\ 0 + ElementSize * v <= DataSize
    BY <1>1, VectorFits
  <1>3. ring + 1 \in Nat \ {0} /\ blocks \in Nat /\ ring + 1 <= blocks
    BY <1>1 DEF PoolInv, TypeOK
  <1>4. \A r \in live : r.blk < ring + 1
    BY <1>3 DEF PoolInv, TypeOK, Region, BeforePoint
  <1>5. dirty' \subseteq Nat \X Nat /\ dirty' \subseteq dirty
    BY <1>1 DEF PoolInv, TypeOK
  <1>6. DirtyInData'
    BY <1>5 DEF PoolInv, DirtyInData, DataSize
  <1>7. ZeroOut => \A p \in dirty' : p[1] = ring + 1 => p[2] < 0
    <2> SUFFICES ASSUME ZeroOut, NEW p \in dirty', p[1] = ring + 1
                 PROVE  FALSE
      OBVIOUS
    <2>1. p \in dirty /\ p \notin Block(ring + 1)
      BY <1>1
    <2>2. p \in Nat \X Nat /\ p[2] \in Nat /\ p[2] < DataSize
      BY <2>1 DEF PoolInv, TypeOK, DirtyInData
    <2>3. p = <<ring + 1, p[2]>> /\ p[2] \in 0..(0 + DataSize - 1)
      BY <1>2, <2>2
    <2> QED BY <2>1, <2>3 DEF Block, Bytes
  <1> QED BY <1>1, <1>2, <1>3, <1>4, <1>5, <1>6, <1>7, IssueKeeps DEF Clean

(* pool_alloc_vec() from a new block.                                      *)
LEMMA AllocNewBlockKeeps ==
  ASSUME PoolInv, NEW v \in Vecs, AllocNewBlock(v)
  PROVE  PoolInv' /\ Clean
  <1>1. /\ v < NumElements /\ ring = blocks
        /\ blocks' = blocks + 1 /\ loc' = loc
        /\ dirty' = IF ZeroOut THEN (dirty \cup Block(blocks + 1)) \ Block(blocks + 1)
                                ELSE dirty \cup Block(blocks + 1)
        /\ Issue(blocks + 1, 0, v)
    BY DEF AllocNewBlock, Zeroed
  <1>2. /\ v \in Nat /\ ElementSize * v \in Nat /\ DataSize \in Nat
        /\ 0 + ElementSize * v <= DataSize
    BY <1>1, VectorFits
  <1>3. blocks + 1 \in Nat \ {0} /\ blocks' \in Nat /\ blocks + 1 <= blocks'
    BY <1>1 DEF PoolInv, TypeOK
  <1>4. \A r \in live : r.blk < blocks + 1
    BY <1>1, <1>3 DEF PoolInv, TypeOK, Region, BeforePoint
  <1>5. \A p \in Block(blocks + 1) : p \in Nat \X Nat /\ p[2] < DataSize
    BY <1>2, <1>3 DEF Block, Bytes
  <1>6. dirty' \subseteq Nat \X Nat
    BY <1>1, <1>5 DEF PoolInv, TypeOK
  <1>7. DirtyInData'
    BY <1>1, <1>5 DEF PoolInv, DirtyInData, DataSize
  <1>8. ZeroOut => \A p \in dirty' : p[1] = blocks + 1 => p[2] < 0
    <2> SUFFICES ASSUME ZeroOut, NEW p \in dirty', p[1] = blocks + 1
                 PROVE  FALSE
      OBVIOUS
    <2>1. p \in dirty /\ p \notin Block(blocks + 1)
      BY <1>1
    <2>2. p \in Nat \X Nat /\ p[2] \in Nat /\ p[2] < DataSize
      BY <2>1 DEF PoolInv, TypeOK, DirtyInData
    <2>3. p = <<blocks + 1, p[2]>> /\ p[2] \in 0..(0 + DataSize - 1)
      BY <1>2, <2>2
    <2> QED BY <2>1, <2>3 DEF Block, Bytes
  <1> QED BY <1>1, <1>2, <1>3, <1>4, <1>6, <1>7, <1>8, IssueKeeps DEF Clean

(* Filling an issued region dirties only bytes before the point.           *)
LEMMA WriteKeeps ==
  ASSUME PoolInv, Write
  PROVE  PoolInv' /\ Clean
  <1>1. /\ blocks' = blocks /\ ring' = ring /\ alloc_next' = alloc_next
        /\ issued_elements' = issued_elements /\ live' = live /\ loc' = loc
    BY DEF Write
  <1>2. PICK r \in live : dirty' = dirty \cup BytesOf(r)
    BY DEF Write
  <1>3. /\ r.blk \in Nat /\ r.off \in Nat /\ r.len \in Nat
        /\ r.off + r.len <= DataSize
        /\ r.blk = ring => r.off + r.len <= alloc_next
    BY DEF PoolInv, TypeOK, Region, BeforePoint
  <1>4. \A p \in BytesOf(r) : /\ p \in Nat \X Nat /\ p[1] = r.blk
                             /\ p[2] \in Nat /\ p[2] < r.off + r.len
    BY <1>3 DEF BytesOf, Bytes
  <1>5. TypeOK'
    BY <1>1, <1>2, <1>4 DEF PoolInv, TypeOK
  <1>6. PointInv' /\ BeforePoint' /\ Apart'
    BY <1>1 DEF PoolInv, PointInv, BeforePoint, Apart, DataSize
  <1>7. CleanAhead'
    <2> SUFFICES ASSUME ZeroOut, NEW p \in dirty', p[1] = ring
                 PROVE  p[2] < alloc_next
      BY <1>1 DEF CleanAhead
    <2>1. CASE p \in dirty
      BY <2>1 DEF PoolInv, CleanAhead
    <2>2. CASE p \in BytesOf(r)
      BY <2>2, <1>3, <1>4 DEF PoolInv, TypeOK
    <2> QED BY <1>2, <2>1, <2>2
  <1>8. DirtyInData'
    BY <1>2, <1>3, <1>4, DataSizeNat DEF PoolInv, DirtyInData, DataSize
  <1> QED BY <1>1, <1>5, <1>6, <1>7, <1>8 DEF PoolInv, Clean

(* pool_reuse() cleans the first block before it becomes current.          *)
LEMMA ReuseKeeps ==
  ASSUME PoolInv, Reuse
  PROVE  PoolInv' /\ Clean
  <1>1. /\ ring' = IF blocks = 0 THEN 0 ELSE 1
        /\ alloc_next' = IF blocks = 0 THEN -1 ELSE 0
        /\ dirty' = IF ZeroOut /\ blocks # 0 THEN dirty \ Block(1) ELSE dirty
        /\ issued_elements' = 0 /\ live' = {} /\ loc' = NoLoc /\ blocks' = blocks
    BY DEF Reuse, Zeroed
  <1>2. DataSize \in Nat /\ blocks \in Nat /\ dirty' \subseteq dirty
    BY <1>1, DataSizeNat DEF PoolInv, TypeOK
  <1>3. TypeOK'
    BY <1>1, <1>2 DEF PoolInv, TypeOK, NoLoc
  <1>4. PointInv' /\ BeforePoint' /\ Apart' /\ DirtyInData'
    BY <1>1, <1>2 DEF PoolInv, PointInv, BeforePoint, Apart, DirtyInData, DataSize
  <1>5. CleanAhead'
    <2> SUFFICES ASSUME ZeroOut, NEW p \in dirty', p[1] = ring'
                 PROVE  p[2] < alloc_next'
      BY DEF CleanAhead
    <2>1. p \in dirty /\ p \in Nat \X Nat /\ p[2] \in Nat /\ p[2] < DataSize
      BY <1>2 DEF PoolInv, TypeOK, DirtyInData
    <2>2. CASE blocks = 0
      BY <1>1, <2>1, <2>2 DEF PoolInv, PointInv, CleanAhead
    <2>3. CASE blocks # 0
      <3>1. p \notin Block(1)
        BY <1>1, <2>3
      <3>2. p = <<1, p[2]>> /\ p[2] \in 0..(0 + DataSize - 1)
        BY <1>1, <1>2, <2>1, <2>3
      <3> QED BY <3>1, <3>2 DEF Block, Bytes
    <2> QED BY <2>2, <2>3
  <1> QED BY <1>1, <1>3, <1>4, <1>5 DEF PoolInv, Clean

(* A pool that was just created is empty.                                  *)
LEMMA NewPool ==
  ASSUME blocks = 0, ring = 0, alloc_next = -1, issued_elements = 0,
         live = {}, dirty = {}, loc = NoLoc
  PROVE  PoolInv
  BY DataSizeNat DEF PoolInv, TypeOK, PointInv, BeforePoint, Apart, CleanAhead,
     DirtyInData, NoLoc

(* pool_delete(), followed by pool_new().                                  *)
LEMMA DeleteAndNewKeeps ==
  ASSUME DeleteAndNew
  PROVE  PoolInv' /\ Clean
  BY DataSizeNat DEF DeleteAndNew, PoolInv, TypeOK, PointInv, BeforePoint, Apart,
     CleanAhead, DirtyInData, NoLoc, Clean, DataSize

(* A traversal changes its own location only.                              *)
LEMMA PoolNextKeeps ==
  ASSUME PoolInv, PoolNext
  PROVE  PoolInv' /\ Clean
  <1>1. /\ blocks' = blocks /\ ring' = ring /\ alloc_next' = alloc_next
        /\ issued_elements' = issued_elements /\ live' = live /\ dirty' = dirty
        /\ loc' = IF loc.number = issued_elements THEN NoLoc ELSE NextLocation(loc)
    BY DEF PoolNext
  <1>2. loc' \in [number : Nat, blk : Nat, off : Nat, end : Nat]
    <2>1. /\ loc \in [number : Nat, blk : Nat, off : Nat, end : Nat]
          /\ DataSize \in Nat /\ ElementSize \in Nat
      BY DataSizeNat, PoolAssumption DEF PoolInv, TypeOK
    <2> HIDE DEF DataSize
    <2>2. NextLocation(loc) \in [number : Nat, blk : Nat, off : Nat, end : Nat]
      <3>1. CASE loc.number = 0
        BY <2>1, <3>1 DEF NextLocation
      <3>2. CASE loc.number # 0 /\ loc.off + ElementSize = loc.end
        BY <2>1, <3>2 DEF NextLocation
      <3>3. CASE loc.number # 0 /\ loc.off + ElementSize # loc.end
        <4>1. NextLocation(loc) = [loc EXCEPT !.number = loc.number + 1,
                                              !.off = loc.off + ElementSize]
          BY <3>3 DEF NextLocation
        <4>2. loc.number + 1 \in Nat /\ loc.off + ElementSize \in Nat
          BY <2>1
        <4> QED BY <2>1, <4>1, <4>2
      <3> QED BY <3>1, <3>2, <3>3
    <2>3. NoLoc \in [number : Nat, blk : Nat, off : Nat, end : Nat]
      BY DEF NoLoc
    <2> QED BY <1>1, <2>2, <2>3
  <1> QED BY <1>1, <1>2 DEF PoolInv, TypeOK, PointInv, BeforePoint, Apart,
          CleanAhead, DirtyInData, DataSize, Clean

(* Every step keeps the invariant, and every step that is not a stutter    *)
(* issues clean memory only.                                               *)
LEMMA StepKeeps ==
  ASSUME PoolInv, [Next]_vars
  PROVE  PoolInv' /\ (vars' # vars => Clean)
  <1>1. CASE Next
    <2>1. CASE Alloc
      <3>1. PICK v \in Vecs : \/ AllocRefused(v) \/ AllocCurrent(v)
                              \/ AllocNextBlock(v) \/ AllocNewBlock(v)
        BY <2>1 DEF Alloc
      <3>2. CASE AllocRefused(v)
        BY <3>2 DEF AllocRefused, vars, PoolInv, TypeOK, PointInv, BeforePoint,
           Apart, CleanAhead, DirtyInData, DataSize
      <3> QED BY <3>1, <3>2, AllocCurrentKeeps, AllocNextBlockKeeps, AllocNewBlockKeeps
    <2> QED BY <1>1, <2>1, WriteKeeps, ReuseKeeps, DeleteAndNewKeeps, PoolNextKeeps
         DEF Next
  <1>2. CASE UNCHANGED vars
    BY <1>2 DEF vars, PoolInv, TypeOK, PointInv, BeforePoint, Apart, CleanAhead,
       DirtyInData, DataSize
  <1> QED BY <1>1, <1>2

-----------------------------------------------------------------------------
(* The invariant holds in every behaviour of the pool.                     *)
THEOREM PoolInvariance == Spec => []PoolInv
  <1>1. Init => PoolInv
    BY NewPool DEF Init
  <1>2. PoolInv /\ [Next]_vars => PoolInv'
    BY StepKeeps
  <1> QED BY <1>1, <1>2, PTL DEF Spec

(* The current block stays in the chain and the next element inside it,    *)
(* for every element, block and vector size.                               *)
THEOREM PoolTypeCorrect == Spec => []TypeOK
  <1>1. PoolInv => TypeOK
    BY DEF PoolInv
  <1> QED BY <1>1, PoolInvariance, PTL

(* pool_alloc_vec() issues disjoint regions inside the data parts of       *)
(* existing blocks, for every element, block and vector size, and after    *)
(* any number of pool_reuse().                                             *)
THEOREM PoolRegionsDisjoint == Spec => []RegionsDisjoint
  <1>1. PoolInv => RegionsDisjoint
    <2> SUFFICES ASSUME PoolInv PROVE RegionsDisjoint
      OBVIOUS
    <2>1. \A r \in live : r.blk \in 1..blocks /\ r.off + r.len <= DataSize
      BY DEF PoolInv, TypeOK, Region, PointInv, BeforePoint
    <2> QED BY <2>1 DEF PoolInv, Apart, RegionsDisjoint
  <1> QED BY <1>1, PoolInvariance, PTL

(* A zero_out pool issues only zeroed memory, for every element, block and *)
(* vector size, and after any number of pool_reuse().                      *)
THEOREM PoolIssuesZeroed == Spec => IssuedZeroed
  <1>1. PoolInv /\ [Next]_vars
        => [ZeroOut => \A r \in live' \ live : BytesOf(r) \cap dirty' = {}]_vars
    BY StepKeeps DEF Clean
  <1> QED BY <1>1, PoolInvariance, PTL DEF Spec, IssuedZeroed
-----------------------------------------------------------------------------
(* The order of a traversal.  While only single elements have been issued, *)
(* the regions issued are the elements at consecutive places: the first at *)
(* the start of the first block, each other right after the one before it, *)
(* or at the start of the next block if that one ended its block; the last *)
(* one ends at the allocation point.  A traversal is at one of them.       *)

OnlySingles == /\ DataSize = NumElements * ElementSize
               /\ \A r \in live : r.len = ElementSize

Follows(r, blk, off) ==
  IF r.off + ElementSize = DataSize THEN blk = r.blk + 1 /\ off = 0
                                    ELSE blk = r.blk /\ off = r.off + ElementSize

IsElement(off) == \E k \in 0..(NumElements - 1) : off = k * ElementSize

Consecutive ==
  /\ \A r \in live : r.last \in 1..issued_elements /\ IsElement(r.off)
  /\ \A k \in 1..issued_elements : \E r \in live : r.last = k
  /\ \A r \in live : r.last = 1 => r.blk = 1 /\ r.off = 0
  /\ \A r, s \in live : s.last = r.last + 1 => Follows(r, s.blk, s.off)

PointAtLast ==
  /\ \A r \in live :
       r.last = issued_elements => r.blk = ring /\ alloc_next = r.off + ElementSize
  /\ issued_elements = 0 => (ring = 0 /\ alloc_next = -1) \/ (ring = 1 /\ alloc_next = 0)

AtElement ==
  loc.number > 0 =>
    /\ loc.end = DataSize
    /\ \E r \in live : r.last = loc.number /\ r.blk = loc.blk /\ r.off = loc.off

InOrder == OnlySingles => Consecutive /\ PointAtLast /\ AtElement

(* The elements of a block fill it one after the other: an element that is *)
(* not the last one of the block leaves room for another one.              *)
LEMMA ElementPlaces ==
  ASSUME NEW k \in 0..(NumElements - 1), DataSize = NumElements * ElementSize
  PROVE  /\ k * ElementSize \in Nat
         /\ k = NumElements - 1 => k * ElementSize + ElementSize = DataSize
         /\ k # NumElements - 1 =>
              /\ k + 1 \in 0..(NumElements - 1)
              /\ k * ElementSize + ElementSize = (k + 1) * ElementSize
              /\ k * ElementSize + ElementSize + ElementSize <= DataSize
  <1> DEFINE N == NumElements
             E == ElementSize
  <1>1. N \in Nat \ {0} /\ E \in Nat \ {0} /\ k \in Nat /\ k <= N - 1
    BY PoolAssumption
  <1>2. DataSize = N * E
    OBVIOUS
  <1> HIDE DEF N, E
  <1>3. k * E \in Nat /\ (k + 1) * E = k * E + E /\ (k + 2) * E = k * E + E + E
    BY <1>1
  <1>4. k = N - 1 => N * E = (k + 1) * E
    BY <1>1
  <1>5. ASSUME k # N - 1
        PROVE  k + 1 \in 0..(N - 1) /\ (k + 2) * E <= N * E
    <2> DEFINE d == N - (k + 2)
    <2>1. d \in Nat /\ N = d + (k + 2)
      BY <1>1, <1>5
    <2> HIDE DEF d
    <2>2. (d + (k + 2)) * E = d * E + (k + 2) * E /\ d * E \in Nat
      BY <1>1, <2>1
    <2>3. (k + 2) * E \in Nat
      BY <1>1
    <2>4. \A x, y \in Nat : y <= x + y
      OBVIOUS
    <2>5. (k + 2) * E <= N * E
      BY <2>1, <2>2, <2>3, <2>4
    <2> QED BY <1>1, <1>5, <2>5
  <1>6. /\ k * E \in Nat
        /\ k = N - 1 => k * E + E = DataSize
        /\ k # N - 1 => k + 1 \in 0..(N - 1) /\ k * E + E = (k + 1) * E /\ k * E + E + E <= DataSize
    BY <1>2, <1>3, <1>4, <1>5
  <1> QED BY <1>6 DEF N, E

(* An element that is issued at the place that follows the last one is the *)
(* last one then.                                                          *)
LEMMA IssueInOrder ==
  ASSUME PoolInv, InOrder, loc = NoLoc, loc' = loc,
         NEW b \in Nat \ {0}, NEW off \in Nat, NEW v \in Nat \ {0},
         Issue(b, off, v),
         OnlySingles /\ v = 1 =>
           /\ IsElement(off)
           /\ issued_elements = 0 => b = 1 /\ off = 0
           /\ \A r \in live : r.last = issued_elements => Follows(r, b, off)
  PROVE  InOrder'
  <1> DEFINE new == [blk |-> b, off |-> off, len |-> ElementSize * v, last |-> issued_elements + v]
  <1>1. /\ ring' = b /\ alloc_next' = off + ElementSize * v
        /\ issued_elements' = issued_elements + v
        /\ live' = live \cup {new}
    BY DEF Issue
  <1>2. issued_elements \in Nat /\ ElementSize \in Nat \ {0} /\ loc.number = 0
    BY PoolAssumption DEF PoolInv, TypeOK, NoLoc
  <1>3. new.blk = b /\ new.off = off /\ new.len = ElementSize * v /\ new.last = issued_elements + v
    OBVIOUS
  <1> HIDE DEF new
  <1> SUFFICES ASSUME OnlySingles'
               PROVE  Consecutive' /\ PointAtLast' /\ AtElement'
    BY DEF InOrder
  <1>4. OnlySingles /\ new.len = ElementSize
    <2>1. DataSize' = DataSize /\ (NumElements * ElementSize)' = NumElements * ElementSize
      BY DEF DataSize
    <2> QED BY <1>1, <2>1 DEF OnlySingles
  <1>5. v = 1
    <2>1. v # 1 => \E w \in Nat : v = w + 2
      <3>1. v # 1 => v = (v - 2) + 2 /\ v - 2 \in Nat
        OBVIOUS
      <3> QED BY <3>1
    <2>2. \A w \in Nat : ElementSize * (w + 2) = ElementSize * w + ElementSize + ElementSize
                         /\ ElementSize * w \in Nat
      BY <1>2
    <2>3. \A w \in Nat : ElementSize * (w + 2) # ElementSize
      BY <1>2, <2>2
    <2> QED BY <1>3, <1>4, <2>1, <2>3
  <1>6. Consecutive /\ PointAtLast
    BY <1>4 DEF InOrder
  <1>7. /\ IsElement(off)
        /\ issued_elements = 0 => b = 1 /\ off = 0
        /\ \A r \in live : r.last = issued_elements => Follows(r, b, off)
    BY <1>4, <1>5
  <1>8. new.last = issued_elements + 1 /\ issued_elements' = issued_elements + 1
        /\ alloc_next' = off + ElementSize
    BY <1>1, <1>2, <1>3, <1>5
  <1>9. \A r \in live : r.last \in 1..issued_elements /\ IsElement(r.off)
    BY <1>6 DEF Consecutive
  <1>10. Consecutive'
    <2>1. \A r \in live' : r.last \in 1..issued_elements' /\ IsElement(r.off)'
      BY <1>1, <1>2, <1>3, <1>7, <1>8, <1>9 DEF IsElement
    <2>2. \A k \in 1..issued_elements' : \E r \in live' : r.last = k
      <3> SUFFICES ASSUME NEW k \in 1..(issued_elements + 1)
                   PROVE  \E r \in live \cup {new} : r.last = k
        BY <1>1, <1>8
      <3>1. k \in 1..issued_elements \/ k = new.last
        BY <1>2, <1>8
      <3> QED BY <1>6, <3>1 DEF Consecutive
    <2>3. \A r \in live' : r.last = 1 => r.blk = 1 /\ r.off = 0
      <3>1. new.last = 1 => new.blk = 1 /\ new.off = 0
        BY <1>2, <1>3, <1>7, <1>8
      <3> QED BY <1>1, <1>6, <3>1 DEF Consecutive
    <2>4. ASSUME NEW r \in live', NEW s \in live', s.last = r.last + 1
          PROVE  Follows(r, s.blk, s.off)'
      <3>1. r \in live
        BY <1>1, <1>2, <1>8, <1>9, <2>4
      <3>2. Follows(r, s.blk, s.off)
        <4>1. CASE s \in live
          BY <1>6, <2>4, <3>1, <4>1 DEF Consecutive
        <4>2. CASE s = new
          BY <1>2, <1>3, <1>7, <1>8, <1>9, <2>4, <3>1, <4>2
        <4> QED BY <1>1, <4>1, <4>2
      <3> QED BY <3>2 DEF Follows, DataSize
    <2> QED BY <2>1, <2>2, <2>3, <2>4 DEF Consecutive, Follows, DataSize
  <1>11. PointAtLast'
    <2>1. \A r \in live' : r.last = issued_elements' => r = new
      BY <1>1, <1>2, <1>8, <1>9
    <2> QED BY <1>1, <1>2, <1>3, <1>8, <2>1 DEF PointAtLast
  <1>12. AtElement'
    BY <1>2 DEF AtElement
  <1> QED BY <1>10, <1>11, <1>12

(* pool_alloc_vec() issues a single element at the place that follows the  *)
(* last one, in the same block, the next or a new one.                     *)
LEMMA AllocInOrder ==
  ASSUME PoolInv, InOrder, loc = NoLoc, NEW v \in Vecs,
         AllocCurrent(v) \/ AllocNextBlock(v) \/ AllocNewBlock(v)
  PROVE  InOrder'
  <1>1. /\ v < NumElements /\ loc' = loc
        /\ v \in Nat \ {0} /\ NumElements \in Nat /\ ElementSize \in Nat \ {0}
    BY PoolAssumption DEF AllocCurrent, AllocNextBlock, AllocNewBlock
  <1>2. /\ ring \in Nat /\ blocks \in Nat /\ alloc_next \in Int /\ issued_elements \in Nat
        /\ DataSize \in Nat /\ ((alloc_next = -1) <=> (ring = 0))
        /\ ((ring = 0) <=> (blocks = 0))
        /\ alloc_next >= -1
    BY DataSizeNat DEF PoolInv, TypeOK, PointInv
  <1> DEFINE b == IF Exhausted(v) THEN ring + 1 ELSE ring
             off == IF Exhausted(v) THEN 0 ELSE alloc_next
  <1>3. Issue(b, off, v)
    BY DEF AllocCurrent, AllocNextBlock, AllocNewBlock
  <1>4. b \in Nat \ {0} /\ off \in Nat
    BY <1>2 DEF Exhausted
  <1>5. ASSUME OnlySingles, v = 1
        PROVE  /\ IsElement(off)
               /\ issued_elements = 0 => b = 1 /\ off = 0
               /\ \A r \in live : r.last = issued_elements => Follows(r, b, off)
    <2>1. Consecutive /\ PointAtLast /\ DataSize = NumElements * ElementSize
      BY <1>5 DEF InOrder, OnlySingles
    <2>2. Exhausted(v) <=> alloc_next = -1 \/ alloc_next + ElementSize > DataSize
      BY <1>1, <1>5 DEF Exhausted
    <2>3. IsElement(0)
      <3>1. 0 \in 0..(NumElements - 1) /\ 0 = 0 * ElementSize
        BY <1>1
      <3> QED BY <3>1 DEF IsElement
    <2>4. ASSUME issued_elements = 0
          PROVE  b = 1 /\ off = 0
      <3>1. (ring = 0 /\ alloc_next = -1) \/ (ring = 1 /\ alloc_next = 0)
        BY <2>1, <2>4 DEF PointAtLast
      <3>2. CASE ring = 0 /\ alloc_next = -1
        BY <2>2, <3>2
      <3>3. CASE ring = 1 /\ alloc_next = 0
        <4>1. 0 \in 0..(NumElements - 1) /\ 0 * ElementSize = 0
          BY <1>1
        <4>2. ElementSize <= DataSize
          BY <1>1, <1>2, <2>1, <4>1, ElementPlaces
        <4> HIDE DEF DataSize
        <4>3. ~Exhausted(v)
          BY <1>1, <1>2, <2>2, <3>3, <4>2
        <4> QED BY <3>3, <4>3
      <3> QED BY <3>1, <3>2, <3>3
    <2>5. ASSUME NEW r \in live, r.last = issued_elements
          PROVE  IsElement(off) /\ Follows(r, b, off)
      <3>1. r.blk = ring /\ alloc_next = r.off + ElementSize
        BY <2>1, <2>5 DEF PointAtLast
      <3>2. PICK k \in 0..(NumElements - 1) : r.off = k * ElementSize
        BY <2>1 DEF Consecutive, IsElement
      <3>3. /\ k * ElementSize \in Nat
            /\ k = NumElements - 1 => k * ElementSize + ElementSize = DataSize
            /\ k # NumElements - 1 =>
                 /\ k + 1 \in 0..(NumElements - 1)
                 /\ k * ElementSize + ElementSize = (k + 1) * ElementSize
                 /\ k * ElementSize + ElementSize + ElementSize <= DataSize
        BY <2>1, ElementPlaces
      <3> HIDE DEF DataSize
      <3>4. CASE k = NumElements - 1
        <4>1. r.off + ElementSize = DataSize /\ alloc_next = DataSize
          BY <3>1, <3>2, <3>3, <3>4
        <4>2. Exhausted(v)
          BY <1>1, <1>2, <2>2, <4>1
        <4> QED BY <2>3, <3>1, <4>1, <4>2 DEF Follows
      <3>5. CASE k # NumElements - 1
        <4>1. /\ alloc_next = (k + 1) * ElementSize /\ k + 1 \in 0..(NumElements - 1)
              /\ alloc_next + ElementSize <= DataSize /\ alloc_next \in Nat
          BY <1>1, <3>1, <3>2, <3>3, <3>5
        <4>2. ~Exhausted(v) /\ r.off + ElementSize # DataSize
          BY <1>1, <1>2, <2>2, <3>1, <4>1
        <4> QED BY <3>1, <4>1, <4>2 DEF Follows, IsElement
      <3> QED BY <3>4, <3>5
    <2>6. issued_elements # 0 => \E r \in live : r.last = issued_elements
      <3>1. issued_elements # 0 => issued_elements \in 1..issued_elements
        BY <1>2
      <3> QED BY <2>1, <3>1 DEF Consecutive
    <2>7. IsElement(off)
      BY <2>3, <2>4, <2>5, <2>6
    <2> QED BY <2>4, <2>5, <2>7
  <1> HIDE DEF b, off
  <1> QED BY <1>1, <1>3, <1>4, <1>5, IssueInOrder

(* pool_next() goes from one element to the one that follows.              *)
LEMMA PoolNextInOrder ==
  ASSUME PoolInv, InOrder, PoolNext
  PROVE  InOrder'
  <1>1. /\ ring' = ring /\ alloc_next' = alloc_next
        /\ issued_elements' = issued_elements /\ live' = live
        /\ loc' = IF loc.number = issued_elements THEN NoLoc ELSE NextLocation(loc)
    BY DEF PoolNext
  <1>2. issued_elements \in Nat /\ loc \in [number : Nat, blk : Nat, off : Nat, end : Nat]
    BY DEF PoolInv, TypeOK
  <1> SUFFICES ASSUME OnlySingles, Consecutive, PointAtLast, AtElement
               PROVE  AtElement'
    BY <1>1 DEF InOrder, OnlySingles, Consecutive, PointAtLast, Follows, IsElement, DataSize
  <1>3. CASE loc.number = issued_elements
    BY <1>1, <1>3 DEF AtElement, NoLoc
  <1>4. CASE loc.number # issued_elements /\ loc.number = 0
    <2>1. PICK r \in live : r.last = 1
      <3>1. 1 \in 1..issued_elements
        BY <1>2, <1>4
      <3> QED BY <3>1 DEF Consecutive
    <2>2. r.blk = 1 /\ r.off = 0
      BY <2>1 DEF Consecutive
    <2>3. loc' = [number |-> 1, blk |-> 1, off |-> 0, end |-> DataSize]
      BY <1>1, <1>4 DEF NextLocation
    <2> QED BY <1>1, <2>1, <2>2, <2>3 DEF AtElement, DataSize
  <1>5. CASE loc.number # issued_elements /\ loc.number # 0
    <2>1. PICK r \in live : r.last = loc.number /\ r.blk = loc.blk /\ r.off = loc.off
      BY <1>2, <1>5 DEF AtElement
    <2>2. loc.end = DataSize
      BY <1>2, <1>5 DEF AtElement
    <2>3. PICK s \in live : s.last = loc.number + 1
      <3>1. loc.number \in 1..issued_elements
        BY <2>1 DEF Consecutive
      <3>2. loc.number + 1 \in 1..issued_elements
        BY <1>2, <1>5, <3>1
      <3> QED BY <3>2 DEF Consecutive
    <2>4. Follows(r, s.blk, s.off)
      BY <2>1, <2>3 DEF Consecutive
    <2>5. CASE loc.off + ElementSize = loc.end
      <3>1. loc' = [number |-> loc.number + 1, blk |-> loc.blk + 1, off |-> 0, end |-> DataSize]
        BY <1>1, <1>5, <2>5 DEF NextLocation
      <3>2. s.blk = loc.blk + 1 /\ s.off = 0
        BY <2>1, <2>2, <2>4, <2>5 DEF Follows
      <3> QED BY <1>1, <2>3, <3>1, <3>2 DEF AtElement, DataSize
    <2>6. CASE loc.off + ElementSize # loc.end
      <3>1. loc' = [loc EXCEPT !.number = loc.number + 1, !.off = loc.off + ElementSize]
        BY <1>1, <1>5, <2>6 DEF NextLocation
      <3>2. /\ loc'.number = loc.number + 1 /\ loc'.blk = loc.blk
            /\ loc'.off = loc.off + ElementSize /\ loc'.end = loc.end
        BY <1>2, <3>1
      <3>3. s.blk = loc.blk /\ s.off = loc.off + ElementSize
        BY <2>1, <2>2, <2>4, <2>6 DEF Follows
      <3> QED BY <1>1, <2>2, <2>3, <3>2, <3>3 DEF AtElement, DataSize
    <2> QED BY <2>5, <2>6
  <1> QED BY <1>3, <1>4, <1>5

(* A pool that has issued nothing since it was created or reused.          *)
LEMMA NothingIssued ==
  ASSUME live = {}, issued_elements = 0, loc = NoLoc,
         (ring = 0 /\ alloc_next = -1) \/ (ring = 1 /\ alloc_next = 0)
  PROVE  InOrder
  BY DEF InOrder, OnlySingles, Consecutive, PointAtLast, AtElement, NoLoc

LEMMA StepInOrder ==
  ASSUME PoolInv, InOrder, [Next]_vars
  PROVE  InOrder'
  <1>1. CASE Alloc
    <2>1. PICK v \in Vecs : \/ AllocRefused(v) \/ AllocCurrent(v)
                            \/ AllocNextBlock(v) \/ AllocNewBlock(v)
      BY <1>1 DEF Alloc
    <2>2. CASE AllocRefused(v)
      BY <2>2 DEF AllocRefused, vars, InOrder, OnlySingles, Consecutive, PointAtLast,
         AtElement, Follows, IsElement, DataSize
    <2> QED BY <1>1, <2>1, <2>2, AllocInOrder DEF Alloc
  <1>2. CASE Write \/ UNCHANGED vars
    BY <1>2 DEF Write, vars, InOrder, OnlySingles, Consecutive, PointAtLast,
       AtElement, Follows, IsElement, DataSize
  <1>3. CASE Reuse
    <2>1. /\ live' = {} /\ issued_elements' = 0 /\ loc' = NoLoc
          /\ (ring' = 0 /\ alloc_next' = -1) \/ (ring' = 1 /\ alloc_next' = 0)
      BY <1>3 DEF Reuse
    <2> QED BY <2>1 DEF InOrder, OnlySingles, Consecutive, PointAtLast, AtElement, NoLoc
  <1>4. CASE DeleteAndNew
    BY <1>4 DEF DeleteAndNew, InOrder, OnlySingles, Consecutive, PointAtLast, AtElement, NoLoc
  <1>5. CASE PoolNext
    BY <1>5, PoolNextInOrder
  <1> QED BY <1>1, <1>2, <1>3, <1>4, <1>5 DEF Next

(* pool_next() returns the elements in the order they were issued, from    *)
(* however many blocks, if they fill the blocks and only single ones were  *)
(* issued since the last pool_reuse(); for every element and block size,   *)
(* and whatever the blocks were used for before.                           *)
THEOREM PoolTraversalInOrder == Spec => []TraversalInOrder
  <1>1. Init => InOrder
    BY NothingIssued DEF Init
  <1>2. PoolInv /\ InOrder /\ [Next]_vars => InOrder'
    BY StepInOrder
  <1>3. InOrder => TraversalInOrder
    BY DEF InOrder, OnlySingles, AtElement, TraversalInOrder
  <1> QED BY <1>1, <1>2, <1>3, PoolInvariance, PTL DEF Spec
=============================================================================
