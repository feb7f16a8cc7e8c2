----------------------------- MODULE MemoryPool -----------------------------
(***************************************************************************)
(* One memory pool of memory-pool.c: a chain of equal blocks from which    *)
(* elements, or vectors of elements, are issued in order.  The bytes of a  *)
(* block are numbered from 0; the address of the next block is stored at   *)
(* offset DataSize.  Blocks are numbered by their place in the chain.      *)
(* POOL_FREE and POOL_EXACT are not defined in the build.                  *)
(***************************************************************************)
EXTENDS Integers, FiniteSets

CONSTANTS
  NumElements,   \* elements per block, as given to pool_new()
  ElementSize,   \* bytes per element, after alignment
  NextSize,      \* FLDSIZE_NEXT
  ZeroOut,       \* elements are issued zeroed
  Vecs,          \* the vector sizes clients ask for
  MaxBlocks      \* bound on the number of blocks

ASSUME PoolAssumption ==
  /\ NumElements \in Nat \ {0} /\ ElementSize \in Nat \ {0}
  /\ NextSize \in Nat \ {0}
  /\ ZeroOut \in BOOLEAN
  /\ Vecs \subseteq Nat \ {0}
  /\ MaxBlocks \in Nat

ALIGN(x, a) == ((x + a - 1) \div a) * a

DataSize == ALIGN(NumElements * ElementSize, NextSize)

VARIABLES
  blocks,          \* length of the chain
  ring,            \* current block; 0 is NULL
  alloc_next,      \* offset of the next element in the current block; -1 is NULL
  issued_elements,
  live,            \* the regions issued since the last reuse
  dirty,           \* the bytes that may be non-zero
  loc              \* the Pool_location of a traversal

vars == <<blocks, ring, alloc_next, issued_elements, live, dirty, loc>>

NoLoc == [number |-> 0, blk |-> 0, off |-> 0, end |-> 0]

Bytes(b, off, len) == {b} \X (off..(off + len - 1))

BytesOf(r) == Bytes(r.blk, r.off, r.len)

Block(b) == Bytes(b, 0, DataSize)

-----------------------------------------------------------------------------
(* pool_new() *)
Init ==
  /\ blocks = 0 /\ ring = 0 /\ alloc_next = -1 /\ issued_elements = 0
  /\ live = {} /\ dirty = {} /\ loc = NoLoc

Issue(b, off, v) ==
  /\ issued_elements' = issued_elements + v
  /\ live' = live \cup {[blk |-> b, off |-> off, len |-> ElementSize * v,
                         last |-> issued_elements + v]}
  /\ ring' = b
  /\ alloc_next' = off + ElementSize * v

(* Mutant: room for one more byte is room enough.                          *)
NoByteLeft(v) == alloc_next = -1 \/ alloc_next >= DataSize

Exhausted(v) == alloc_next = -1 \/ alloc_next + ElementSize * v > DataSize

(* Mutant: only the first block of the chain is zeroed.                    *)
ZeroedFirst(b, d) == IF ZeroOut /\ b = 1 THEN d \ Block(b) ELSE d

(* The dirty bytes, of those in d, after block b has become current.       *)
Zeroed(b, d) == IF ZeroOut THEN d \ Block(b) ELSE d

(* pool_alloc_vec(): refused, from the current block, from the next block  *)
(* of the chain (after pool_reuse()), or from a new block, whose memory    *)
(* may hold anything.  A block is zeroed when it becomes current.          *)
AllocRefused(v) ==
  /\ v >= NumElements
  /\ UNCHANGED vars

AllocCurrent(v) ==
  /\ v < NumElements /\ ~Exhausted(v)
  /\ Issue(ring, alloc_next, v)
  /\ UNCHANGED <<blocks, dirty, loc>>

AllocNextBlock(v) ==
  /\ v < NumElements /\ Exhausted(v)
  /\ ring < blocks
  /\ Issue(ring + 1, 0, v)
  /\ dirty' = Zeroed(ring + 1, dirty)
  /\ UNCHANGED <<blocks, loc>>

AllocNewBlock(v) ==
  /\ v < NumElements /\ Exhausted(v)
  /\ ring = blocks /\ blocks < MaxBlocks
  /\ blocks' = blocks + 1
  /\ Issue(blocks + 1, 0, v)
  /\ dirty' = Zeroed(blocks + 1, dirty \cup Block(blocks + 1))
  /\ UNCHANGED loc

(* Nothing is issued while a traversal runs. *)
Alloc ==
  /\ loc = NoLoc
  /\ \E v \in Vecs : AllocRefused(v) \/ AllocCurrent(v) \/ AllocNextBlock(v)
                       \/ AllocNewBlock(v)

(* The client fills a region it was issued. *)
Write ==
  /\ \E r \in live : dirty' = dirty \cup BytesOf(r)
  /\ UNCHANGED <<blocks, ring, alloc_next, issued_elements, live, loc>>

(* pool_reuse(): the regions issued so far are given up. *)
Reuse ==
  /\ ring' = IF blocks = 0 THEN 0 ELSE 1
  /\ alloc_next' = IF blocks = 0 THEN -1 ELSE 0
  /\ dirty' = IF blocks = 0 THEN dirty ELSE Zeroed(1, dirty)
  /\ issued_elements' = 0
  /\ live' = {}
  /\ loc' = NoLoc
  /\ UNCHANGED blocks

(* pool_delete(), and pool_new() for the next use. *)
DeleteAndNew ==
  /\ blocks' = 0 /\ ring' = 0 /\ alloc_next' = -1 /\ issued_elements' = 0
  /\ live' = {} /\ dirty' = {} /\ loc' = NoLoc

(* pool_next(): the first element, the next one in the block, or the first *)
(* one of the next block.  At the end the client starts anew.              *)
NextLocation(l) ==
  IF l.number = 0
    THEN [number |-> 1, blk |-> 1, off |-> 0, end |-> DataSize]
  ELSE IF l.off + ElementSize = l.end
    THEN [number |-> l.number + 1, blk |-> l.blk + 1, off |-> 0, end |-> DataSize]
  ELSE [l EXCEPT !.number = l.number + 1, !.off = l.off + ElementSize]

PoolNext ==
  /\ loc' = IF loc.number = issued_elements THEN NoLoc ELSE NextLocation(loc)
  /\ UNCHANGED <<blocks, ring, alloc_next, issued_elements, live, dirty>>

Next == Alloc \/ Write \/ Reuse \/ DeleteAndNew \/ PoolNext

Spec == Init /\ [][Next]_vars

-----------------------------------------------------------------------------
Region == [blk : Nat, off : Nat, len : Nat, last : Nat]

(* The current block is in the chain, and the next element starts in it or *)
(* at its end; the other variables have their types.                       *)
TypeOK ==
  /\ blocks \in Nat /\ ring \in 0..blocks /\ alloc_next \in -1..DataSize
  /\ issued_elements \in Nat
  /\ live \subseteq Region
  /\ dirty \subseteq Nat \X Nat
  /\ loc \in [number : Nat, blk : Nat, off : Nat, end : Nat]

(* Regions issued since the last pool_reuse() lie inside the data part of  *)
(* an existing block, so filling one never overwrites the address of the   *)
(* next block, and no two of them share a byte, also after the blocks have *)
(* been reused with other vector sizes.                                    *)
RegionsDisjoint ==
  /\ \A r \in live : r.blk \in 1..blocks /\ r.off + r.len <= DataSize
  /\ \A r, s \in live : r # s =>
       \/ r.blk # s.blk
       \/ r.off + r.len <= s.off
       \/ s.off + s.len <= r.off

(* A pool created with zero_out issues zeroed memory, also from a block    *)
(* that was filled before pool_reuse(), or that malloc() returned dirty.   *)
IssuedZeroed ==
  [][ZeroOut => \A r \in live' \ live : BytesOf(r) \cap dirty' = {}]_vars

(* If the elements fill the data part of a block and only single elements  *)
(* were issued since the last pool_reuse(), pool_next() returns these, in  *)
(* the order they were issued: the k-th call returns the k-th element,     *)
(* also from blocks that held vectors before.                              *)
TraversalInOrder ==
  /\ DataSize = NumElements * ElementSize
  /\ \A r \in live : r.len = ElementSize
  /\ loc.number > 0
  => \E r \in live : r.last = loc.number /\ r.blk = loc.blk /\ r.off = loc.off
=============================================================================
