--------------------------- MODULE PoolAllocator ---------------------------
(***************************************************************************)
(* The memory-pool allocator of the Subpython runtime (project05 mm.c).    *)
(*                                                                         *)
(* Sizes and addresses are counted in 8-byte words: refs.c rounds every    *)
(* request up to ALIGNMENT = 8 bytes, so every block starts and ends on a  *)
(* word.  A free block is a record [addr, size]; the free list is a        *)
(* sequence in list order (head first).  The allocator is best-fit,       *)
(* splits a block when the remainder is larger than a value_t header, and  *)
(* never coalesces.                                                        *)
(*                                                                         *)
(* The pure operators MmInit, MmMalloc, MmFree and MemUsed are used by the *)
(* RefHeap module; the variables below let the allocator be checked on its *)
(* own against arbitrary sequences of mm_malloc / mm_free calls.           *)
(***************************************************************************)
EXTENDS Naturals, Sequences, SequencesExt, FiniteSets

CONSTANTS
  PoolWords,   \* memory_size / 8: the region mm_init formats
  HeaderWords, \* sizeof(value_t) / 8 = 3 (type, ref_count, value_size)
  Requests     \* request sizes, in words, that mm_malloc is called with

ASSUME PoolWords \in Nat \ {0} /\ HeaderWords \in Nat \ {0}
ASSUME Requests \subseteq HeaderWords .. PoolWords

(***************************************************************************)
(* Pure allocator operators.                                               *)
(***************************************************************************)

\* mm_init: the whole region becomes one free block.
MmInit(base, size) == << [addr |-> base, size |-> size] >>

\* The best-fit scan of mm_malloc, written as the loop is: walk the list,
\* remember the first block that fits and is strictly smaller than the best
\* seen so far.  Returns the list index, or 0 when nothing fits.
\* Mutant: ties go to the last block of the smallest size (<= for <).
RECURSIVE BestFitScanLastTie(_, _, _, _)
BestFitScanLastTie(fl, size, i, best) ==
  IF i > Len(fl) THEN best
  ELSE IF fl[i].size >= size /\ (best = 0 \/ fl[i].size <= fl[best].size)
       THEN BestFitScanLastTie(fl, size, i + 1, i)
       ELSE BestFitScanLastTie(fl, size, i + 1, best)

RECURSIVE BestFitScan(_, _, _, _)
BestFitScan(fl, size, i, best) ==
  IF i > Len(fl) THEN best
  ELSE IF fl[i].size >= size /\ (best = 0 \/ fl[i].size < fl[best].size)
       THEN BestFitScan(fl, size, i + 1, i)
       ELSE BestFitScan(fl, size, i + 1, best)

BestFit(fl, size) == BestFitScan(fl, size, 1, 0)

\* Mutants of mm_malloc: the split guard dropped (a split that leaves an
\* empty remainder), and a split that forgets to shrink the remainder.
MmMallocAlwaysSplit(fl, size) ==
  LET b == BestFit(fl, size) IN
  IF b = 0 THEN [ok |-> FALSE, fl |-> fl]
  ELSE [ok  |-> TRUE,
        blk |-> [addr |-> fl[b].addr, size |-> size],
        fl  |-> [fl EXCEPT ![b] = [addr |-> fl[b].addr + size,
                                   size |-> fl[b].size - size]]]

MmMallocNoShrink(fl, size) ==
  LET b == BestFit(fl, size) IN
  IF b = 0 THEN [ok |-> FALSE, fl |-> fl]
  ELSE IF fl[b].size - size > HeaderWords
       THEN [ok  |-> TRUE,
             blk |-> [addr |-> fl[b].addr, size |-> size],
             fl  |-> [fl EXCEPT ![b] = [addr |-> fl[b].addr + size,
                                        size |-> fl[b].size]]]
       ELSE [ok |-> TRUE, blk |-> fl[b], fl |-> RemoveAt(fl, b)]

\* mm_malloc: ok = FALSE is the NULL return (the caller sets MemoryError).
\* On success, blk is the block handed out: exactly `size` words when the
\* chosen block is split, the whole chosen block otherwise.  A split leaves
\* the remainder in the chosen block's place in the list.
MmMalloc(fl, size) ==
  LET b == BestFit(fl, size) IN
  IF b = 0 THEN [ok |-> FALSE, fl |-> fl]
  ELSE LET chosen    == fl[b]
           remaining == chosen.size - size
       IN IF remaining > HeaderWords
          THEN [ok  |-> TRUE,
                blk |-> [addr |-> chosen.addr, size |-> size],
                fl  |-> [fl EXCEPT ![b] = [addr |-> chosen.addr + size,
                                           size |-> remaining]]]
          ELSE [ok  |-> TRUE,
                blk |-> chosen,
                fl  |-> RemoveAt(fl, b)]

\* mm_free: the block is pushed on the head of the free list.
MmFree(fl, blk) == <<blk>> \o fl

\* mem_used: the region size minus every free block.
RECURSIVE FreeWords(_)
FreeWords(fl) == IF fl = <<>> THEN 0 ELSE Head(fl).size + FreeWords(Tail(fl))

MemUsed(fl, regionSize) == regionSize - FreeWords(fl)

\* The words a block covers, and whether two blocks share a word.
Words(blk) == blk.addr .. (blk.addr + blk.size - 1)
Overlap(b1, b2) == Words(b1) \cap Words(b2) # {}

-----------------------------------------------------------------------------
(***************************************************************************)
(* The allocator as a state machine: a client that calls mm_malloc with a  *)
(* size from Requests and mm_free on any block it was handed.             *)
(***************************************************************************)
VARIABLES
  freeList,   \* free_list, in list order
  allocated,  \* the blocks mm_malloc has handed out and not yet been freed
  failed      \* TRUE when the last mm_malloc returned NULL

vars == <<freeList, allocated, failed>>

Block == [addr : 0 .. PoolWords, size : 1 .. PoolWords]

TypeOK ==
  /\ freeList \in Seq(Block)
  /\ allocated \subseteq Block
  /\ failed \in BOOLEAN

Init ==
  /\ freeList = MmInit(0, PoolWords)
  /\ allocated = {}
  /\ failed = FALSE

Malloc(size) ==
  LET r == MmMalloc(freeList, size) IN
  /\ freeList' = r.fl
  /\ allocated' = IF r.ok THEN allocated \cup {r.blk} ELSE allocated
  /\ failed' = ~r.ok

Free(blk) ==
  /\ freeList' = MmFree(freeList, blk)
  /\ allocated' = allocated \ {blk}
  /\ failed' = FALSE

Next ==
  \/ \E s \in Requests : Malloc(s)
  \/ \E b \in allocated : Free(b)

Spec == Init /\ [][Next]_vars

-----------------------------------------------------------------------------
(***************************************************************************)
(* Properties.                                                             *)
(***************************************************************************)

\* The free blocks and the handed-out blocks tile the pool: no two of them
\* share a word and together they cover every word.  This is what the split
\* arithmetic of mm_malloc (new free block at value + size with size
\* smallest_size - size) and the relinking of mm_free must preserve over any
\* sequence of calls; a wrong split offset or a block left on the list after
\* being handed out breaks it only after several calls.
AllBlocks == allocated \cup ToSet(freeList)
PoolTiled ==
  /\ \A i, j \in 1 .. Len(freeList) : i # j => ~Overlap(freeList[i], freeList[j])
  /\ \A b \in allocated, i \in 1 .. Len(freeList) : ~Overlap(b, freeList[i])
  /\ \A b1, b2 \in allocated : b1 # b2 => ~Overlap(b1, b2)
  /\ UNION {Words(b) : b \in AllBlocks} = 0 .. PoolWords - 1

\* The scan of mm_malloc picks a best-fit block: among the blocks large enough,
\* one of the smallest, and of those the first in list order.  Checked for
\* every request size against the free lists the allocator really builds.
BestFitRef(fl, size) ==
  LET fits == {i \in 1 .. Len(fl) : fl[i].size >= size} IN
  IF fits = {} THEN 0
  ELSE CHOOSE i \in fits :
         \A j \in fits : fl[i].size < fl[j].size \/ (fl[i].size = fl[j].size /\ i <= j)
BestFitIsBest == \A s \in Requests : BestFit(freeList, s) = BestFitRef(freeList, s)
=============================================================================
