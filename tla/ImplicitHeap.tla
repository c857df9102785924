--------------------------- MODULE ImplicitHeap ---------------------------
(***************************************************************************)
(* The malloc-lab allocator of project04 (mm.c): an implicit list of       *)
(* blocks laid end to end in a heap grown by mem_sbrk.  Every block has a  *)
(* one-word header and a one-word footer holding size | is_allocated; the  *)
(* payload starts one word after the header.  malloc is first fit, splits  *)
(* the block it finds, and grows the heap when nothing fits; free          *)
(* coalesces with the neighbours and then threads the freed block onto     *)
(* the "last_node" list by writing two pointers into its payload.          *)
(*                                                                         *)
(* Addresses and sizes are in bytes, as in the code.  Memory is a function *)
(* from 8-byte words to the integers stored in them; a pointer is stored   *)
(* as its address, and NULL as 0.  The heap starts at HeapBase, a stand-in *)
(* for the address memlib's region really has: it is far above every size *)
(* the heap can hold, so a pointer read back as a size is huge, as it is   *)
(* in the program.  S, the allocator state, is a record                    *)
(*   [mem, brk, last, wild, hang]                                          *)
(* of the memory, mem_sbrk's break, the global last_node, and two flags:   *)
(* a store outside memlib's region (wild) and a find_fit loop that can     *)
(* never end (hang).                                                       *)
(***************************************************************************)
EXTENDS Integers, FiniteSets, TLC

CONSTANTS
  HeapBase,   \* mem_heap_lo(): the first byte of memlib's region
  MaxHeap,    \* bytes memlib can hand out before mem_sbrk fails
  SizeWidth   \* bits of size_t

ASSUME HeapBase % 16 = 0 /\ HeapBase >= MaxHeap /\ MaxHeap % 16 = 0

NULL == 0
ALIGNMENT == 16          \* 2 * sizeof(size_t)
WORD == 8                \* sizeof(size_t) = offsetof(block_t, payload)
SizeMax == 2^SizeWidth

\* Bind(e, K) evaluates e once and passes the value to K.
Bind(e, K(_)) == CHOOSE out \in {K(v) : v \in {e}} : TRUE

Words == 0 .. (MaxHeap \div WORD) - 1
Idx(a) == (a - HeapBase) \div WORD
InRegion(a) == Idx(a) \in Words

\* A load outside the region reads memory that is not the heap's.
Load(S, a) == IF InRegion(a) THEN S.mem[Idx(a)] ELSE 0
Store(S, a, v) ==
  IF InRegion(a) THEN [S EXCEPT !.mem[Idx(a)] = v] ELSE [S EXCEPT !.wild = TRUE]

round_up(size, n) == ((size + n - 1) \div n) * n

\* x & ~0x1
SizeBits(x) == x - (x % 2)
get_size(S, b) == SizeBits(Load(S, b))
check_allocated(S, b) == Load(S, b) % 2 = 1
set_header(S, b, size, alloc) == Store(S, b, size + (IF alloc THEN 1 ELSE 0))
set_footer(S, b) ==
  Store(S, b + get_size(S, b) - WORD,
        get_size(S, b) + (IF check_allocated(S, b) THEN 1 ELSE 0))

mem_heap_lo == HeapBase
mem_heap_hi(S) == S.brk - 1
FirstBlock == mem_heap_lo + ALIGNMENT - WORD

\* mm_init: mem_reset_brk, then mem_sbrk of the one-word pad.
mm_init == [mem  |-> [w \in Words |-> 0],
            brk  |-> HeapBase + ALIGNMENT - WORD,
            last |-> NULL,
            wild |-> FALSE,
            hang |-> FALSE]

\* memlib's mem_sbrk: NULL-like failure past the region, else the old break.
mem_sbrk(S, incr) ==
  IF S.brk + incr > HeapBase + MaxHeap
  THEN [S |-> S, ret |-> -1]
  ELSE [S |-> [S EXCEPT !.brk = S.brk + incr], ret |-> S.brk]

\* set_header then set_footer, the pair every writer of a block uses.
SetBlock(S, b, size, alloc) == Bind(set_header(S, b, size, alloc), LAMBDA T : set_footer(T, b))

\* Mutant: the merge with the next block drops its is-allocated test.
coalesceIgnoreNextAllocated(S, b) ==
  LET sz == get_size(S, b)
      c  == IF b + sz >= mem_heap_hi(S) THEN NULL ELSE b + sz
  IN IF c # NULL THEN [S |-> SetBlock(S, b, sz + get_size(S, c), FALSE), b |-> b]
     ELSE [S |-> SetBlock(S, b, sz, FALSE), b |-> b]

\* coalesce(b): returns [S, b] with b the header of the merged free block.
coalesce(S, b) ==
  LET sz == get_size(S, b)
      c  == IF b + sz >= mem_heap_hi(S) THEN NULL ELSE b + sz
      a  == IF b - sz <= mem_heap_lo + ALIGNMENT - WORD THEN NULL
            ELSE b - SizeBits(Load(S, b - WORD))
      aFree == a # NULL /\ ~check_allocated(S, a)
  IN
  IF c # NULL /\ ~check_allocated(S, c)
  THEN IF aFree
       THEN [S |-> SetBlock(S, a, get_size(S, a) + sz + get_size(S, c), FALSE), b |-> a]
       ELSE [S |-> SetBlock(S, b, sz + get_size(S, c), FALSE), b |-> b]
  ELSE IF aFree
       THEN [S |-> SetBlock(S, a, get_size(S, a) + sz, FALSE), b |-> a]
       ELSE [S |-> SetBlock(S, b, sz, FALSE), b |-> b]

\* find_fit: the first-fit walk from the first block to the break.  A zero
\* size that does not fit leaves heap_pointer where it is: the loop never
\* ends, and HANG is returned.
HANG == -1
\* Mutant: the walk runs to the end of memlib's region, not to the break.
RECURSIVE FitFromToRegionEnd(_, _, _)
FitFromToRegionEnd(S, size, hp) ==
  IF hp >= HeapBase + MaxHeap THEN NULL
  ELSE IF get_size(S, hp) >= size /\ ~check_allocated(S, hp) THEN hp
  ELSE IF get_size(S, hp) = 0 THEN HANG
  ELSE FitFromToRegionEnd(S, size, hp + get_size(S, hp))

RECURSIVE FitFrom(_, _, _)
FitFrom(S, size, hp) ==
  IF hp >= mem_heap_hi(S) THEN NULL
  ELSE IF get_size(S, hp) >= size /\ ~check_allocated(S, hp) THEN hp
  ELSE IF get_size(S, hp) = 0 THEN HANG
  ELSE FitFrom(S, size, hp + get_size(S, hp))

find_fit(S, size) == FitFrom(S, size, FirstBlock)

\* split(block, s): the first s bytes become an allocated block; a non-empty
\* rest becomes a free block after it.
\* Mutant: the remainder gets a header but no footer.
splitNoRemainderFooter(S, block, s) ==
  LET s_size == (get_size(S, block) - s) % SizeMax IN
  Bind(SetBlock(S, block, s, TRUE),
       LAMBDA T : IF s_size > 0 THEN set_header(T, block + s, s_size, FALSE) ELSE T)

split(S, block, s) ==
  LET s_size == (get_size(S, block) - s) % SizeMax IN
  Bind(SetBlock(S, block, s, TRUE),
       LAMBDA T : IF s_size > 0 THEN SetBlock(T, block + s, s_size, FALSE) ELSE T)

\* Mutant: mem_sbrk's failure return is not checked.
mallocNoSbrkCheck(S, req) ==
  LET size == round_up(WORD + req + WORD, ALIGNMENT) % SizeMax IN
  Bind(find_fit(S, size), LAMBDA block :
    IF block = HANG THEN [S |-> [S EXCEPT !.hang = TRUE], ret |-> NULL]
    ELSE IF block = NULL
    THEN Bind(mem_sbrk(S, size), LAMBDA r :
           [S |-> SetBlock(r.S, r.ret, size, TRUE), ret |-> r.ret + WORD])
    ELSE [S |-> split(S, block, size), ret |-> block + WORD])

\* malloc(size): [S, ret] with ret the payload address or NULL.
malloc(S, req) ==
  LET size == round_up(WORD + req + WORD, ALIGNMENT) % SizeMax IN
  Bind(find_fit(S, size), LAMBDA block :
    IF block = HANG THEN [S |-> [S EXCEPT !.hang = TRUE], ret |-> NULL]
    ELSE IF block = NULL
    THEN Bind(mem_sbrk(S, size), LAMBDA r :
           IF r.ret < 0 THEN [S |-> r.S, ret |-> NULL]
           ELSE [S |-> SetBlock(r.S, r.ret, size, TRUE), ret |-> r.ret + WORD])
    ELSE [S |-> split(S, block, size), ret |-> block + WORD])

\* free(ptr): coalesce, then make the block's payload a free_node
\* {prev, next} linked after last_node.
free(S, ptr) ==
  IF ptr = NULL THEN S
  ELSE Bind(coalesce(S, ptr - WORD), LAMBDA co :
       LET curr == co.b + WORD
           T1 == Store(Store(co.S, curr, NULL), curr + WORD, NULL)
           T2 == IF co.S.last # NULL
                 THEN Store(Store(T1, co.S.last + WORD, curr), curr, co.S.last)
                 ELSE T1
       IN [T2 EXCEPT !.last = curr])

\* memcpy(dst, src, n) and memset(dst, v, n), word by word (n is a multiple
\* of a word in every call the model makes).
Span(a, n) == {a + WORD * i : i \in 0 .. (n \div WORD) - 1}
WriteWords(S, f) ==
  IF \A a \in DOMAIN f : InRegion(a)
  THEN [S EXCEPT !.mem = [w \in Words |->
          IF HeapBase + WORD * w \in DOMAIN f THEN f[HeapBase + WORD * w] ELSE @[w]]]
  ELSE [S EXCEPT !.wild = TRUE]
memcpy(S, dst, src, n) == WriteWords(S, [a \in Span(dst, n) |-> Load(S, src + (a - dst))])
memset(S, dst, v, n) == WriteWords(S, [a \in Span(dst, n) |-> v])

\* realloc(old_ptr, size): malloc, copy min(size, block size of old), free.
realloc(S, old, size) ==
  IF size = 0 THEN [S |-> free(S, old), ret |-> NULL]
  ELSE IF old = NULL THEN malloc(S, size)
  ELSE Bind(malloc(S, size), LAMBDA r :
       IF r.ret = NULL THEN r
       ELSE LET old_size == get_size(r.S, old - WORD)
                n == IF size < old_size THEN size ELSE old_size
            IN [S |-> free(memcpy(r.S, r.ret, old, n), old), ret |-> r.ret])

\* calloc(nmemb, size): malloc of the size_t product, zeroed on success.
calloc(S, nmemb, size) ==
  LET bytes == (nmemb * size) % SizeMax IN
  Bind(malloc(S, bytes), LAMBDA r :
    IF r.ret = NULL THEN r ELSE [S |-> memset(r.S, r.ret, 0, bytes), ret |-> r.ret])

\* The headers mm_checkheap visits: from the first block, each at the
\* previous one plus its size, while below mem_heap_hi; a zero size ends
\* the walk (the loop would not advance).  WalkEnd is where it stops.
RECURSIVE WalkFrom(_, _)
WalkFrom(S, hp) ==
  IF hp >= mem_heap_hi(S) THEN {}
  ELSE IF get_size(S, hp) = 0 THEN {hp}
  ELSE {hp} \cup WalkFrom(S, hp + get_size(S, hp))

RECURSIVE WalkEnd(_, _)
WalkEnd(S, hp) ==
  IF hp >= mem_heap_hi(S) \/ get_size(S, hp) = 0 THEN hp
  ELSE WalkEnd(S, hp + get_size(S, hp))

HeapBlocks(S) == WalkFrom(S, FirstBlock)

-----------------------------------------------------------------------------
(***************************************************************************)
(* A client of the allocator, as the malloc-lab driver is one: it calls    *)
(* malloc, calloc, realloc and free in any order, frees and reallocs only  *)
(* pointers it holds, and fills every payload it is handed with its own    *)
(* data (here: the payload's address in each word).                        *)
(***************************************************************************)
CONSTANTS
  Requests,     \* byte counts passed to malloc and realloc (multiples of 8)
  CallocArgs    \* <<nmemb, size>> pairs passed to calloc

VARIABLES
  heap,     \* the allocator state S
  live,     \* payload pointer -> bytes the client asked for
  expect,   \* byte address -> the word the client last stored there
  op        \* the last call: [f, ret]

vars == <<heap, live, expect, op>>

Mark(p) == p
ClientData(p, n) == [a \in Span(p, n) |-> Mark(p)]
Forget(f, D) == [a \in DOMAIN f \ D |-> f[a]]

Init ==
  /\ heap = mm_init
  /\ live = [p \in {} |-> 0]
  /\ expect = [a \in {} |-> 0]
  /\ op = [f |-> "mm_init", ret |-> NULL]

Running == ~heap.hang /\ ~heap.wild

\* The client stores its data in the n bytes it asked for at p.
Handed(r, n, data) ==
  /\ heap' = IF r.ret = NULL THEN r.S ELSE WriteWords(r.S, data)
  /\ live' = IF r.ret = NULL THEN live ELSE (r.ret :> n) @@ live
  /\ expect' = IF r.ret = NULL THEN expect ELSE data @@ expect

Malloc(n) ==
  /\ Running
  /\ \E r \in {malloc(heap, n)} :
       /\ Handed(r, n, ClientData(r.ret, n))
       /\ op' = [f |-> "malloc", ret |-> r.ret]

Calloc(nm, sz) ==
  /\ Running
  /\ \E r \in {calloc(heap, nm, sz)} :
       /\ Handed(r, nm * sz, [a \in Span(r.ret, (nm * sz) % SizeMax) |-> 0])
       /\ op' = [f |-> "calloc", ret |-> r.ret]

Free(p) ==
  /\ Running
  /\ heap' = free(heap, p)
  /\ live' = Forget(live, {p})
  /\ expect' = Forget(expect, Span(p, live[p]))
  /\ op' = [f |-> "free", ret |-> NULL]

\* realloc keeps the first min(old, new) bytes of the client's data and the
\* client fills the rest; a NULL return leaves the old block with it.
Realloc(p, n) ==
  /\ Running
  /\ \E r \in {realloc(heap, p, n)} :
       LET oldN == IF p = NULL THEN 0 ELSE live[p]
           keep == IF n < oldN THEN n ELSE oldN
           data == [a \in Span(r.ret, n) |->
                      IF a - r.ret < keep THEN expect[p + (a - r.ret)] ELSE Mark(r.ret)]
       IN
       /\ op' = [f |-> "realloc", ret |-> r.ret]
       /\ IF r.ret = NULL /\ n > 0
          THEN /\ heap' = r.S
               /\ UNCHANGED <<live, expect>>
          ELSE LET live1 == IF p = NULL THEN live ELSE Forget(live, {p})
                   exp1  == IF p = NULL THEN expect ELSE Forget(expect, Span(p, oldN))
               IN /\ heap' = IF r.ret = NULL THEN r.S ELSE WriteWords(r.S, data)
                  /\ live' = IF r.ret = NULL THEN live1 ELSE (r.ret :> n) @@ live1
                  /\ expect' = IF r.ret = NULL THEN exp1 ELSE data @@ exp1

Next ==
  \/ \E n \in Requests : Malloc(n)
  \/ \E a \in CallocArgs : Calloc(a[1], a[2])
  \/ \E p \in DOMAIN live : Free(p)
  \/ \E p \in DOMAIN live \cup {NULL}, n \in Requests \cup {0} : Realloc(p, n)

Spec == Init /\ [][Next]_vars

-----------------------------------------------------------------------------
(***************************************************************************)
(* Properties.                                                             *)
(***************************************************************************)

TypeOK ==
  /\ heap.mem \in [Words -> Int]
  /\ heap.brk \in HeapBase .. HeapBase + MaxHeap
  /\ heap.wild \in BOOLEAN /\ heap.hang \in BOOLEAN
  /\ live \in [DOMAIN live -> Nat]
  /\ expect \in [DOMAIN expect -> Int]
  /\ op.ret \in {NULL} \cup (HeapBase .. HeapBase + MaxHeap)

\* The assertions of mm_checkheap, strengthened to what its walk assumes:
\* every header on the walk has a positive size that is a multiple of
\* ALIGNMENT, its footer repeats it, and the walk ends exactly at the break.
\* A free_node pointer stored over a header or footer, or a split or
\* coalesce writing the wrong size, breaks it.
HeapWellFormed ==
  /\ \A b \in HeapBlocks(heap) :
       /\ get_size(heap, b) > 0
       /\ get_size(heap, b) % ALIGNMENT = 0
       /\ Load(heap, b + get_size(heap, b) - WORD) = Load(heap, b)
  /\ WalkEnd(heap, FirstBlock) = heap.brk

\* The blocks marked allocated on the heap are exactly the ones the client
\* holds, and each is large enough for what was asked: malloc, calloc and
\* realloc hand out a payload of at least the requested size inside a
\* block no one else holds, and free gives it back.
LiveBlocksAllocated ==
  /\ {b \in HeapBlocks(heap) : check_allocated(heap, b)} = {p - WORD : p \in DOMAIN live}
  /\ \A p \in DOMAIN live : get_size(heap, p - WORD) - 2 * WORD >= live[p]

\* No call of the allocator changes a word the client stored in a payload it
\* still holds: malloc and free write only headers, footers and free_node
\* links of blocks the client does not hold.
PayloadsIntact == \A a \in DOMAIN expect : Load(heap, a) = expect[a]

\* coalesce merges a freed block with a free block on either side, so no
\* two blocks next to each other on the heap are both free.  split leaves
\* its remainder before a block that was already next to a free block,
\* so it keeps this; only a missed merge in coalesce breaks it.
FreeBlocksCoalesced ==
  \A b \in HeapBlocks(heap) :
    LET c == b + get_size(heap, b) IN
    c \in HeapBlocks(heap) => check_allocated(heap, b) \/ check_allocated(heap, c)

\* The allocator never stores outside memlib's region and find_fit never
\* meets a header whose size is zero.
NoFault == Running
=============================================================================
