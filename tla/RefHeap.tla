------------------------------ MODULE RefHeap ------------------------------
(***************************************************************************)
(* The value runtime of the Subpython interpreter (project05): the         *)
(* reference table, reference counting and the semi-space copying          *)
(* collector of refs.c, driven by the top-level statements of eval.c that  *)
(* create, bind, store and drop values (lists, ints and the None/True/     *)
(* False singletons).                                                      *)
(*                                                                         *)
(* One step is one statement read by the REPL (repl.c eval()): eval_root,  *)
(* the printing of an exception, exception_clear and the final decref of  *)
(* the result.  The statement's C code is composed from pure operators on  *)
(* a runtime record S, in the order the code calls them, so a collection  *)
(* triggered by gc() in the middle of an expression happens exactly where  *)
(* the evaluator would run it.                                             *)
(*                                                                         *)
(* A table entry holds where the value lives (addr, size in words) and     *)
(* what is stored there (type, ref_count, the handles its payload holds,  *)
(* a list's size).  intact = FALSE means another block has since been     *)
(* allocated over it: what the handle points to is no longer its value.   *)
(***************************************************************************)
EXTENDS Naturals, Integers, Sequences, SequencesExt, FiniteSets

CONSTANTS
  PoolWords,    \* actual_size / 8 (the whole pool, both halves)
  HeaderWords,  \* sizeof(value_t) / 8
  Names,        \* user global variable names
  MaxRefs,      \* bound on num_refs (the table grows without limit in C)
  Stmts,        \* the statements a session may enter
  StartAfterGc, \* TRUE: the session's first statement was gc()
  IntBits,      \* width of integer_value (int64_t in C, scaled down)
  StackDepth,   \* nesting of compare/ref_eq calls at which the C stack overflows
  TrackPool,    \* FALSE: the pool is not tracked (allocation always succeeds)
  NULL_REF,     \* the absent-value handle
  NULL          \* a cleared table slot (the NULL value_t pointer)

ASSUME PoolWords \in Nat /\ PoolWords % 2 = 0
ASSUME MaxRefs \in Nat /\ StartAfterGc \in BOOLEAN
ASSUME IntBits \in Nat \ {0} /\ StackDepth \in Nat /\ TrackPool \in BOOLEAN

Half == PoolWords \div 2
Alloc == INSTANCE PoolAllocator WITH Requests <- {}, freeList <- <<>>,
                                     allocated <- {}, failed <- FALSE

\* Block sizes in words (sizeof of the value structs, rounded by make_ref).
NoneWords == HeaderWords
IntWords == HeaderWords + 1
ListWords == HeaderWords + 2
RefArrayWords(cap) == (32 + 4 * cap + 7) \div 8

\* The singletons get the first three handles in eval_init.
NONE_REF == 0
TRUE_REF == 1
FALSE_REF == 2
BuiltinNames == {"None", "True", "False"}

-----------------------------------------------------------------------------
(* Runtime record helpers.                                                 *)

\* mm_malloc and mm_free.  A run that does not track the pool abstracts it
\* away: every allocation succeeds with a block that overlaps nothing, and
\* a free changes nothing.
PoolMalloc(S, size) ==
  IF TrackPool THEN Alloc!MmMalloc(S.fl, size)
  ELSE [ok |-> TRUE, fl |-> S.fl, blk |-> [addr |-> S.base, size |-> 0]]

PoolFree(S, blk) == IF TrackPool THEN Alloc!MmFree(S.fl, blk) ELSE S.fl

\* Bind(e, K) is K(e): the value e computed once and handed to the rest of
\* the computation K.  The C code's sequencing of calls on the global state
\* is written with it, one call per Bind.
Bind(e, K(_)) == CHOOSE out \in {K(v) : v \in {e}} : TRUE

Abort(S) == [S EXCEPT !.abort = TRUE]
Raise(S, kind) == [S EXCEPT !.exc = kind]
Ok(S) == ~S.abort /\ S.exc = "none"

\* is_pool_address: inside the region the allocator currently manages.
InRegion(S, a) == S.base <= a /\ a < S.base + S.msize

\* deref(ref): asserts the index is in the table and the slot points into the
\* pool; a slot whose block was allocated over reads some other value.
Valid(S, h) ==
  /\ h \in DOMAIN S.table
  /\ S.table[h] # NULL
  /\ InRegion(S, S.table[h].addr)
  /\ S.table[h].intact

BlockOf(e) == [addr |-> e.addr, size |-> e.size]

\* Allocating blk overwrites every value whose block shares a word with it.
Clobber(S, blk) ==
  [S EXCEPT !.table = [h \in DOMAIN S.table |->
     IF S.table[h] # NULL /\ Alloc!Overlap(BlockOf(S.table[h]), blk)
     THEN [S.table[h] EXCEPT !.intact = FALSE] ELSE S.table[h]]]

\* assign_reference: first unused slot, else append.  Reaching MaxRefs stops
\* the evaluation (bound) and the step is not taken.
AssignReference(S, e) ==
  LET n == Cardinality(DOMAIN S.table)
      unused == {i \in DOMAIN S.table : S.table[i] = NULL}
  IN IF unused # {}
     THEN LET h == Min(unused) IN [s |-> [S EXCEPT !.table[h] = e], h |-> h]
     ELSE IF n >= MaxRefs THEN [s |-> [S EXCEPT !.bound = TRUE, !.abort = TRUE],
                                h |-> NULL_REF]
     ELSE [s |-> [S EXCEPT !.table = [i \in 0 .. n |->
                               IF i = n THEN e ELSE S.table[i]]],
           h |-> n]

\* make_ref and the make_reference_* helpers: allocate, set the header
\* (ref_count 1) and the payload, assign a handle.
MakeRef(S, type, size, kids, lsize) ==
  Bind(PoolMalloc(S, size), LAMBDA r :
    IF ~r.ok THEN [s |-> Raise(S, "MemoryError"), h |-> NULL_REF]
    ELSE Bind([Clobber(S, r.blk) EXCEPT !.fl = r.fl], LAMBDA S1 :
           AssignReference(S1, [addr |-> r.blk.addr, size |-> r.blk.size,
                                type |-> type, cnt |-> 1, kids |-> kids,
                                lsize |-> lsize, val |-> 0, intact |-> TRUE])))

\* make_reference_int: make_ref, then the payload.
MakeInt(S, v) ==
  Bind(MakeRef(S, "int", IntWords, <<>>, 0), LAMBDA r :
    IF r.h = NULL_REF THEN r ELSE [r EXCEPT !.s.table[r.h].val = v])

-----------------------------------------------------------------------------
(* Reference counting (refs.c incref / decref / recurse).                  *)

IncRef(S, h) ==
  IF S.abort THEN S
  ELSE IF ~Valid(S, h) THEN Abort(S)
  ELSE [S EXCEPT !.table[h].cnt = @ + 1]

\* decref: a count already at zero means the value is being freed further
\* up the recursion and was reached again through a cycle: recurse() would
\* descend into it forever, so that is a crash.
RECURSIVE DecRef(_, _), DecRefKids(_, _, _)

\* Mutant: the block is returned to mm_free but ref_table[ref] is not cleared.
DecRefKeepSlot(S, h) ==
  IF S.abort \/ h = NULL_REF THEN S
  ELSE IF ~Valid(S, h) \/ S.table[h].cnt = 0 THEN Abort(S)
  ELSE IF S.table[h].cnt > 1 THEN [S EXCEPT !.table[h].cnt = @ - 1]
  ELSE Bind(DecRefKids([S EXCEPT !.table[h].cnt = 0], h, 1), LAMBDA S1 :
         IF S1.abort THEN S1
         ELSE [S1 EXCEPT !.fl = PoolFree(S1, BlockOf(S.table[h]))])

DecRef(S, h) ==
  IF S.abort \/ h = NULL_REF THEN S
  ELSE IF ~Valid(S, h) \/ S.table[h].cnt = 0 THEN Abort(S)
  ELSE IF S.table[h].cnt > 1 THEN [S EXCEPT !.table[h].cnt = @ - 1]
  ELSE Bind(DecRefKids([S EXCEPT !.table[h].cnt = 0], h, 1), LAMBDA S1 :
         IF S1.abort THEN S1
         ELSE [S1 EXCEPT !.table[h] = NULL,
                         !.fl = PoolFree(S1, BlockOf(S.table[h]))])

\* recurse(v, decref): the payload's handles in order, read from v as it is.
DecRefKids(S, h, i) ==
  IF S.abort \/ i > Len(S.table[h].kids) THEN S
  ELSE Bind(DecRef(S, S.table[h].kids[i]), LAMBDA S1 : DecRefKids(S1, h, i + 1))

-----------------------------------------------------------------------------
(* The copying collector (refs.c collect_garbage / operate_global).        *)

\* operate_global: a value already inside the new region counts one more
\* reference; otherwise it is copied (mm_malloc of its size, memcpy, count
\* reset to 1), the slot is moved, and its payload is evacuated.  Only the
\* pointer is tested, so a value overwritten in place still counts as
\* copied.  A cleared slot (NULL->value_size), an overwritten header (a
\* garbage value_size) and a copy that cannot be allocated (memcpy to NULL)
\* crash the interpreter.  The copy keeps the old value_size: memcpy
\* overwrites the header mm_malloc wrote.
RECURSIVE Evacuate(_, _), EvacuateKids(_, _, _)

Copied(S, h, r) ==
  [Clobber(S, r.blk) EXCEPT
     !.fl = r.fl,
     !.table[h] = [S.table[h] EXCEPT
                     !.addr = r.blk.addr, !.cnt = 1,
                     !.intact = ~Alloc!Overlap(r.blk, BlockOf(S.table[h]))]]

\* Mutant: operate_global copies the value but does not recurse into it.
EvacuateShallow(S, h) ==
  IF S.abort \/ h = NULL_REF THEN S
  ELSE IF h \notin DOMAIN S.table \/ S.table[h] = NULL THEN Abort(S)
  ELSE IF InRegion(S, S.table[h].addr) THEN [S EXCEPT !.table[h].cnt = @ + 1]
  ELSE IF ~S.table[h].intact THEN Abort(S)
  ELSE Bind(PoolMalloc(S, S.table[h].size), LAMBDA r :
         IF ~r.ok THEN Abort(S) ELSE Copied(S, h, r))

Evacuate(S, h) ==
  IF S.abort \/ h = NULL_REF THEN S
  ELSE IF h \notin DOMAIN S.table \/ S.table[h] = NULL THEN Abort(S)
  ELSE IF InRegion(S, S.table[h].addr) THEN [S EXCEPT !.table[h].cnt = @ + 1]
  ELSE IF ~S.table[h].intact THEN Abort(S)
  ELSE Bind(PoolMalloc(S, S.table[h].size), LAMBDA r :
         IF ~r.ok THEN Abort(S)
         ELSE Bind(Copied(S, h, r), LAMBDA S1 : EvacuateKids(S1, h, 1)))

EvacuateKids(S, h, i) ==
  IF S.abort \/ i > Len(S.table[h].kids) THEN S
  ELSE Bind(Evacuate(S, S.table[h].kids[i]), LAMBDA S1 : EvacuateKids(S1, h, i + 1))

RECURSIVE EvacuateGlobals(_, _)
EvacuateGlobals(S, i) ==
  IF i > Len(S.globals) THEN S
  ELSE Bind(Evacuate(S, S.globals[i].ref), LAMBDA S1 : EvacuateGlobals(S1, i + 1))

\* The flip of collect_garbage: f toggles and mm_init formats the other half.
Flipped(S) ==
  LET to == IF ~S.f THEN Half ELSE 0 IN
  [S EXCEPT !.f = ~S.f, !.base = to, !.msize = Half, !.fl = Alloc!MmInit(to, Half)]

\* Mutant: collect_garbage without the final sweep of the ref table.
CollectGarbageNoSweep(S) == EvacuateGlobals(Flipped(S), 1)

\* collect_garbage: flip, re-initialise the allocator over the other half,
\* evacuate every global (foreach_global order), then clear every slot that
\* does not point into the new half.
CollectGarbage(S) ==
  Bind(EvacuateGlobals(Flipped(S), 1), LAMBDA S1 :
    IF S1.abort THEN S1
    ELSE [S1 EXCEPT !.table = [h \in DOMAIN S1.table |->
            IF S1.table[h] # NULL /\ InRegion(S1, S1.table[h].addr)
            THEN S1.table[h] ELSE NULL]])

-----------------------------------------------------------------------------
(* Global variables (eval.c globals_get / globals_set / globals_delete).   *)

GlobalIndex(S, x) ==
  LET is == {i \in 1 .. Len(S.globals) : S.globals[i].name = x} IN
  IF is = {} THEN 0 ELSE Min(is)

\* globals_get returns a new reference.
GlobalsGet(S, x) ==
  LET i == GlobalIndex(S, x) IN
  IF i = 0 THEN [s |-> Raise(S, "NameError"), h |-> NULL_REF]
  ELSE [s |-> IncRef(S, S.globals[i].ref), h |-> S.globals[i].ref]

\* Mutant: rebinding a name does not drop the old binding's reference.
GlobalsSetNoDecRef(S, x, h) ==
  LET i == GlobalIndex(S, x) IN
  IF i # 0
  THEN [IncRef(S, h) EXCEPT !.globals[i].ref = h]
  ELSE [IncRef(S, h) EXCEPT !.globals = Append(@, [name |-> x, ref |-> h])]

\* globals_set drops the old binding before taking the new reference.
GlobalsSet(S, x, h) ==
  LET i == GlobalIndex(S, x) IN
  IF i # 0
  THEN Bind(DecRef(S, S.globals[i].ref), LAMBDA S1 :
         [IncRef(S1, h) EXCEPT !.globals[i].ref = h])
  ELSE [IncRef(S, h) EXCEPT !.globals = Append(@, [name |-> x, ref |-> h])]

\* globals_delete drops the binding and slides the later ones down.
GlobalsDelete(S, x) ==
  LET i == GlobalIndex(S, x) IN
  IF i = 0 THEN Raise(S, "NameError")
  ELSE [DecRef(S, S.globals[i].ref) EXCEPT !.globals = RemoveAt(@, i)]

-----------------------------------------------------------------------------
(* The type dispatch of eval_types.c and eval_list.c for the modelled      *)
(* types.  Ints carry their value; None, True and False are the three      *)
(* singleton handles.                                                      *)

\* int64_t arithmetic at IntBits bits: an overflowing add, subtract,
\* multiply or negate wraps, as the machine instructions the build emits do.
IntMin == -(2 ^ (IntBits - 1))
IntMax == 2 ^ (IntBits - 1) - 1
Wrap(n) == ((n - IntMin) % (2 ^ IntBits)) + IntMin

\* C's / truncates toward zero and % takes the sign of the dividend.
AbsInt(n) == IF n < 0 THEN -n ELSE n
CDiv(a, b) == IF (a < 0) = (b < 0) THEN AbsInt(a) \div AbsInt(b)
              ELSE -(AbsInt(a) \div AbsInt(b))
CMod(a, b) == a - b * CDiv(a, b)

\* The integer builtins (integer_unaryop_*, integer_binop_*); a unary
\* operator gets its operand twice and ignores the second.
IntOp(op, a, b) ==
  CASE op = "neg" -> Wrap(-a)
    [] op = "pos" -> a
    [] op = "add" -> Wrap(a + b)
    [] op = "sub" -> Wrap(a - b)
    [] op = "mul" -> Wrap(a * b)
    [] op = "div" -> Wrap(CDiv(a, b))
    [] op = "mod" -> CMod(a, b)

\* x86 idiv traps (SIGFPE) on a zero divisor and on IntMin / -1.
DivTraps(op, a, b) == op \in {"div", "mod"} /\ (b = 0 \/ (a = IntMin /\ b = -1))

Sign(n) == IF n > 0 THEN 1 ELSE IF n < 0 THEN -1 ELSE 0
Bit(b) == IF b THEN 1 ELSE 0

\* The handle a list holds at 0-based index i, read through its ref array.
Elem(S, l, i) == S.table[S.table[l].kids[1]].kids[i + 1]

\* ref_bool: every modelled type has f_bool.  Only the True singleton is a
\* true singleton (singleton_bool); an int is true when non-zero, a list
\* when non-empty (list_bool).
Truthy(S, h) ==
  CASE S.table[h].type \in {"none", "bool"} -> h = TRUE_REF
    [] S.table[h].type = "int" -> S.table[h].val # 0
    [] S.table[h].type = "list" -> S.table[h].lsize > 0

\* bool_ref: a new reference to True or False.
BoolRef(S, b) ==
  LET h == IF b THEN TRUE_REF ELSE FALSE_REF IN [s |-> IncRef(S, h), h |-> h]

\* deref of both operands, and of the ref arrays when both are lists.
Derefs(S, l, r) ==
  /\ Valid(S, l) /\ Valid(S, r)
  /\ S.table[l].type = "list" /\ S.table[r].type = "list"
       => Valid(S, S.table[l].kids[1]) /\ Valid(S, S.table[r].kids[1])

\* compare / list_cmp: three-way comparison; different types, or a type
\* without f_cmp, raise TypeError and yield 0.  d is the depth of nested
\* compare calls: past StackDepth the C stack overflows.
RECURSIVE Compare(_, _, _, _), ListCmp(_, _, _, _, _)
Compare(S, l, r, d) ==
  IF d > StackDepth \/ ~Derefs(S, l, r) THEN [s |-> Abort(S), c |-> 0]
  ELSE IF S.table[l].type # S.table[r].type
  THEN [s |-> Raise(S, "TypeError"), c |-> 0]
  ELSE CASE S.table[l].type = "int" ->
              [s |-> S, c |-> Sign(S.table[l].val - S.table[r].val)]
         [] S.table[l].type \in {"none", "bool"} ->
              [s |-> S, c |-> Bit(Truthy(S, l)) - Bit(Truthy(S, r))]
         [] S.table[l].type = "list" -> ListCmp(S, l, r, 0, d)

ListCmp(S, l, r, i, d) ==
  LET nl == S.table[l].lsize
      nr == S.table[r].lsize
  IN IF i >= nl \/ i >= nr THEN [s |-> S, c |-> Sign(nl - nr)]
     ELSE Bind(Compare(S, Elem(S, l, i), Elem(S, r, i), d + 1), LAMBDA cr :
            IF ~Ok(cr.s) THEN [s |-> cr.s, c |-> 0]
            ELSE IF cr.c # 0 THEN cr
            ELSE ListCmp(cr.s, l, r, i + 1, d))

\* ref_eq / list_eq: different types are unequal; singletons are equal
\* when they are the same value (singleton_eq compares pointers).
RECURSIVE RefEq(_, _, _, _), ListEq(_, _, _, _, _)
RefEq(S, l, r, d) ==
  IF d > StackDepth \/ ~Derefs(S, l, r) THEN [s |-> Abort(S), b |-> FALSE]
  ELSE IF S.table[l].type # S.table[r].type THEN [s |-> S, b |-> FALSE]
  ELSE CASE S.table[l].type = "int" -> [s |-> S, b |-> S.table[l].val = S.table[r].val]
         [] S.table[l].type \in {"none", "bool"} -> [s |-> S, b |-> l = r]
         [] S.table[l].type = "list" ->
              IF S.table[l].lsize # S.table[r].lsize THEN [s |-> S, b |-> FALSE]
              ELSE ListEq(S, l, r, 0, d)

ListEq(S, l, r, i, d) ==
  IF i >= S.table[l].lsize THEN [s |-> S, b |-> TRUE]
  ELSE Bind(RefEq(S, Elem(S, l, i), Elem(S, r, i), d + 1), LAMBDA q :
         IF ~q.b \/ ~Ok(q.s) THEN [s |-> q.s, b |-> FALSE]
         ELSE ListEq(q.s, l, r, i + 1, d))

CompOps == {"lt", "gt", "le", "ge"}

\* ref_compare: compare, then a bool for the operator's test.
RefCompare(S, op, l, r) ==
  Bind(Compare(S, l, r, 1), LAMBDA cr :
    IF ~Ok(cr.s) THEN [s |-> cr.s, h |-> NULL_REF]
    ELSE BoolRef(cr.s, CASE op = "lt" -> cr.c < 0 [] op = "gt" -> cr.c > 0
                         [] op = "le" -> cr.c <= 0 [] op = "ge" -> cr.c >= 0))

\* ref_builtin: both operands of one type whose table has the operator;
\* of the modelled types only int has arithmetic.
RefBuiltin(S, op, l, r) ==
  IF S.table[l].type # S.table[r].type \/ S.table[l].type # "int"
  THEN [s |-> Raise(S, "TypeError"), h |-> NULL_REF]
  ELSE IF DivTraps(op, S.table[l].val, S.table[r].val)
  THEN [s |-> Abort(S), h |-> NULL_REF]
  ELSE MakeInt(S, IntOp(op, S.table[l].val, S.table[r].val))

\* Mutant: == is routed to ref_compare like the other comparisons (a test
\* type >= COMP_EQUALS), whose COMP_EQUALS case yields comparison == 0.
DispatchEqAsCompare(S, op, l, r) ==
  IF op = "eq"
  THEN Bind(Compare(S, l, r, 1), LAMBDA cr :
         IF ~Ok(cr.s) THEN [s |-> cr.s, h |-> NULL_REF] ELSE BoolRef(cr.s, cr.c = 0))
  ELSE IF op \in CompOps THEN RefCompare(S, op, l, r)
  ELSE RefBuiltin(S, op, l, r)

\* The dispatch in eval_builtin: == goes to ref_eq (bool_ref is applied
\* even if ref_eq raised), the comparisons after COMP_EQUALS to
\* ref_compare, the rest to ref_builtin.
Dispatch(S, op, l, r) ==
  IF op = "eq" THEN Bind(RefEq(S, l, r, 1), LAMBDA q : BoolRef(q.s, q.b))
  ELSE IF op \in CompOps THEN RefCompare(S, op, l, r)
  ELSE RefBuiltin(S, op, l, r)

-----------------------------------------------------------------------------
(* Expressions (eval.c eval_expr).  An expression is a record:             *)
(*   [k |-> "int", v |-> n]     an integer literal                         *)
(*   [k |-> "single", h |-> r]  None, True or False (r is its handle)      *)
(*   [k |-> "builtin", op |-> o, l |-> e1, r |-> e2 or NoOperand] operator *)
(*        o in neg pos add sub mul div mod eq lt gt le ge                  *)
(*   [k |-> "not", e |-> e1], [k |-> "and"/"or", l |-> e1, r |-> e2]       *)
(*   [k |-> "subscript", obj |-> e1, index |-> e2]   e1[e2]                *)
(*   [k |-> "name", n |-> x]    an identifier                              *)
(*   [k |-> "gc"]               the call gc()                              *)
(*   [k |-> "len", n |-> x]     the call len(x)                            *)
(*   [k |-> "list", es |-> <<e1, ...>>]  a list literal                    *)
(* Each evaluates to [s |-> runtime, h |-> new reference or NULL_REF].     *)

\* eval_literal_list stores each element through the raw pointer it took
\* to the ref array when it was created: if the array has been moved since,
\* the store lands in its old block.
StoreElem(S, arr, addr, i, h) ==
  IF S.abort THEN S
  ELSE IF S.table[arr] # NULL /\ S.table[arr].addr = addr
  THEN [S EXCEPT !.table[arr].kids[i] = h]
  ELSE Clobber(S, [addr |-> addr + 4 + (i - 1) \div 2, size |-> 1])

\* ref_len for the types the model has: only lists have a length; on the
\* TypeError path it returns NULL_REF, which is 0.
LenOf(S, h) ==
  IF S.table[h].type = "list" THEN [s |-> S, v |-> S.table[h].lsize]
  ELSE [s |-> Raise(S, "TypeError"), v |-> 0]

\* list_coerce_subscript: negative indices count from the end.
ListIndex(size, i) == IF i < 0 THEN i + size ELSE i

\* Mutant: list_subscr_get hands back the element without a new reference.
ListGetBorrowed(S, t, ix) ==
  IF ~Valid(S, t) \/ ~Valid(S, ix) THEN [s |-> Abort(S), h |-> NULL_REF]
  ELSE IF S.table[t].type # "list" \/ S.table[ix].type # "int"
  THEN [s |-> Raise(S, "TypeError"), h |-> NULL_REF]
  ELSE LET n == S.table[t].lsize
           idx == ListIndex(n, S.table[ix].val)
       IN IF idx < 0 \/ idx >= n THEN [s |-> Raise(S, "IndexError"), h |-> NULL_REF]
          ELSE IF ~Valid(S, S.table[t].kids[1]) THEN [s |-> Abort(S), h |-> NULL_REF]
          ELSE [s |-> S, h |-> Elem(S, t, idx)]

\* ref_subscr_get / list_subscr_get: lists only; the index must be an int,
\* negative counts from the end (list_coerce_subscript); the element gets a
\* new reference.
ListGet(S, t, ix) ==
  IF ~Valid(S, t) \/ ~Valid(S, ix) THEN [s |-> Abort(S), h |-> NULL_REF]
  ELSE IF S.table[t].type # "list" \/ S.table[ix].type # "int"
  THEN [s |-> Raise(S, "TypeError"), h |-> NULL_REF]
  ELSE LET n == S.table[t].lsize
           idx == ListIndex(n, S.table[ix].val)
       IN IF idx < 0 \/ idx >= n THEN [s |-> Raise(S, "IndexError"), h |-> NULL_REF]
          ELSE IF ~Valid(S, S.table[t].kids[1]) THEN [s |-> Abort(S), h |-> NULL_REF]
          ELSE [s |-> IncRef(S, Elem(S, t, idx)), h |-> Elem(S, t, idx)]

RECURSIVE EvalExpr(_, _), EvalElems(_, _, _, _, _, _), EvalBuiltin(_, _),
          EvalSubscript(_, _), EvalBuiltinUnaryNoIncRef(_, _),
          EvalBuiltinKeepOnError(_, _), EvalSubscriptKeepIndex(_, _)
EvalExpr(S, e) ==
  IF S.abort THEN [s |-> S, h |-> NULL_REF]
  ELSE CASE e.k = "int"  -> MakeInt(S, e.v)
         [] e.k = "name" -> GlobalsGet(S, e.n)
         [] e.k = "single" -> [s |-> IncRef(S, e.h), h |-> e.h]
         [] e.k = "builtin" -> EvalBuiltin(S, e)
         [] e.k = "subscript" -> EvalSubscript(S, e)
         [] e.k = "not" ->
              \* eval_not_test: bool_ref of the negated truth value, then
              \* drop the operand.
              Bind(EvalExpr(S, e.e), LAMBDA o :
                IF ~Ok(o.s) THEN [s |-> o.s, h |-> NULL_REF]
                ELSE IF ~Valid(o.s, o.h) THEN [s |-> Abort(o.s), h |-> NULL_REF]
                ELSE Bind(BoolRef(o.s, ~Truthy(o.s, o.h)), LAMBDA r :
                       [r EXCEPT !.s = DecRef(@, o.h)]))
         [] e.k \in {"and", "or"} ->
              \* eval_and_test / eval_or_test: the left operand itself when
              \* it decides the result, else it is dropped and the right
              \* operand is the result.
              Bind(EvalExpr(S, e.l), LAMBDA lt :
                IF ~Ok(lt.s) THEN [s |-> lt.s, h |-> NULL_REF]
                ELSE IF ~Valid(lt.s, lt.h) THEN [s |-> Abort(lt.s), h |-> NULL_REF]
                ELSE IF Truthy(lt.s, lt.h) = (e.k = "or") THEN lt
                ELSE EvalExpr(DecRef(lt.s, lt.h), e.r))
         [] e.k = "gc"   ->
              \* eval_call_gc: collect_garbage, then a new reference to None.
              [s |-> Bind(CollectGarbage(S), LAMBDA S1 : IncRef(S1, NONE_REF)),
               h |-> NONE_REF]
         [] e.k = "len"  ->
              \* eval_call: evaluate the argument; eval_call_len allocates the
              \* result of ref_len even when ref_len raised; drop the argument.
              Bind(GlobalsGet(S, e.n), LAMBDA a :
                IF ~Ok(a.s) THEN [s |-> a.s, h |-> NULL_REF]
                ELSE IF ~Valid(a.s, a.h) THEN [s |-> Abort(a.s), h |-> NULL_REF]
                ELSE Bind(LenOf(a.s, a.h), LAMBDA ln :
                     Bind(MakeInt(ln.s, ln.v), LAMBDA r :
                       [s |-> DecRef(r.s, a.h), h |-> r.h])))
         [] e.k = "list" ->
              LET n == Len(e.es) IN
              Bind(MakeRef(S, "refarray", RefArrayWords(n),
                           [i \in 1 .. n |-> NULL_REF], 0), LAMBDA ra :
                IF ~Ok(ra.s) THEN [s |-> ra.s, h |-> NULL_REF]
                ELSE Bind(MakeRef(ra.s, "list", ListWords, <<ra.h>>, n), LAMBDA rl :
                       IF ~Ok(rl.s) THEN [s |-> DecRef(rl.s, ra.h), h |-> NULL_REF]
                       ELSE EvalElems(rl.s, ra.h, rl.s.table[ra.h].addr, rl.h, e.es, 1)))

\* The right operand of a unary operator (builtin->right is NULL).
NoOperand == [k |-> "none"]

\* Mutants of eval_builtin: a unary operator reuses left as right without
\* taking a second reference; the operands are not dropped when the
\* dispatch raised.
EvalBuiltinUnaryNoIncRef(S, e) ==
  Bind(EvalExpr(S, e.l), LAMBDA lt :
    IF ~Ok(lt.s) THEN [s |-> lt.s, h |-> NULL_REF]
    ELSE Bind(IF e.r = NoOperand THEN lt ELSE EvalExpr(lt.s, e.r), LAMBDA rt :
         IF ~Ok(rt.s) THEN [s |-> DecRef(rt.s, lt.h), h |-> NULL_REF]
         ELSE IF ~Valid(rt.s, lt.h) \/ ~Valid(rt.s, rt.h)
         THEN [s |-> Abort(rt.s), h |-> NULL_REF]
         ELSE Bind(Dispatch(rt.s, e.op, lt.h, rt.h), LAMBDA res :
                [s |-> DecRef(DecRef(res.s, lt.h), rt.h), h |-> res.h])))

EvalBuiltinKeepOnError(S, e) ==
  Bind(EvalExpr(S, e.l), LAMBDA lt :
    IF ~Ok(lt.s) THEN [s |-> lt.s, h |-> NULL_REF]
    ELSE Bind(IF e.r = NoOperand THEN [s |-> IncRef(lt.s, lt.h), h |-> lt.h]
              ELSE EvalExpr(lt.s, e.r), LAMBDA rt :
         IF ~Ok(rt.s) THEN [s |-> DecRef(rt.s, lt.h), h |-> NULL_REF]
         ELSE IF ~Valid(rt.s, lt.h) \/ ~Valid(rt.s, rt.h)
         THEN [s |-> Abort(rt.s), h |-> NULL_REF]
         ELSE Bind(Dispatch(rt.s, e.op, lt.h, rt.h), LAMBDA res :
                IF ~Ok(res.s) THEN res
                ELSE [s |-> DecRef(DecRef(res.s, lt.h), rt.h), h |-> res.h])))

\* eval_builtin: left, then right (a unary operator takes a second
\* reference to left instead), dispatch, then drop both operands whatever
\* the dispatch did.
EvalBuiltin(S, e) ==
  Bind(EvalExpr(S, e.l), LAMBDA lt :
    IF ~Ok(lt.s) THEN [s |-> lt.s, h |-> NULL_REF]
    ELSE Bind(IF e.r = NoOperand THEN [s |-> IncRef(lt.s, lt.h), h |-> lt.h]
              ELSE EvalExpr(lt.s, e.r), LAMBDA rt :
         IF ~Ok(rt.s) THEN [s |-> DecRef(rt.s, lt.h), h |-> NULL_REF]
         ELSE IF ~Valid(rt.s, lt.h) \/ ~Valid(rt.s, rt.h)
         THEN [s |-> Abort(rt.s), h |-> NULL_REF]
         ELSE Bind(Dispatch(rt.s, e.op, lt.h, rt.h), LAMBDA res :
                [s |-> DecRef(DecRef(res.s, lt.h), rt.h), h |-> res.h])))

\* Mutant: eval_subscript drops the target but not the index.
EvalSubscriptKeepIndex(S, e) ==
  Bind(EvalExpr(S, e.obj), LAMBDA t :
    IF ~Ok(t.s) THEN [s |-> t.s, h |-> NULL_REF]
    ELSE Bind(EvalExpr(t.s, e.index), LAMBDA ix :
         IF ~Ok(ix.s) THEN [s |-> DecRef(ix.s, t.h), h |-> NULL_REF]
         ELSE Bind(ListGet(ix.s, t.h, ix.h), LAMBDA g :
                [s |-> DecRef(g.s, t.h), h |-> g.h])))

\* eval_subscript: target, then index, then ref_subscr_get; both dropped.
EvalSubscript(S, e) ==
  Bind(EvalExpr(S, e.obj), LAMBDA t :
    IF ~Ok(t.s) THEN [s |-> t.s, h |-> NULL_REF]
    ELSE Bind(EvalExpr(t.s, e.index), LAMBDA ix :
         IF ~Ok(ix.s) THEN [s |-> DecRef(ix.s, t.h), h |-> NULL_REF]
         ELSE Bind(ListGet(ix.s, t.h, ix.h), LAMBDA g :
                [s |-> DecRef(DecRef(g.s, t.h), ix.h), h |-> g.h])))

\* The element loop of eval_literal_list: on an exception the list is
\* dropped (which drops the elements stored so far).
EvalElems(S, arr, addr, lst, es, i) ==
  IF i > Len(es) THEN [s |-> S, h |-> lst]
  ELSE Bind(EvalExpr(S, es[i]), LAMBDA r :
       Bind(StoreElem(r.s, arr, addr, i, r.h), LAMBDA S1 :
         IF S1.abort THEN [s |-> S1, h |-> NULL_REF]
         ELSE IF S1.exc # "none" THEN [s |-> DecRef(S1, lst), h |-> NULL_REF]
         ELSE EvalElems(S1, arr, addr, lst, es, i + 1)))

-----------------------------------------------------------------------------
(* Subscripts on lists (eval_list.c).                                      *)

\* ref_subscr_set / list_subscr_set: bounds check, drop the old element,
\* take a reference to the new one.
ListSet(S, t, i, v) ==
  IF S.table[t].type # "list" THEN Raise(S, "TypeError")
  ELSE LET idx == ListIndex(S.table[t].lsize, i)
           arr == S.table[t].kids[1]
       IN IF idx < 0 \/ idx >= S.table[t].lsize THEN Raise(S, "IndexError")
          ELSE IF ~Valid(S, arr) THEN Abort(S)
          ELSE Bind(DecRef(S, S.table[arr].kids[idx + 1]), LAMBDA S1 :
               Bind(IncRef(S1, v), LAMBDA S2 :
                 IF S2.abort THEN S2
                 ELSE [S2 EXCEPT !.table[arr].kids[idx + 1] = v]))

\* The shift of list_subscr_del: slots after idx move down one, the slot at
\* the new size n - 1 (index n in 1-based kids) becomes NULL_REF.
Shifted(kids, idx, n) ==
  [j \in 1 .. Len(kids) |->
     IF j <= idx THEN kids[j]
     ELSE IF j < n THEN kids[j + 1]
     ELSE IF j = n THEN NULL_REF ELSE kids[j]]

\* Mutants of list_subscr_del: the vacated last slot is not cleared; the
\* bounds check misses idx >= size.
ListDelNoClear(S, t, i) ==
  IF S.table[t].type # "list" THEN Raise(S, "TypeError")
  ELSE LET n == S.table[t].lsize
           idx == ListIndex(n, i)
           arr == S.table[t].kids[1]
       IN IF idx < 0 \/ idx >= n THEN Raise(S, "IndexError")
          ELSE IF ~Valid(S, arr) THEN Abort(S)
          ELSE Bind(DecRef([S EXCEPT !.table[t].lsize = n - 1],
                           S.table[arr].kids[idx + 1]), LAMBDA S1 :
                 IF S1.abort THEN S1
                 ELSE [S1 EXCEPT !.table[arr].kids =
                         [j \in 1 .. Len(@) |-> IF j > idx /\ j < n THEN @[j + 1] ELSE @[j]]])

ListDelNoUpperBound(S, t, i) ==
  IF S.table[t].type # "list" THEN Raise(S, "TypeError")
  ELSE LET n == S.table[t].lsize
           idx == ListIndex(n, i)
           arr == S.table[t].kids[1]
       IN IF idx < 0 THEN Raise(S, "IndexError")
          ELSE IF ~Valid(S, arr) \/ idx >= Len(S.table[arr].kids) THEN Abort(S)
          ELSE Bind(DecRef([S EXCEPT !.table[t].lsize = n - 1],
                           S.table[arr].kids[idx + 1]), LAMBDA S1 :
                 IF S1.abort THEN S1
                 ELSE [S1 EXCEPT !.table[arr].kids = Shifted(@, idx, n)])

\* list_subscr_del: size--, drop the element, shift the rest down, clear the
\* vacated last slot.  The ref array keeps its capacity.
ListDel(S, t, i) ==
  IF S.table[t].type # "list" THEN Raise(S, "TypeError")
  ELSE LET n == S.table[t].lsize
           idx == ListIndex(n, i)
           arr == S.table[t].kids[1]
       IN IF idx < 0 \/ idx >= n THEN Raise(S, "IndexError")
          ELSE IF ~Valid(S, arr) THEN Abort(S)
          ELSE Bind(DecRef([S EXCEPT !.table[t].lsize = n - 1],
                           S.table[arr].kids[idx + 1]), LAMBDA S1 :
                 IF S1.abort THEN S1
                 ELSE [S1 EXCEPT !.table[arr].kids = Shifted(@, idx, n)])

-----------------------------------------------------------------------------
(* Statements (eval.c eval_stmt) and one REPL evaluation (repl.c eval).    *)
(* A statement is a record:                                                *)
(*   [k |-> "assign",  x |-> name, e |-> expr]        x = e                *)
(*   [k |-> "setitem", x |-> name, i |-> int, e |-> expr]   x[i] = e       *)
(*   [k |-> "del",     x |-> name]                    del x                *)
(*   [k |-> "delitem", x |-> name, i |-> int]         del x[i]             *)
(*   [k |-> "expr",    e |-> expr]                    e                    *)

\* eval_stmt_assign, EXPR_SUBSCRIPT case: each reference taken is dropped
\* on the way out, but only on the paths where it was taken.
SetItem(S, st) ==
  Bind(EvalExpr(S, st.e), LAMBDA r :
    IF ~Ok(r.s) THEN r.s
    ELSE Bind(GlobalsGet(r.s, st.x), LAMBDA t :
         Bind(IF ~Ok(t.s) THEN t.s
              ELSE Bind(MakeInt(t.s, st.i), LAMBDA ix :
                     IF ~Ok(ix.s) THEN ix.s
                     ELSE Bind(ListSet(ix.s, t.h, st.i, r.h), LAMBDA S0 :
                            DecRef(S0, ix.h))), LAMBDA S1 :
         Bind(IF Ok(t.s) THEN DecRef(S1, t.h) ELSE S1, LAMBDA S2 :
           DecRef(S2, r.h)))))

\* eval_stmt_del, EXPR_SUBSCRIPT case.
DelItem(S, st) ==
  Bind(GlobalsGet(S, st.x), LAMBDA t :
    IF ~Ok(t.s) THEN t.s
    ELSE Bind(MakeInt(t.s, st.i), LAMBDA ix :
         Bind(IF ~Ok(ix.s) THEN ix.s
              ELSE Bind(ListDel(ix.s, t.h, st.i), LAMBDA S0 : DecRef(S0, ix.h)),
              LAMBDA S1 : DecRef(S1, t.h))))

\* eval_stmt: the statement's result (NULL_REF for everything but an
\* expression statement).
EvalStmt(S, st) ==
  CASE st.k = "assign" ->
         Bind(EvalExpr(S, st.e), LAMBDA r :
           [s |-> IF Ok(r.s)
                  THEN Bind(GlobalsSet(r.s, st.x, r.h), LAMBDA S1 : DecRef(S1, r.h))
                  ELSE r.s,
            h |-> NULL_REF])
    [] st.k = "setitem" -> [s |-> SetItem(S, st), h |-> NULL_REF]
    [] st.k = "del"     -> [s |-> GlobalsDelete(S, st.x), h |-> NULL_REF]
    [] st.k = "delitem" -> [s |-> DelItem(S, st), h |-> NULL_REF]
    [] st.k = "expr"    -> EvalExpr(S, st.e)

\* ref_print_repr with MAX_DEPTH: what the REPL prints for a value.  An int
\* prints its value, a singleton its name, a list the sequence of its
\* elements' representations one level deeper; "..." stands for what lies
\* past the depth cutoff.
MAX_DEPTH == 4

RECURSIVE Repr(_, _, _), Printable(_, _, _)
Repr(S, h, depth) ==
  IF depth = 0 THEN "..."
  ELSE CASE h = NONE_REF -> "None"
         [] h = TRUE_REF -> "True"
         [] h = FALSE_REF -> "False"
         [] S.table[h].type = "int" -> S.table[h].val
         [] S.table[h].type = "list" ->
              [i \in 1 .. S.table[h].lsize |-> Repr(S, Elem(S, h, i - 1), depth - 1)]

\* Every deref the printing does succeeds.
Printable(S, h, depth) ==
  \/ depth = 0
  \/ /\ Valid(S, h)
     /\ S.table[h].type = "list" =>
          /\ Valid(S, S.table[h].kids[1])
          /\ \A i \in 0 .. S.table[h].lsize - 1 : Printable(S, Elem(S, h, i), depth - 1)

\* eval_root turns NULL_REF into a new reference to None; the REPL prints and
\* clears any exception or prints a result that is not None, then drops the
\* result.
ReplEval(S, st) ==
  Bind(EvalStmt(S, st), LAMBDA r :
  Bind(IF r.h = NULL_REF THEN [s |-> IncRef(r.s, NONE_REF), h |-> NONE_REF] ELSE r,
       LAMBDA q :
    IF ~Ok(q.s) \/ q.h = NONE_REF THEN DecRef(q.s, q.h)
    ELSE IF ~Printable(q.s, q.h, MAX_DEPTH) THEN Abort(q.s)
    ELSE DecRef([q.s EXCEPT !.out = Repr(q.s, q.h, MAX_DEPTH)], q.h)))

\* init_refs followed by eval_init: the three singletons are created, bound
\* to their names and their creation references dropped.
EmptyRuntime ==
  [table |-> [h \in {} |-> NULL], fl |-> Alloc!MmInit(0, PoolWords),
   base |-> 0, msize |-> PoolWords, f |-> FALSE, globals |-> <<>>,
   exc |-> "none", abort |-> FALSE, bound |-> FALSE, out |-> "nothing"]

\* eval_init binds a singleton: globals_set, then decref of the creation
\* reference.
BindSingleton(S, name, h) ==
  Bind(GlobalsSet(S, name, h), LAMBDA S1 : DecRef(S1, h))

EvalInit ==
  Bind(MakeRef(EmptyRuntime, "none", NoneWords, <<>>, 0), LAMBDA n :
  Bind(MakeRef(n.s, "bool", NoneWords, <<>>, 0), LAMBDA t :
  Bind(MakeRef(t.s, "bool", NoneWords, <<>>, 0), LAMBDA b :
  Bind(BindSingleton(b.s, "None", n.h), LAMBDA S1 :
  Bind(BindSingleton(S1, "True", t.h), LAMBDA S2 :
       BindSingleton(S2, "False", b.h))))))

GcStmt == [k |-> "expr", e |-> [k |-> "gc"]]

-----------------------------------------------------------------------------
VARIABLES
  table,     \* ref_table: handle -> NULL or the value at its location
  freeList,  \* the allocator's free list
  base,      \* memory_pool of mm.c: start of the region being allocated from
  msize,     \* memory_size of mm.c
  f,         \* refs.c f: which half is the "to" space
  globals,   \* global_vars, in order
  aborted,   \* the interpreter failed an assertion or crashed
  lastStmt,  \* the statement executed by the last step
  lastExc,   \* the exception it raised ("none" if it completed)
  lastOut    \* the value the REPL printed for it ("nothing" if none)

vars == <<table, freeList, base, msize, f, globals, aborted, lastStmt, lastExc,
          lastOut>>

Cur == [table |-> table, fl |-> freeList, base |-> base, msize |-> msize,
        f |-> f, globals |-> globals, exc |-> "none", abort |-> aborted,
        bound |-> FALSE, out |-> "nothing"]

SetState(S, st) ==
  /\ table' = S.table
  /\ freeList' = S.fl
  /\ base' = S.base
  /\ msize' = S.msize
  /\ f' = S.f
  /\ globals' = S.globals
  /\ aborted' = S.abort
  /\ lastStmt' = st
  /\ lastExc' = S.exc
  /\ lastOut' = S.out

Init ==
  \E S \in {IF StartAfterGc THEN ReplEval(EvalInit, GcStmt) ELSE EvalInit} :
     /\ table = S.table
     /\ freeList = S.fl
     /\ base = S.base
     /\ msize = S.msize
     /\ f = S.f
     /\ globals = S.globals
     /\ aborted = S.abort
     /\ lastStmt = IF StartAfterGc THEN GcStmt ELSE [k |-> "init"]
     /\ lastExc = "none"
     /\ lastOut = "nothing"

\* The REPL evaluates the next statement entered.
Execute(st) ==
  /\ ~aborted
  /\ \E S \in {ReplEval(Cur, st)} :
     /\ ~S.bound
     /\ SetState(S, st)

Next == \E st \in Stmts : Execute(st)

Spec == Init /\ [][Next]_vars

-----------------------------------------------------------------------------
(* Properties.                                                             *)

Live == {h \in DOMAIN table : table[h] # NULL}
Roots == {globals[i].ref : i \in 1 .. Len(globals)}
KidsOf(H) == UNION {Range(table[h].kids) : h \in H \cap Live} \ {NULL_REF}

RECURSIVE ReachFrom(_)
ReachFrom(R) == IF KidsOf(R) \subseteq R THEN R ELSE ReachFrom(R \cup KidsOf(R))
Reachable == ReachFrom(Roots)

\* Number of references to h held by global bindings and by live values.
Holders(h) ==
  Cardinality({i \in 1 .. Len(globals) : globals[i].ref = h})
  + FoldSet(LAMBDA l, acc : acc + Cardinality({i \in DOMAIN table[l].kids :
                                                table[l].kids[i] = h}),
            0, Live)

Entry == [addr : 0 .. PoolWords, size : 1 .. PoolWords,
          type : {"none", "bool", "int", "list", "refarray"},
          cnt : Nat, kids : Seq(Nat \cup {NULL_REF}), lsize : Nat,
          val : IntMin .. IntMax, intact : BOOLEAN]

TypeOK ==
  /\ \E n \in 0 .. MaxRefs : DOMAIN table = 0 .. n - 1
  /\ \A h \in DOMAIN table : table[h] = NULL \/ table[h] \in Entry
  /\ freeList \in Seq([addr : 0 .. PoolWords, size : 1 .. PoolWords])
  /\ f \in BOOLEAN /\ aborted \in BOOLEAN
  /\ globals \in Seq([name : Names \cup BuiltinNames, ref : Nat \cup {NULL_REF}])

\* The interpreter never stops on a failed deref assertion, a read of a
\* value that was overwritten, or a crash inside the collector.
NoAbort == ~aborted

\* Every value a program can reach from its globals is still in the table,
\* inside the active half and not overwritten: no handle dangles.
NoDangling ==
  \A h \in Reachable : h \in Live /\ table[h].intact /\ InRegion(Cur, table[h].addr)

\* Between statements, each value's ref_count equals the references to it
\* held by globals and by live values: none is leaked (count too high, so the
\* value outlives its last holder) and none can be freed while still held.
RefCountsExact == \A h \in Live : table[h].cnt = Holders(h)

\* Live blocks and free blocks never share a word, and all lie in the active
\* region: the allocator never hands out memory a live value occupies.
HeapDisjoint ==
  LET blocks == {BlockOf(table[h]) : h \in Live} IN
  /\ \A b1, b2 \in blocks : b1 # b2 => ~Alloc!Overlap(b1, b2)
  /\ \A b \in blocks, i \in 1 .. Len(freeList) : ~Alloc!Overlap(b, freeList[i])
  /\ \A i, j \in 1 .. Len(freeList) : i # j => ~Alloc!Overlap(freeList[i], freeList[j])
  /\ \A b \in blocks \cup Range(freeList) : b.addr >= base /\ b.addr + b.size <= base + msize

\* A top-level gc() leaves exactly the values reachable from the globals in
\* the table, each with the same contents under the same handle: cycles
\* are reclaimed and nothing a program can reach is lost or changed.
Contents(e) == [type |-> e.type, kids |-> e.kids, lsize |-> e.lsize, val |-> e.val]
GcExact ==
  [][lastStmt' = GcStmt =>
       /\ Live' = Reachable'
       /\ \A h \in Reachable : h \in Live' /\ Contents(table'[h]) = Contents(table[h])
    ]_vars

-----------------------------------------------------------------------------
(* What an expression means (spec.md, type dispatch), computed on the      *)
(* values the globals denote rather than on handles: the reference the    *)
(* dispatch code of eval.c and eval_types.c is checked against.            *)

\* The value a handle denotes, cut off below depth d.
RECURSIVE ValueOf(_, _, _)
ValueOf(T, h, d) ==
  IF d = 0 THEN [t |-> "deep"]
  ELSE CASE T[h].type = "int" -> [t |-> "int", v |-> T[h].val]
         [] T[h].type = "none" -> [t |-> "none"]
         [] T[h].type = "bool" -> [t |-> "bool", v |-> h = TRUE_REF]
         [] T[h].type = "list" ->
              [t |-> "list", es |-> [i \in 1 .. T[h].lsize |->
                                       ValueOf(T, T[T[h].kids[1]].kids[i], d - 1)]]

\* The globals as a map from names to values.
Env == [n \in {globals[i].name : i \in 1 .. Len(globals)} |->
          ValueOf(table, globals[GlobalIndex(Cur, n)].ref, 8)]

PyNone == [t |-> "none"]
PyBool(b) == [t |-> "bool", v |-> b]
PyTruth(a) ==
  CASE a.t = "none" -> FALSE [] a.t = "bool" -> a.v
    [] a.t = "int" -> a.v # 0 [] a.t = "list" -> a.es # <<>>

\* Equality: values of different types are unequal; lists are equal when
\* their elements are, pairwise.
RECURSIVE PyEq(_, _)
PyEq(a, b) ==
  IF a.t # b.t THEN FALSE
  ELSE IF a.t = "list"
  THEN Len(a.es) = Len(b.es) /\ \A i \in 1 .. Len(a.es) : PyEq(a.es[i], b.es[i])
  ELSE a = b

\* Ordering: only values of one type compare (None equals None, False is
\* below True); lists compare at their first unequal element, else by
\* length.  [te |-> TRUE] when the values do not compare (TypeError).
Cmp(c) == [te |-> FALSE, c |-> c]

RECURSIVE PyCmp(_, _)
PyCmp(a, b) ==
  IF a.t # b.t THEN [te |-> TRUE, c |-> 0]
  ELSE CASE a.t = "int" -> Cmp(Sign(a.v - b.v))
         [] a.t = "bool" -> Cmp(Bit(a.v) - Bit(b.v))
         [] a.t = "none" -> Cmp(0)
         [] a.t = "list" ->
              LET D == {i \in 1 .. Len(a.es) : i <= Len(b.es) /\ ~PyEq(a.es[i], b.es[i])}
              IN IF D = {} THEN Cmp(Sign(Len(a.es) - Len(b.es)))
                 ELSE PyCmp(a.es[Min(D)], b.es[Min(D)])

Val(v) == [exc |-> "none", v |-> v]
Err(kind) == [exc |-> kind, v |-> PyNone]

\* An operator applied to two values.  The integer arithmetic is C's at
\* IntBits bits (IntOp), and an idiv that traps crashes the interpreter.
PyApply(op, a, b) ==
  IF op = "eq" THEN Val(PyBool(PyEq(a, b)))
  ELSE IF op \in CompOps
  THEN LET r == PyCmp(a, b) IN
       IF r.te THEN Err("TypeError")
       ELSE Val(PyBool(CASE op = "lt" -> r.c < 0 [] op = "gt" -> r.c > 0
                         [] op = "le" -> r.c <= 0 [] op = "ge" -> r.c >= 0))
  ELSE IF a.t # "int" \/ b.t # "int" THEN Err("TypeError")
  ELSE IF DivTraps(op, a.v, b.v) THEN Err("crash")
  ELSE Val([t |-> "int", v |-> IntOp(op, a.v, b.v)])

\* The meaning of expression e under the globals G: its value or the
\* exception it raises; operands are evaluated left to right.
RECURSIVE Mean(_, _), MeanList(_, _)
Mean(G, e) ==
  CASE e.k = "int" -> Val([t |-> "int", v |-> e.v])
    [] e.k = "single" ->
         Val(IF e.h = NONE_REF THEN PyNone ELSE PyBool(e.h = TRUE_REF))
    [] e.k = "name" -> IF e.n \in DOMAIN G THEN Val(G[e.n]) ELSE Err("NameError")
    [] e.k = "list" -> MeanList(G, e.es)
    [] e.k = "not" ->
         LET o == Mean(G, e.e) IN
         IF o.exc # "none" THEN o ELSE Val(PyBool(~PyTruth(o.v)))
    [] e.k \in {"and", "or"} ->
         LET l == Mean(G, e.l) IN
         IF l.exc # "none" \/ PyTruth(l.v) = (e.k = "or") THEN l ELSE Mean(G, e.r)
    [] e.k = "builtin" ->
         LET l == Mean(G, e.l)
             r == IF e.r = NoOperand THEN l ELSE Mean(G, e.r)
         IN IF l.exc # "none" THEN l ELSE IF r.exc # "none" THEN r
            ELSE PyApply(e.op, l.v, r.v)
    [] e.k = "subscript" ->
         LET o == Mean(G, e.obj)
             i == Mean(G, e.index)
         IN IF o.exc # "none" THEN o ELSE IF i.exc # "none" THEN i
            ELSE IF o.v.t # "list" \/ i.v.t # "int" THEN Err("TypeError")
            ELSE LET n == Len(o.v.es)
                     j == IF i.v.v < 0 THEN i.v.v + n ELSE i.v.v
                 IN IF j < 0 \/ j >= n THEN Err("IndexError") ELSE Val(o.v.es[j + 1])

MeanList(G, es) ==
  IF es = <<>> THEN Val([t |-> "list", es |-> <<>>])
  ELSE LET h == Mean(G, Head(es))
           tl == MeanList(G, Tail(es))
       IN IF h.exc # "none" THEN h ELSE IF tl.exc # "none" THEN tl
          ELSE Val([t |-> "list", es |-> <<h.v>> \o tl.v.es])

\* What the REPL prints for a value: a None result prints nothing.
RECURSIVE Show(_, _)
Show(v, d) ==
  IF d = 0 THEN "..."
  ELSE CASE v.t = "int" -> v.v
         [] v.t = "none" -> "None"
         [] v.t = "bool" -> IF v.v THEN "True" ELSE "False"
         [] v.t = "list" -> [i \in 1 .. Len(v.es) |-> Show(v.es[i], d - 1)]
Printed(v) == IF v = PyNone THEN "nothing" ELSE Show(v, MAX_DEPTH)

\* Every expression or assignment statement does what its expression means
\* for the values the globals held before it: an expression statement
\* prints that value, an assignment binds it, a failing one raises that
\* exception, and the interpreter crashes exactly where the C code traps.
\* This is the whole of eval_builtin, ref_eq/list_eq, compare/list_cmp,
\* ref_builtin, the and/or/not tests and eval_subscript, with every
\* reference they take and drop in between.  An allocation failure may
\* preempt any of it.
OpResultsCorrect ==
  [][(lastStmt'.k \in {"expr", "assign"} /\ lastExc' # "MemoryError") =>
       \A m \in {Mean(Env, lastStmt'.e)} :
       /\ aborted' = (m.exc = "crash")
       /\ ~aborted' => lastExc' = m.exc
       /\ (lastStmt'.k = "expr" /\ m.exc = "none") => lastOut' = Printed(m.v)
       /\ (lastStmt'.k = "assign" /\ m.exc = "none") => Env'[lastStmt'.x] = m.v
    ]_vars

\* spec.md (type dispatch, error model): a failing operation leaves its
\* operands' reference counts and contents unmodified.  A statement that
\* raises leaves the globals bound as before and exactly the values that
\* were live before it live, each with its count and contents: every
\* reference the evaluator took on the way is dropped on the error path.
FailedStmtPreserves ==
  [][(lastExc' # "none" /\ ~aborted') =>
       /\ globals' = globals
       /\ Live' = Live
       /\ \A h \in Live : table'[h].cnt = table[h].cnt
                          /\ Contents(table'[h]) = Contents(table[h])
    ]_vars
=============================================================================
