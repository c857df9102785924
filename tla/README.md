# TLA+ models of the Subpython value runtime

This directory holds TLA+ specifications of the memory and value runtime of
the Subpython interpreter in `src/project05-kweng`. It also holds the TLC
configurations that check them. `spec.md` describes this runtime as the
system's core. Every definition is translated from the C source, and
`PROJECT.json` maps each one to the lines it models.

It also models one program beside the runtime: the malloc-lab allocator of
`src/project04-kweng/mm.c` (module `ImplicitHeap`). It shares no code with
the runtime, but it is the other allocator of the repository, and its heap
is small enough for TLC to explore exhaustively.

A third program is the object cache of the web proxy in
`src/project07-kweng/src/cache.c` (modules `Cache` and `LRUCache`): the one
part of the repository where several threads share state.

A fourth is the TeenyBASIC compiler of `src/project03-kweng` (modules
`BasicParser` and `BasicCompiler`): the character-level parser of
`parser.c` with the `ast.c` constructors, `compile_ast` and the driver of
`compiler.c`, with the x86-64 they print run on a small machine and
compared with what the BASIC program means.

A fifth is TeenyJVM, the bytecode interpreter of `src/project01-kweng/jvm.c`
(modules `TeenyJVM`, `JVMSpec` and `MCTeenyJVM`), shown to implement the
Java virtual machine's meaning of the instructions it runs.

## 1. The system

### Parts and their state

| Part | Source | State | Operations |
|---|---|---|---|
| Pool allocator | `mm.c` | `memory_pool` and `memory_size` (the region), `free_list` (a singly linked list of free blocks, each with `value_size` and `next`) | `mm_init`, `mm_malloc` (best fit; split when the remainder exceeds `sizeof(value_t)`, 24 bytes), `mm_free` (push on the head, no coalescing), `mem_used` |
| Reference table | `refs.c` | `ref_table` (handle -> `value_t*` or NULL), `num_refs` | `assign_reference` (first NULL slot, else append), `make_ref`, `deref` (asserts that the index is valid and the pointer is in the pool), `get_ref` |
| Reference counting | `refs.c` | the `ref_count` in each value header | `incref`, `decref` (at zero: `recurse` into the payload, clear the slot, `mm_free`) |
| Copying collector | `refs.c` | `f` (which half is the to-space), `halfway_point` | `collect_garbage` (flip, `mm_init` of the other half, `operate_global` on each global, sweep the slots outside the new half) |
| Value constructors | `eval_refs.c` | none | `make_reference_none`, `_bool`, `_int`, `_list`, `_refarray`, `_string`, `_dict` |
| Evaluator | `eval.c` | `global_vars` (name, handle), in insertion order | `eval_init`, `eval_root`, `eval_stmt`, assignment and `del` (of names and subscripts), `eval_expr`, `eval_literal_list`, the built-in calls `gc()`, `len()`, `print()`, `mem()`, `bool()`, `exit()`, `globals_get` / `globals_set` / `globals_delete`, `foreach_global` |
| List | `eval_list.c` | `size` and the handle of a ref array | `list_subscr_get`, `_set`, `_del`, `list_cmp`, `list_eq`, print |
| Dictionary | `eval_dict.c` | `size`, `occupied`, key and value ref arrays | probe (`keys_find`), insert, delete with tombstones, upsize |
| Type dispatch | `eval_types.c` | a table of function pointers per type | `ref_len`, `ref_subscr_*`, `ref_hash`, `ref_eq`, arithmetic, print |
| Exception slot | `exception.c` | `{type, error}` | `exception_set`, `exception_set_format`, `exception_clear`, `exception_occurred` |
| REPL | `repl.c` | none beyond the above | `eval()`: `eval_root`, then print and clear the exception, then `decref` the result |

### How the parts interact

- Every value is created by `make_ref`. It allocates the value's block with `mm_malloc`, gives it the handle that `assign_reference` picks, and starts its count at 1.
- Payloads hold handles, never pointers. A list holds the handle of its ref array, and the ref array holds the element handles.
- The evaluator takes and drops references around every use. `globals_get` returns a new reference, and every temporary is dropped with `decref` on the paths where it was taken.
- `gc()` calls `collect_garbage`. Its only roots are the global bindings reported by `foreach_global`. Temporaries held in C locals are not roots.
- The exception slot is the only error channel. Every caller checks it after a call that can fail and unwinds by returning. The interactive REPL prints the exception, clears it, and continues with the next statement.

### What makes it hard

These are listed in PROJECT.json under "hazards", each at its source line.

- **Evaluation order against collection.** A list literal's array and handle are held in C locals and a raw pointer while its elements are evaluated. A `gc()` among the elements moves or sweeps them.
- **The first collection.** `init_refs` formats the whole pool. Values allocated before the first `gc()` may already lie in the upper half, which the first flip makes the to-space.
- **Reference discipline on error paths.** Each statement takes and drops references on exactly the paths where it took them. An exception part-way through, or an error reported after an allocation, leaks a reference or drops one too many.
- **Cycles.** Reference counting cannot free cycles, and only the sweep reclaims them. If `decref` reached a value that is already being freed, it would recurse forever.
- **The allocator's arithmetic.** The split threshold, the remainder's address and tie-breaking in the best-fit scan matter only after many calls. Blocks are never coalesced.

### Correctness properties

Stated from the code's contracts and from spec.md:

- **Reference counts:** between statements, every value's count equals the number of references to it held by globals and by live values.
- **No dangling handles:** every handle reachable from a global names a value that is in the table, inside the active half, and not overwritten.
- **Disjoint heap:** live blocks and free blocks never overlap, and all of them lie in the active half.
- **Exact collection:** a collection keeps exactly the reachable values, with the same contents under the same handles.
- **No crash:** no assertion fails and no memory is read after it was overwritten.
- **Allocator:** free and allocated blocks tile the pool, and the scan picks the best fit.
- **Operation results:** every expression gives the value, exception or printed text that Python gives, with integers wrapping at their width, and a statement that raises changes nothing.
- **Dictionary:** every stored key is found by the lookup probe and stored once. `size` and `occupied` count the live entries and the live entries plus tombstones. The table implements a finite map. No probe leaves the key array.

## 2. Modules

| Module | Models | Used by |
|---|---|---|
| `PoolAllocator` | `mm.c` | `RefHeap` (instanced as `Alloc`), `MCPoolAllocator` |
| `RefHeap` | `refs.c`, `eval_refs.c`, the list part of `eval_list.c`, the integer, comparison and truth operations of `eval_types.c`, the printing of `repr`, and the statements and expressions of `eval.c`, as one REPL step | `MCRefHeap` |
| `DictMap` | the finite map spec.md describes a dictionary as (abstract) | `Dict` (instanced as `Abs`) |
| `Dict` | `eval_dict.c`: probing, store, lookup, delete and rehash | `MCDict` |
| `ImplicitHeap` | project04 `mm.c`: `mm_init`, `malloc`, `free`, `realloc`, `calloc`, with `mm_checkheap` as an invariant | `MCImplicitHeap` |
| `LRUCache` | the LRU list of cached objects that the comments of project07 `cache.c` promise (abstract) | `Cache` (instanced as `LRU`) |
| `Cache` | project07 `cache.c`: `init_cache`, `contains`, `queue_update`, `cache_insert` with its eviction loop (`cache_remove`, `dequeue`), `enqueue`, run by client threads, with `cache->lock` | `MCCache` |
| `BasicParser` | project03 `parser.c` (every function) and the constructors of `ast.c`, with `strtol`, on the program file's bytes and a `FILE *` of position and end-of-file indicator | `BasicCompiler` (extended) |
| `BasicCompiler` | project03 `compile.c` and `compiler.c`: `compile_ast`, `header`, `footer` and `main`'s loop, the emitted code run on an x86-64 machine, and the meaning of TeenyBASIC as a reference | `MCBasicCompiler` |
| `JVMSpec` | the JVM specification's meaning of TeenyJVM's int-only instructions, on decoded instructions (abstract) | `MCTeenyJVM` (instanced as `Abs`) |
| `TeenyJVM` | project01 `jvm.c`: `execute` and `main` | `MCTeenyJVM` |
| `MCPoolAllocator`, `MCRefHeap`, `MCDict`, `MCImplicitHeap`, `MCCache`, `MCBasicCompiler`, `MCTeenyJVM` | constants and statement sets for TLC | the `.cfg` files |

### PoolAllocator

Addresses and sizes are counted in 8-byte words. `make_ref` rounds every request up to 8 bytes and `value_t` is three words, so nothing is lost by counting in words.

- A free block is a record `[addr, size]`. The free list is a sequence, head first.
- `MmMalloc` translates the best-fit loop (`BestFitScan`, with the strict `<`) and both the split and no-split branches. A split leaves the remainder in the chosen block's place in the list, as `*best_fit = next` does.
- `MmFree` pushes the block on the head of the list.
- Run on its own, the state is the free list and the set of blocks handed out. Its actions are `Malloc(size)` for each size in `Requests`, and `Free(blk)` for each block handed out.

### RefHeap

A table entry is the record `[addr, size, type, cnt, kids, lsize, intact]`:

- `addr` and `size` give the value's block. `size` is the header's `value_size`.
- `type` and `cnt` are the header fields.
- `kids` holds the handles in the payload: a list's array handle, or a ref array's slots over its full capacity. This is exactly what `recurse` visits.
- `lsize` is a list's `size`.
- `intact` is FALSE once another block has been allocated over this one. The handle then reads someone else's bytes.

One step, `Execute(st)`, is one call of repl.c's `eval()` on a statement `st`:

- The C code runs as pure operators on a runtime record, in the order the C calls them: `EvalStmt` -> `EvalExpr` -> `MakeRef` / `GlobalsGet` / `CollectGarbage` / ... -> `DecRef`.
- A collection triggered inside an expression therefore happens exactly where the C code runs it.
- The whole handler is one action, including the final `decref` of the result and the clearing of the exception.

Statements modelled:

- `x = e`
- `x[i] = e`
- `del x`
- `del x[i]`
- an expression statement

Expressions modelled:

- an int literal
- a name
- `gc()`
- `len(name)`
- a list literal of expressions
- `None`
- a unary or binary builtin: `-x`, `+x`, `x + y`, `x - y`, `x * y`, `x / y`, `x % y`, `x == y`, `x < y`, `x > y`, `x <= y`, `x >= y`
- `not e`, `e and f`, `e or f`
- a subscript read `x[i]`

Integers carry their value in the entry's `val`, kept at `IntBits` bits: `Wrap` takes every result modulo `2^IntBits`, as the C `int64_t` arithmetic does at 64 bits. `/` and `%` truncate toward zero, as C does, and a zero divisor or `IntMin / -1` crashes the interpreter (`DivTraps`). `Dispatch` follows `eval_builtin`: a comparison opcode goes to `ref_compare`, everything else to `ref_builtin`. `Compare` and `RefEq` recurse into lists element by element. Past `StackDepth` nested calls they crash the interpreter, because the C recursion has no bound and the stack overflows.

After each expression statement, `ReplEval` prints the result unless it is `None` or an exception was raised. `Repr` is `repr` cut off at `MAX_DEPTH`, and `Printable` is the check that the value can be printed. The printed text is kept in `lastOut`.

With `TrackPool = FALSE`, the allocator is left out: every allocation succeeds and a free changes nothing. The ops run uses this, because the question there is what the operations compute, not where values are placed.

The ops run compares each step with a reference semantics written from spec.md. `ValueOf` reads a handle as a Python value. `Mean(Env, e)` is the value or exception that Python gives for `e` over the globals before the step, with two's-complement wrapping at `IntBits` bits. `Printed` is what the REPL should print.

Crashes are modelled as the flag `aborted`. They are:

- failed `deref` assertions;
- a `memcpy` to a NULL copy;
- `decref` reaching a value that is already at zero;
- reading a value that has been overwritten.

Reading overwritten memory is undefined in C. The model takes the crash as its outcome, and `NoDangling` catches the state that leads to it.

`Init` is the state after `init_refs` and `eval_init`. With `StartAfterGc = TRUE` it is also after the session's first statement, `gc()`.

Not modelled, and why:

- **Abstracted data:** strings and names as text are left out. Integers are kept as values of `IntBits` bits.
- **`MaxRefs`:** the reference table is bounded by this constant. A step that would exceed it is not taken, which is a bound of the model and not of the code.

### Dict and DictMap

`DictMap` is the promise: a map from keys to values. It has `Put`, `Remove` and `Lookup`, and `out` records each operation's outcome (a value, `"ok"`, `KeyError` or `MemoryError`). A `Put` that reports `MemoryError` may or may not have stored the entry, because the code stores before it rehashes.

`Dict` is the hash table of `eval_dict.c`:

- **Keys and values.** Keys are integers, since `integer_hash` is the identity and `ref_eq` compares values, so a key is its value. Values are model values standing for handles, each held by one global.
- **State.** The variables are the two ref arrays (`keys`, `vals`, functions over `0 .. capacity-1`), `size`, `occupied`, and `cnt`, the reference count of every key and value object.
- **Probe.** `KeysFind` is `keys_find` as written, including the wrap test `current > capacity`. A probe that reaches index `capacity` reads past the array. The model records that read in `overrun` and stops, since what follows depends on the next block's header.
- **Operations.** `SubscrSet`, `SubscrDel` and `SubscrGet` are the three handlers. `SubscrSet` includes its `dict_maybe_upsize` and the retry after `dict_upsize`. `Upsize` rehashes every live entry, increfs it, and drops the old arrays.
- **Allocation failure.** Either new array may fail to allocate, which leaves the table as it was and raises `MemoryError`. At most `MaxAllocFailures` such failures happen in a run.
- **Actions.** `Set(k, v)`, `Del(k)` and `Get(k)` are `d[k] = v`, `del d[k]` and `d[k]`. `Init` is the empty literal, with both arrays of capacity 16.
- **Refinement.** The map is `AbsMap`: each live slot's key maps to its value. `DictRefinesMap` (`Abs!Spec`) checks that every step is a `DictMap` step with the same outcome.

### ImplicitHeap (project04)

`mm.c` keeps an implicit list of blocks between the heap start and memlib's break. Each block has an 8-byte header and an 8-byte footer holding `size | is_allocated`.

- **State.** The record `heap` holds `mem`, a function from 8-byte words of memlib's region to the integers stored in them. It also holds `brk`, the global `last_node`, and two flags: `wild`, a store outside the region, and `hang`, a `find_fit` loop that cannot end.
- **Addresses.** Addresses are bytes, and pointers are stored as their address. The heap starts at `HeapBase = 1024`, far above any block size, so a pointer read as a size sends the walk past the break, as a real address would.
- **`size_t`.** `size_t` arithmetic is taken modulo `2^SizeWidth`. The runs use 16 bits, because TLC's integers are 32-bit; wrapping works the same as at 64 bits.
- **Operations.** The operators `coalesce`, `find_fit`, `split`, `malloc`, `free`, `realloc` and `calloc` are the C functions, written over that state.
  - `free` includes the `free_node` stores: `prev` and `next` into the freed payload, then `last_node->next`.
  - `realloc` includes its `memcpy`, and `calloc` its `memset`.
- **memlib.** memlib is not in the repository. `mem_sbrk` is modelled from its interface: it returns the old break, or fails when the region of `MaxHeap` bytes would be exceeded.
- **The client.** The client is what the malloc-lab driver does:
  - it calls the four functions in any order, and `free` and `realloc` only on pointers it holds;
  - it fills every payload it is handed (each word holds the payload's address).

  `live` maps each held pointer to the bytes asked for, and `expect` maps each byte address to what the client stored there. On a successful `realloc` the client expects the first `min(old, new)` bytes to have been carried over.
- **Invariants.**
  - `HeapWellFormed` is `mm_checkheap`'s assertions, plus equal footers and a walk that ends at the break.
  - `LiveBlocksAllocated` requires the allocated blocks on the walk to be exactly the held ones, each large enough.
  - `PayloadsIntact` requires no client word to change.
  - `FreeBlocksCoalesced` requires that no two adjacent blocks are both free.
  - `NoFault` requires no wild store and no endless walk.

### Cache and LRUCache (project07)

The proxy's client threads share one cache: a hash table of chained
`node_t`s for lookup, and a doubly linked queue of the same nodes, most
recently used at the front, for eviction. One `pthread_rwlock_t` guards both.
`client_thread.c`, the caller that `cache.h` names, is not in the
repository; the model's client is what the interface implies: it calls
`contains(cache, key, get_lock(cache))`, then `queue_update` on a hit or
`cache_insert` on a miss.

- **State.** `c` is the heap the cache lives in: `size`, the queue's `front` and `back`, the bucket array `arr`, and `node`/`mem` for every node (fields `key`, `len`, `prev`, `next`, `hnext` and allocated, live or freed). `fault` records a NULL dereference (`segv`), a use after free (`uaf`) or a double free (`abort`); it ends the process. Keys are pointers, compared by `==` as `contains` does; `BucketOf` stands for `hash()`. `size_t` is taken modulo `2^SizeBits`.
- **Operations.** `QueueUpdate`, `Enqueue`, `Dequeue`, `CacheRemove`, `Find` (the chain walk of `contains`), `ChainEnd`, `Evict` (the loop at line 188) and `CacheInsert` are the C functions over `c`, each access checked. A walk around a cyclic chain stops after `MaxNodes` steps and leaves the thread spinning.
- **Threads.** Each call is split where another thread can act: at each lock, and between `cache_insert`'s unlock and its call of `enqueue`. `pc` is the thread's place (`c_walk`, `u_lock`, `u_body`, `i_lock`, `i_body`, `e_call`, `e_body`, `idle`, `hung`, `spin`).
- **The lock.** `lock` is the writer of `cache->lock`. `dequeue`, `enqueue` and `contains` are passed the lock by value and lock their copy. Locking a copy does what glibc's rwlock does with the copied words: a copy of a free lock is granted and excludes no one, a copy of a lock the caller holds returns EDEADLK and the caller goes on, and a copy of a lock another thread holds waits forever (`hung`).
- **Invariants.**
  - `QueueLinked`: the queue is a list of distinct live nodes whose `prev` pointers mirror the `next` pointers.
  - `TableMatchesQueue`: the table holds exactly the queued nodes and those about to be enqueued, each in its key's bin.
  - `KeysUnique`: no key is cached twice.
  - `NoCrash` and `DataRaceFree`: no fault, and no thread writes a part of the cache (table, queue, size) while another reads or writes it.
- **Liveness.** `CallsReturn`: every call eventually returns to its client. No passing run checks it: with one thread a copy of the lock is always granted, so it could not fail, and with two it does fail (`MCCacheHang.cfg`, below).
- **Refinement.** `CacheRefinesLRU` checks `LRU!Spec`, where the LRU list is the queue read from the front, as `<<key, len>>` pairs.

## 3. Runs

| Run | Config | Expect | Checks |
|---|---|---|---|
| `allocator` | `MCPoolAllocator.cfg` | pass | `TypeOK`, `PoolTiled`, `BestFitIsBest` over every sequence of `mm_malloc(3..6)` / `mm_free` on a 20-word pool (62,937 states) |
| `runtime` | `MCRefHeap.cfg` | pass | `TypeOK`, `NoAbort`, `NoDangling`, `RefCountsExact`, `HeapDisjoint`, and the action property `GcExact`, over every sequence of 15 statement forms on two names (97,290 states with name symmetry, about 1.5 minutes) |
| `first_gc_upper_half` | `MCRefHeapFirstGc.cfg` | violation of `NoDangling` | with no early `gc()`, the first collection leaves a list in the upper half that it has overwritten |
| `runtime_ops` | `MCRefHeapOps.cfg` | pass | `NoAbort`, `NoDangling`, `RefCountsExact`, and the action properties `OpResultsCorrect` (each expression and assignment gives the value, exception or printed text of the reference semantics) and `FailedStmtPreserves` (a statement that raises leaves the globals, and every value's count and contents, as they were). It covers every sequence of `x = 1`, `x = None`, `x = [y]`, `x = x + y`, `x = not y`, `x == y`, `x < y`, `x and y`, `-x`, `x / 1` and `x[-1]` over two names, with 2-bit integers (40,994 states, under 3 minutes) |
| `dict` | `MCDict.cfg` | pass | `TypeOK`, `KeysFindable`, `CountsExact`, `RefCountsMatch` and the refinement `DictRefinesMap`, over every sequence of stores (two values), deletes and lookups of keys 0, 16, 1 and 2 (2,642 states) |
| `dict_upsize` | `MCDictUpsize.cfg` | pass | the same, minus `TypeOK`, with eight keys filling the table to the load limit, so that `dict_upsize` runs and may fail once (5,715 states) |
| `heap_allocator` | `MCImplicitHeap.cfg` | pass | `TypeOK`, `HeapWellFormed`, `LiveBlocksAllocated`, `NoFault` over every sequence of `malloc` of 8 or 24 bytes, `calloc(1, 8)`, `realloc` of a held pointer or NULL to 0, 8 or 24 bytes, and `free` in a 112-byte region (38,411 states) |

| `cache` | `MCCache.cfg` | pass | `QueueLinked`, `TableMatchesQueue`, `KeysUnique` and `CacheRefinesLRU`, with one client thread, three keys (two in one bin) and objects of 1, 2 and 3 bytes, where 3 is too big (4,873 states, about 30 s) |
| `cache_insert_enqueue_gap` | `MCCacheCrash.cfg` | violation of `NoCrash` | two threads: t1 misses k1 and inserts it, and unlocks before `enqueue`; t2 finds node 1 and `queue_update` dereferences its NULL `prev` (9 states deep) |
| `cache_lock_copy_race` | `MCCacheRace.cfg` | violation of `DataRaceFree` | two threads: t1 runs `cache_insert`'s body under the real lock while t2's `contains` walks the same bin under a copy |
| `jvm_refines_java` | `MCTeenyJVM.cfg` | pass | `JVMRefinement` for every class of the family in `MCTeenyJVM`: the helpers `diff`, `tri` (recursive) and `spread` (four parameters, a fifth local), and a `main` that sets `x` and `y` with `iconst`, `bipush`, `sipush` or `ldc`, then runs up to two of ten statements. The statements include a loop, calls, division by a variable that may be 0, multiplication that wraps, and negation (30,000-odd states, about a minute) |
| `basic_compiler` | `MCBasicCompiler.cfg` | pass | `ParsedAsWritten` and `CompiledProgramCorrect` over every program file of up to four of eight lines on `B` and `C` (a comment among them), each line ended by a newline: parsed from its text, compiled and run, with a loop, nested `IF`s, parentheses, division and 4-bit wrap-around (70,306 states, about 30 s) |

### BasicCompiler (project03)

`compiler.c` reads statements with `parse()` and prints each one's x86-64
with `compile_ast`, between `header()` (the `print_int` helper and `main`'s
prologue, a frame of `0xd0` bytes) and `footer()`. A program that `parse()`
cannot read ends the compiler with exit code 3. The output is assembled,
linked with the C library (for `printf`) and run.

- **State.** `file` (the program's bytes, fixed in `Init`), `stream` (the `FILE *`: bytes read and the end-of-file indicator), `phase` (`compile`, `exit3`, `segv`, `run`, `asm_error`), `prog` (the statements read), `code` (the instructions printed so far) and `label_no`, the global counter of `compile.c`. `m` is the machine that runs the assembled program.
- **Compiling.** `CompileAst(node, label_no)` is `compile_ast`, recursive like it. An instruction is a record of its mnemonic and operand. Variables live at `-(name - 'A') * 8(%rbp)`, binary operators push the left operand and pop it into `%rdi`, and `IF` prints `je C<label_no>` before its statement and the label after it, with the counter read twice.
- **Actions.** `CompileStmt` is one round of `main`'s loop while `feof` is false: `parse(stream)` (from `BasicParser`), then `compile_ast` of a tree it returns, nothing for NULL, and `segv` when the parser crashed; `EndOfFile`, once `feof` holds, prints the footer, where the assembler accepts the program only if every jump has its label; `RunStep` executes one instruction.
- **The machine.** Registers, flags and an 8-byte-word stack. Only the instructions `compile_ast` and the header print are defined. `call print_int` appends `%rdi` to the output and leaves the caller-saved registers, the flags and the stack below `%rsp` as junk, as `printf` may. The machine stops on `ret` to the caller, on arithmetic with junk, on an access outside the stack, on `idiv` by zero or overflow (`#DE`), or after `MaxSteps` instructions.
- **Reference.** `Meaning(p)` runs the BASIC program directly: statements in order, `GOTO` to the first matching label, integers wrapping at `IntBits`, division truncating, and a variable read before it is set is junk.
- **Invariants.**
  - `CompiledProgramCorrect`: the assembler accepts the program exactly when its labels are sound, and the machine prints what the program means and ends as it ends (a prefix of it, if the step bound cuts it off).
  - `FrameRestored`: when `main` returns, `%rbp` and `%rsp` are the caller's. Only `A`'s slot can overlap the saved `%rbp`, so it is checked on the files that use `A` (`MCBasicCompilerA.cfg`), where it fails.
  - `ParsedAsWritten` (in `MCBasicCompiler`): the statements compiled are, in order, those the file's lines are written as; when `feof` ends the loop all of them have been compiled, none twice, and the parser has not crashed.

### BasicParser (project03)

`parse()` reads one statement from the `FILE *` with `fgetc`. Where it has
read one character too far it steps back with `fseek(stream, -1,
SEEK_CUR)`: after a token that ends at an operator, after `term` and
`expression` look for one more operator, in `peek`, and before
`skip_line`.

- **State.** None of its own: every function is an operator that takes the stream `[pos, eof]` and returns its result with the stream it leaves, and `BasicCompiler` keeps the stream between rounds. The file is a sequence of ASCII codes, a token a sequence of codes, and `strcmp` equality of sequences.
- **The stream.** `fgetc` at the end returns `EOF` and sets the end-of-file indicator; a successful `fseek` moves back one byte and clears it, as C specifies. So `main`'s `feof` test sees the indicator only when the last read of a round hit the end and nothing stepped back afterwards.
- **Functions.** `advance`, `peek`, `advance_until_separator`, `skip_line` (its loop is `to_line_end`), `factor`, `term` and `expression` (loops `term_loop`, `expression_loop`, mutually recursive), `comparison`, `statement` and `parse`, each translated branch by branch. A loop of `fgetc` calls is `FirstOf` the positions ahead at which it would stop: the byte it stops at, or the end of the file. The result of each recursive call is bound once (`Only`), which keeps TLC's coverage analysis, which expands every use of a definition, from growing exponentially. `strcmp(NULL, "THEN")`, reached when the file ends after an `IF`'s comparison, returns `Segv`.
- **Constructors.** `init_*_node` return NULL when a part is NULL, as in `ast.c`; `init_num_node` converts with `strtol(str, NULL, 0)`: sign, `0x` hexadecimal, leading-0 octal or decimal, stopping at the first non-digit, saturating at the `IntBits`-wide `LONG_MIN`/`LONG_MAX`.

### TeenyJVM and JVMSpec (project01)

`main` reads a class file with `get_class` (in `read_class.c`, which is not in
the repository) and runs its `main` method with `execute`. `execute` keeps a
byte `pc`, an operand stack that is a VLA of `max_stack` ints, and the locals
array it was given. It loops over a `switch` on the opcode and calls itself
for `invokestatic`.

- **State of `TeenyJVM`.**
  - `class` is what `get_class` returns: the methods with their code bytes, `max_stack`, `max_locals` and parameter count, and the constant pool.
  - `frames` is the C recursion of `execute`, one `[m, pc, stack, locals]` per active call.
  - `out` holds what `invokevirtual` printed.
  - `status` is `run`, `done`, `sigfpe` (x86 `idiv` traps on a zero divisor and on `MinInt / -1`) or `ub` (an access outside the stack VLA, or an int returned to `main`).
  - `src` is the Java program the class was compiled from. It is a history variable that the interpreter never reads.
- **Actions.**
  - `Execute` is one pass of the loop for an instruction that stays in the method. `Simple` holds the cases of the `switch`, and `conditional_jump` and the `arithmetic` and `compare` tables are those of the code.
  - `InvokeStatic` pops the parameters into a fresh locals array of junk and pushes the callee's frame.
  - `ExecuteReturns` is `execute` returning: `NULL` at `i_return`, a malloc'd int at `i_ireturn`. The caller then moves three bytes on and pushes the int.
- **Ints.** Ints are `IntBits = 20` bits wide rather than 32, which still leaves the 8- and 16-bit operands of `bipush`, `sipush`, `iinc` and the jumps narrower than an int, so their sign extension matters. Signed overflow, which is undefined in C, wraps as the build does.
- **`JVMSpec`.** It runs decoded instructions with jump targets as instruction indices and Java's int arithmetic, where `MinInt / -1` is `MinInt` and division by zero is an `ArithmeticException` that ends the program. TeenyJVM has no objects, so `getstatic System.out` only moves on, and `println` prints the top of the stack. `JVMSpec` is the platform's meaning and models no code of the repository, so it has no map entries.
- **`MCTeenyJVM`.**
  - `Javac_` encodes a program as javac does: the short forms, `sipush` and `ldc` for large constants, and jumps as 16-bit offsets.
  - The refinement mapping turns each byte `pc` into the index of the instruction that starts there, and `sigfpe` into `arith`.
  - `JVMRefinement` is `JVMSpec`'s initial condition, its next-state relation as a box action, and its fairness. The fairness is stated as "the status eventually leaves `run`", because `JVMSpec`'s next-state relation is enabled exactly while the status is `run`.

Observations that are not runs, listed as hazards in PROJECT.json:

- **`gc()` in a list literal.** `x = [gc()]` sweeps the list under construction, and the assignment increfs a cleared handle (`NoAbort`, configuration `MCRefHeapGcInList.cfg`). One statement reaches it, so it is a reproduction rather than a run.
- **Variable `A` is the saved frame pointer.** `A`'s slot is `-0x0(%rbp)`, where `main`'s prologue saved the caller's `%rbp`. `MCBasicCompilerA.cfg` adds the line `LET A = 1` to the files, and TLC finds `FrameRestored` violated after one statement: `main` returns with `%rbp = 1`. The run uses `B` and `C` so that `CompiledProgramCorrect` checks the rest.
- **Nested `IF` labels.** The inner and outer `je` of `IF .. THEN IF .. THEN` jump to the same label, because the outer `IF` reads `label_no` again after its statement changed it; the outer label is printed but unused. The jumps still land after both statements, and `CompiledProgramCorrect` holds.
- **`last_node` after `realloc`.** `p = malloc(24); q = realloc(p, 8); r = malloc(24)` hands out `p` again, and `free(q)` stores `last_node->next` into `r`'s data (`PayloadsIntact`, configuration `MCImplicitHeapPayload.cfg`). Four calls reach it, and a trace driver that checks payloads sees it, so it is a reproduction rather than a run.
- **`MinInt / -1` in TeenyJVM.** `divide` and `remain` use C's `/` and `%`, which trap where Java gives `MinInt` and 0. Reaching `y = MinInt` with `x = -1` takes three statements and the run allows two, so this is listed as a hazard.
- **A last line without a newline.** When the file ends inside a token, `advance_until_separator` returns NULL, so a last line that ends in a number or a label (`LET B = 2`, `GOTO 10`, `10`) parses to NULL and `main` skips it like a comment, while `PRINT B` survives (a variable is read by `advance`). `MCBasicCompilerUnterminated.cfg` gives the run's files without their last newline, and TLC finds `ParsedAsWritten` violated by the file `10`.
- **`IF` at the end of the file.** A file that ends after an `IF`'s comparison makes `statement` call `strcmp(NULL, "THEN")`, and the compiler dies with SIGSEGV. The model returns `Segv`; no file of the run ends there.
- **Numbers and lines.** `strtol` with base 0 reads `010` as 8. A newline does not end an expression: `LET B = 2` followed by a line `-1` parses as `LET B = 2 - 1`. Both follow from the code as written and no document of the repository says otherwise, so they are notes.
- **Bugs a unit test reaches.** Three sequential bugs were found by TLC with the configurations `MCRefHeapLen.cfg` (`x = len(y)` with `y` an int leaks the result int; `RefCountsExact`), `MCDictWrap.cfg` (`d[15] = v; d[31] = v`: the second probe reads `keys->values[16]` of a 16-slot array; `NoOverrun`) and `MCImplicitHeapCoalesce.cfg` (freeing the second 32-byte block after the first: `b - get_size(b)` reaches the first header, so the free first block is not merged; `FreeBlocksCoalesced`). They are kept as reproductions and hazards, not runs, so that the runs are spent on what a test would hardly reach.
- **Cache eviction.** `MCCacheEvict.cfg` is the cache run with `MAX_CACHE_SIZE` 6, so that the third insert evicts. TLC finds `QueueLinked` violated after that first eviction. `dequeue` unlinks the node before `back` but never moves `back`, and `cache_remove` frees the head of the evicted key's bin, which drops that bin's whole chain. After this, `back` names a freed node. With four keys and `MAX_CACHE_SIZE` 4, `NoCrash` also fails: `cache_insert` walks the head it read before the loop. The passing run keeps eviction out of reach so that it can check the rest.
- **Cache hang.** `MCCacheHang.cfg` checks `CallsReturn` with two threads, and TLC finds it violated. A `contains` that copies the lock while another thread holds it waits forever; a thread is hung four steps after the start, with no crash, when t1 holds the lock in `cache_insert`. `cache_insert` also returns NULL for an object that is too big with the lock still held. TLC's shortest lasso ends in the crash of the enqueue gap instead.

- **Cyclic `==`.** After `x = [1]; x[0] = x`, the statement `x == x` recurses through `ref_eq` without end and overflows the C stack. TLC finds this as a `NoAbort` violation of the runtime model when `==` is added to its statement set. The run leaves `==` out of that set, because a three-statement unit test reaches the crash.
- **Division traps.** `x / 0`, `x % 0` and `INT64_MIN / -1` reach the C division unchecked and end the interpreter with SIGFPE.
- **List capacity.** `del x[i]` keeps the array's capacity. spec.md says the capacity equals the size, but no operation depends on it, so this is a note and not a run.
- **Enum order.** The split between `==` and the other comparisons assumes the order UOP, OP, COMP of `NodeExprBuiltinType`. `ast.h` is not in the repository, so the order is taken from the union layout of `builtin_table_t`.

Every property of a passing run has a mutant in PROJECT.json: a plausible bug in the code it is about, which TLC finds. The mutants are:

- `mm_malloc`: the split guard dropped, or a remainder that is not shrunk.
- The best-fit scan with `<=` instead of `<`.
- `list_subscr_del`: without the upper bounds check, or without clearing the trailing slot.
- `operate_global` without recursion into the payload.
- `globals_set` without dropping the old binding.
- `decref` that frees the block but leaves the slot.
- `collect_garbage` without the sweep.
- `dict_subscr_del`: `size` decremented before the lookup, or the slot cleared to `NULL_REF` instead of a tombstone.
- `dict_subscr_set`: `occupied` counted up on a reused tombstone, or the overwrite that does not drop the old value.
- `dict_subscr_get` with a lookup that does not skip tombstones.
- project04 `malloc` without the check of `mem_sbrk`'s failure; `split` that writes no footer for the remainder; `coalesce` that merges with the next block without testing whether it is allocated; `find_fit` walking to the end of memlib's region instead of the break.
- `eval_builtin`: a unary builtin whose operand is not increfed, an operand kept when the builtin raises, or `==` sent to `ref_compare`.
- `list_subscr_get` returning the element without an incref.
- `eval_subscript` that does not drop the index.
- `queue_update` without the fix of `back` when the node is last, or without moving the node to the front; `cache_insert` that overwrites the bin's head instead of appending; `contains` that looks only at the chain's head.
- `conditional_jump` without the `- 1` that offsets the loop's `pc++`.
- `skip_line` without the `rewind_one` that gives back the newline `#C` has consumed, so that the next line is skipped too.
- `compile_ast`: the `IF` label printed with the counter as read before the statement instead of after it.
- `dict_upsize`: entries copied to their old slots instead of rehashed, the key's incref left out, `occupied` not reset, or the loop started at slot 1.

### Bounds and why they are enough

- **`MCRefHeap`, `PoolWords = 54` (two halves of 27 words).** The singletons take 9 words, `x = [1]` takes 14 (array 5, list 5, int 4), and the index int of `x[0] = x` takes 4 more, exactly filling a half. A half of 27 words therefore reaches the key cases:
  - self-referencing lists;
  - garbage cycles that only the sweep reclaims;
  - shared lists (count 2 or more);
  - IndexError, TypeError and MemoryError;
  - successful subscript stores and deletes.

  Each of these was confirmed reachable by TLC with a negated invariant. Two lists never coexist in one half at this size, so cycles of two lists are not explored. A pool of 64 words would include them but does not finish within the time budget.
- **`MCRefHeapOps`.** 2-bit integers (-2 .. 1) are enough for overflow: `1 + 1` wraps to -2 and `-(-2)` stays -2. `MaxRefs = 7` leaves four handles for user values, enough for a list, its array, its element and a temporary. The only divisor is 1, because a zero divisor crashes by design (listed as a hazard). No statement stores into a list, so no list contains itself, and `==` terminates.
- **`MaxRefs = 7`:** three singletons, a list with its array, an element, and the index int of a subscript statement.
- **`MCDict`, capacity 16 (the real minimum of a literal).**
  - Keys 0 and 16 share bucket 0, and key 1's bucket is where 16 lands. This gives collisions, tombstones inside a probe chain, and tombstone reuse.
  - Two values make an overwrite observable.
  - The rehash needs eight occupied slots. `MCDictUpsize` therefore inserts eight keys (0, 16, 1 .. 6) with one value, and deletes and looks up only 0 and 16, which keeps the state space small.
  - In neither run can a probe chain reach slot 15. Deadlock checking confirms it, because after an overrun the model stops.
  - `MCDictWrap` puts two keys in bucket 15 to show the overrun.
- **`MCPoolAllocator`:** 20 words with requests of 3 to 6 words. These produce splits, whole-block hand-outs (remainder of 3 or fewer words) and equal-size free blocks, which exercise the best-fit tie-break.

- **`MCImplicitHeap`, a 112-byte region.** After the 8-byte pad it holds three 32-byte blocks, or one of 32 and one of 48, and so on. Requests of 8 and 24 bytes give blocks of 32 and 48 bytes. TLC confirmed that this bound reaches:
  - all four cases of `coalesce` (merge with both neighbours, with either, with none);
  - splits that leave a remainder;
  - `mem_sbrk` failure (`malloc`, `calloc` and `realloc` returning NULL).

  The passing run leaves out `malloc(0)` and an overflowing `calloc`. Each is broken by a single call, which a unit test reaches: `free(malloc(0))` overwrites the 16-byte block's footer with the `prev` link, and `calloc(2^8, 2^8)` wraps the 16-bit product to 0. They are listed as hazards of `mm.c` in PROJECT.json. A 128-byte region (794,104 states) also passes `LiveBlocksAllocated` and `NoFault`, but takes five minutes.

- **`MCCache`.** One thread, since two threads crash or race within ten steps (the two violation runs). Keys k1 and k2 share a bin, so chains of two nodes and the walk past a head happen; objects of 3 bytes reach the too-big path. With `MAX_CACHE_SIZE` 7 the three keys of at most 2 bytes fit, so eviction, which crashes (see above), is not reached. `MaxNodes = 3` is enough for three keys, since nothing is freed. The violation runs use two threads, two keys in one bin and objects of 1 byte, with thread symmetry.

- **`MCBasicCompiler`.** Eight lines: `LET B = 2`, `LET B = B - 1`, `LET C = 7 / B`, `PRINT B*C+(B-1)`, `10`, `IF B > 0 THEN GOTO 10`, `IF B < 2 THEN IF B = 1 THEN PRINT C` and the comment `#C`, in any order, up to four, each ended by a newline (4,681 files). For the parser they hold tokens ended by a space, a newline and an operator, precedence, parentheses, nested `IF`, a comment whose token swallows the newline, and expressions that end a line or the file, so that `term` and `expression` read the next line's first character, or hit the end of the file, and step back. Four lines still reach `LET B = B - 1` twice before `LET C = 7 / B`. They reach loops and a jump to a label not yet defined (rejected by the assembler), division by zero, a variable read before it is set, subtraction and division with the operands' order visible, wrap-around at 4 bits and a nested `IF` that prints. `MaxSteps = 60` lets a loop run several rounds before the run is cut off; the comparison then is with a prefix of the meaning.

- **`MCTeenyJVM`.**
  - Two body statements over ten kinds, with five initial `x` and three initial `y`, give 1,365 programs, and all of them run to their end.
  - `tri(x % 4)` recurses at most four deep.
  - The loop halves `x`, so it runs at most 19 rounds from `Integer.MAX_VALUE`.
  - Three statements would exceed the time budget.

### Fairness

The cache: every client thread that can step eventually does (`WF_vars` of its step). The OS scheduler runs every runnable thread, and a thread between two lines of `cache.c` is runnable unless it waits on a lock. A thread that waits on a lock copy is not enabled, so fairness does not make it return. New requests are not obliged to come: `CallContains`, the start of a call, is outside the fair step. Only `CallsReturn`, in `MCCacheHang.cfg`, depends on this fairness.

TeenyJVM: weak fairness of `Next`. The interpreter is one thread that always has a next instruction until it stops, so it is never starved, and `JVMSpec` assumes the same of a JVM thread.

Elsewhere none. The runtime, the malloc-lab allocator and the compiler are single-threaded and every statement runs to completion (spec.md §5). Which statement comes next is up to the user, so nothing obliges the REPL to take a step. The properties are all safety properties.

## 4. Not modelled yet, in the order planned

1. **Dictionary, remainder:** `dict_eq` as an operator checked against map equality, and dictionaries as values of `RefHeap`, which would reach the mutual-reference cycle of spec.md.
2. **Abstract heap graph:** a specification of values as a graph of handles, with the collection step as "drop what is unreachable". RefHeap would be shown to refine it with `INSTANCE ... WITH`.
3. **The rest of the evaluator:** `print` and string values, dictionaries as operands of builtins, and the reference `singleton_hash` takes from `bool_ref` and never drops. Subscript reads, integer arithmetic, comparison of lists and printing are now modelled.
4. **Exception message ownership** (`exception_set_format`): the message leak and the 256-byte off-by-one concern C-heap strings outside the pool and are not modelled.
5. **project07 `cache.c`, remainder:** a version of the client with the lock passed by pointer, to check the queue under correct locking with two threads; `peek`, and the teardown `free_hash_table`/`free_cache`, which run after the threads.

The other projects in `src/` are exercises that do not interact with the runtime (see "components" in PROJECT.json). They are not modelled:

- project01's class-file reader (`read_class.c`), which is not in the repository;
- the compiler's `free_ast` (deallocation; the compiler process's heap is not modelled) and `print_ast` (debug output on stderr);
- the timing side-channel demos;
- the warm-ups.
