-------------------------------- MODULE Cache --------------------------------
(***************************************************************************)
(* The multi-threaded object cache of project07 (src/cache.c): a hash      *)
(* table of chained nodes for lookup and a doubly linked queue of the same *)
(* nodes for LRU eviction, shared by the proxy's client threads and        *)
(* guarded by one pthread_rwlock_t.                                        *)
(*                                                                         *)
(* c is the heap the cache lives in: cache->size, the queue's front and    *)
(* back, the bucket array, and every node_t with its allocation state.     *)
(* A step that dereferences NULL or a freed node sets fault and ends the   *)
(* process (a read of freed memory is undefined; the model takes the       *)
(* crash, and the state that leads to it is what the properties catch).   *)
(*                                                                         *)
(* The lock.  lock is the thread that holds cache->lock for writing (no    *)
(* thread ever takes it for reading).  dequeue, enqueue and contains take  *)
(* the lock BY VALUE and lock their copy.  What locking a copy does is     *)
(* what glibc's rwlock does with the copied words: a copy of a free lock   *)
(* is granted and excludes no one; a copy of a lock the caller holds       *)
(* returns EDEADLK and the caller goes on; a copy of a lock another thread *)
(* holds waits on the copy, which no one ever releases (pc "hung").        *)
(***************************************************************************)
EXTENDS Naturals, Sequences, SequencesExt

CONSTANTS
  Threads,          \* the proxy's client threads
  Keys,             \* key strings, as pointers: contains compares them by ==
  Buckets,          \* the bins the keys hash to
  BucketOf,         \* hash(key) for each key
  Lens,             \* buffer_length of the objects the server can return
  MAX_CACHE_SIZE,
  MAX_OBJECT_SIZE,
  SizeBits,         \* width of size_t
  MaxNodes,         \* bound on nodes allocated at once
  NULL,
  NoThread

ASSUME
  /\ BucketOf \in [Keys -> Buckets]
  /\ Lens \subseteq Nat \ {0}
  /\ 2 * MAX_OBJECT_SIZE <= MAX_CACHE_SIZE
  /\ MAX_CACHE_SIZE < 2^SizeBits
  /\ NULL \notin 1 .. MaxNodes /\ NoThread \notin Threads

Nodes == 1 .. MaxNodes
SizeMod == 2^SizeBits

VARIABLES
  c,       \* the cache_t, queue_t, hash_table_t and node_t structures
  lock,    \* the writer of cache->lock, or NoThread
  pc,      \* each thread's place in its call
  key,     \* the key the thread asked for
  len,     \* the length of the object it fetched on a miss
  res,     \* the node contains returned, or the node cache_insert made
  fault    \* "ok", or how the process crashed

vars == <<c, lock, pc, key, len, res, fault>>

-----------------------------------------------------------------------------
(* Memory.  An operation runs on a record [c, f]; once f is not "ok" the   *)
(* rest of it has no effect.                                               *)

EmptyNode == [prev |-> NULL, next |-> NULL, hnext |-> NULL,
              key |-> NULL, len |-> 0]

Access(h, n) ==
  IF n = NULL THEN "segv" ELSE IF h.mem[n] = "live" THEN "ok" ELSE "uaf"

Ok(r) == r.f = "ok"

Touch(r, n) == IF Ok(r) THEN [r EXCEPT !.f = Access(r.c, n)] ELSE r

Get(r, n, fld) == IF n \in Nodes THEN r.c.node[n][fld] ELSE NULL

Store(r, n, fld, v) ==
  LET t == Touch(r, n) IN
  IF Ok(t) THEN [t EXCEPT !.c.node[n][fld] = v] ELSE t

Free(r, n) ==
  IF ~Ok(r) \/ n = NULL THEN r
  ELSE IF r.c.mem[n] = "freed" THEN [r EXCEPT !.f = "abort"]
  ELSE [r EXCEPT !.c.mem[n] = "freed"]

-----------------------------------------------------------------------------
(* The functions of cache.c, over [c, f].                                  *)

InitNode(h, n, k, v) ==
  [h EXCEPT !.mem[n] = "live",
            !.node[n] = [EmptyNode EXCEPT !.key = k, !.len = v]]

IsEmpty(h) == h.back = NULL

\* dequeue, called only from cache_remove, whose caller holds cache->lock:
\* the wrlock on the copy returns EDEADLK.  queue->size is never read and
\* is left out.  The queue's back is never moved.
Dequeue(r) ==
  IF IsEmpty(r.c) THEN r
  ELSE IF r.c.front = r.c.back THEN [r EXCEPT !.c.front = NULL]
  ELSE LET b == Touch(r, r.c.back)
           temp == Get(b, r.c.back, "prev")
       IN  IF temp = NULL THEN b ELSE Store(b, temp, "next", NULL)

\* Mutant: queue_update without the branch for the node at the back.
QueueUpdateNoBackFix(r, n) ==
  IF n = r.c.front THEN r
  ELSE LET a  == Touch(r, n)
           p  == Get(a, n, "prev")
           nx == Get(a, n, "next")
           s1 == Store(a, p, "next", nx)
           s2 == IF nx # NULL THEN Store(s1, nx, "prev", p) ELSE s1
           s4 == Store(Store(s2, n, "next", s2.c.front), n, "prev", NULL)
           s5 == Store(s4, s2.c.front, "prev", n)
       IN  [s5 EXCEPT !.c.front = n]

\* Mutant: queue_update that links the node before the front but does not
\* make it the front.
QueueUpdateKeepFront(r, n) ==
  IF n = r.c.front THEN r
  ELSE LET a  == Touch(r, n)
           p  == Get(a, n, "prev")
           nx == Get(a, n, "next")
           s1 == Store(a, p, "next", nx)
           s2 == IF nx # NULL THEN Store(s1, nx, "prev", p) ELSE s1
           s3 == IF n = r.c.back
                 THEN Store([s2 EXCEPT !.c.back = p], p, "next", NULL)
                 ELSE s2
           s4 == Store(Store(s3, n, "next", s3.c.front), n, "prev", NULL)
       IN  Store(s4, s3.c.front, "prev", n)

\* queue_update's body, under cache->lock.
QueueUpdate(r, n) ==
  IF n = r.c.front THEN r
  ELSE LET a  == Touch(r, n)
           p  == Get(a, n, "prev")
           nx == Get(a, n, "next")
           s1 == Store(a, p, "next", nx)
           s2 == IF nx # NULL THEN Store(s1, nx, "prev", p) ELSE s1
           s3 == IF n = r.c.back
                 THEN Store([s2 EXCEPT !.c.back = p], p, "next", NULL)
                 ELSE s2
           s4 == Store(Store(s3, n, "next", s3.c.front), n, "prev", NULL)
           s5 == Store(s4, s3.c.front, "prev", n)
       IN  [s5 EXCEPT !.c.front = n]

\* enqueue's body, once its copy of the lock is granted.
Enqueue(r, n) ==
  LET a == Store(r, n, "next", r.c.front) IN
  IF IsEmpty(r.c) THEN [a EXCEPT !.c.back = n, !.c.front = n]
  ELSE [Store(a, r.c.front, "prev", n) EXCEPT !.c.front = n]

\* Mutant: contains that looks only at the head of the bucket.
FindHeadOnly(r, n, k, i) ==
  IF n = NULL THEN [r |-> r, n |-> NULL, spin |-> FALSE]
  ELSE LET a == Touch(r, n) IN
       IF ~Ok(a) \/ a.c.node[n].key = k THEN [r |-> a, n |-> n, spin |-> FALSE]
       ELSE [r |-> a, n |-> NULL, spin |-> FALSE]

\* contains' walk of the chain of key k from node n.  A walk longer than
\* MaxNodes is on a cycle and never ends (w.spin).
RECURSIVE Find(_, _, _, _)
Find(r, n, k, i) ==
  IF n = NULL THEN [r |-> r, n |-> NULL, spin |-> FALSE]
  ELSE LET a == Touch(r, n) IN
       IF ~Ok(a) \/ a.c.node[n].key = k THEN [r |-> a, n |-> n, spin |-> FALSE]
       ELSE IF i = MaxNodes THEN [r |-> a, n |-> NULL, spin |-> TRUE]
       ELSE Find(a, a.c.node[n].hnext, k, i + 1)

\* cache_insert's walk to the last node of a chain (head_prev).
RECURSIVE ChainEnd(_, _, _)
ChainEnd(r, n, i) ==
  LET a == Touch(r, n) IN
  IF ~Ok(a) \/ a.c.node[n].hnext = NULL \/ i = MaxNodes
  THEN [r |-> a, n |-> n, spin |-> Ok(a) /\ a.c.node[n].hnext # NULL]
  ELSE ChainEnd(a, a.c.node[n].hnext, i + 1)

\* One call of cache_remove: the back's value and key, dequeue, then free
\* the head of the key's bucket and clear the bucket.  Returns [r, v].
CacheRemove(r) ==
  LET b == Touch(r, r.c.back) IN
  IF ~Ok(b) THEN [r |-> b, v |-> 0]
  ELSE LET e == r.c.node[r.c.back]
           d == Dequeue(r)
           fr == Free(d, d.c.arr[BucketOf[e.key]])
       IN  [r |-> [fr EXCEPT !.c.arr[BucketOf[e.key]] = NULL], v |-> e.len]

\* cache_insert's loop: while (cache->size + len >= MAX_CACHE_SIZE), in
\* size_t.  It ends: the back never moves, so each round takes the same
\* length, smaller than MAX_CACHE_SIZE - len, off the size.
RECURSIVE Evict(_, _)
Evict(r, v) ==
  IF ~Ok(r) \/ (r.c.size + v) % SizeMod < MAX_CACHE_SIZE THEN r
  ELSE LET x == CacheRemove(r) IN
       Evict([x.r EXCEPT !.c.size = (@ - x.v) % SizeMod], v)

\* Mutant: cache_insert that stores the node as the bucket's head even when
\* the bucket already has a chain.
CacheInsertOverwriteHead(r, n, k, v) ==
  LET a == [r EXCEPT !.c = InitNode(r.c, n, k, v)]
      e == Evict(a, v)
  IN  [r |-> [e EXCEPT !.c.arr[BucketOf[k]] = n,
                       !.c.size = (@ + v) % SizeMod],
       spin |-> FALSE]

\* cache_insert's body from init_node to cache->size += len, after the
\* wrlock, for an object it caches.  head is read before the eviction loop
\* and used after it.
CacheInsert(r, n, k, v) ==
  LET a    == [r EXCEPT !.c = InitNode(r.c, n, k, v)]
      h    == BucketOf[k]
      head == a.c.arr[h]
      e    == Evict(a, v)
      w    == ChainEnd(e, head, 0)
      l    == IF head = NULL THEN [e EXCEPT !.c.arr[h] = n]
              ELSE IF w.spin THEN w.r
              ELSE Store(w.r, w.n, "hnext", n)
  IN  [r |-> [l EXCEPT !.c.size = (@ + v) % SizeMod],
       spin |-> head # NULL /\ w.spin]

-----------------------------------------------------------------------------
(* The threads.  A client thread serves a request as the header describes: *)
(* contains(cache, key, get_lock(cache)); on a hit queue_update; on a miss *)
(* it fetches the object and calls cache_insert, which enqueues the node. *)

Init ==
  /\ c = [size |-> 0, front |-> NULL, back |-> NULL,
          arr |-> [b \in Buckets |-> NULL],
          node |-> [n \in Nodes |-> EmptyNode],
          mem |-> [n \in Nodes |-> "unused"]]
  /\ lock = NoThread
  /\ pc = [t \in Threads |-> "idle"]
  /\ key = [t \in Threads |-> NULL]
  /\ len = [t \in Threads |-> 0]
  /\ res = [t \in Threads |-> NULL]
  /\ fault = "ok"

\* Locking a copy of cache->lock taken while w held it.
CopyGranted(t, w) == w \in {NoThread, t}

\* Locking cache->lock itself: free, or held by t (EDEADLK, and t goes on).
WrLock(t) ==
  /\ lock \in {NoThread, t}
  /\ lock' = t

Go(t, l) == pc' = [pc EXCEPT ![t] = l]

\* Apply the result r of a call by thread t, which goes on to l.
Apply(t, result, l) ==
  \E r \in {result} :
    /\ c' = r.c
    /\ fault' = r.f
    /\ Go(t, IF Ok(r) THEN l ELSE pc[t])

CallContains(t, k) ==
  /\ pc[t] = "idle"
  /\ key' = [key EXCEPT ![t] = k]
  /\ Go(t, IF CopyGranted(t, lock) THEN "c_walk" ELSE "hung")
  /\ UNCHANGED <<c, lock, len, res, fault>>

ContainsWalk(t) ==
  /\ pc[t] = "c_walk"
  /\ \E w \in {Find([c |-> c, f |-> "ok"], c.arr[BucketOf[key[t]]], key[t], 0)} :
       /\ res' = [res EXCEPT ![t] = w.n]
       /\ IF w.n # NULL \/ w.spin \/ ~Ok(w.r)
          THEN /\ Apply(t, w.r, IF w.spin THEN "spin" ELSE "u_lock")
               /\ UNCHANGED len
          ELSE /\ \E v \in Lens : len' = [len EXCEPT ![t] = v]
               /\ Go(t, "i_lock")
               /\ UNCHANGED <<c, fault>>
  /\ UNCHANGED <<lock, key>>

UpdateLock(t) ==
  /\ pc[t] = "u_lock"
  /\ WrLock(t)
  /\ Go(t, "u_body")
  /\ UNCHANGED <<c, key, len, res, fault>>

UpdateBody(t) ==
  /\ pc[t] = "u_body"
  /\ Apply(t, QueueUpdate([c |-> c, f |-> "ok"], res[t]), "idle")
  /\ lock' = NoThread
  /\ UNCHANGED <<key, len, res>>

InsertLock(t) ==
  /\ pc[t] = "i_lock"
  /\ WrLock(t)
  /\ Go(t, "i_body")
  /\ UNCHANGED <<c, key, len, res, fault>>

\* An object of MAX_OBJECT_SIZE or more returns NULL with the lock still
\* held; its node is leaked and, unreachable, is not kept in c.
InsertBody(t) ==
  /\ pc[t] = "i_body"
  /\ IF len[t] >= MAX_OBJECT_SIZE
     THEN /\ Go(t, "idle")
          /\ UNCHANGED <<c, lock, res, fault>>
     ELSE \E n \in Nodes :
            /\ c.mem[n] = "unused"
            /\ \A m \in Nodes : c.mem[m] = "unused" => n <= m
            /\ \E x \in {CacheInsert([c |-> c, f |-> "ok"], n, key[t], len[t])} :
                   /\ Apply(t, x.r, IF x.spin THEN "spin" ELSE "e_call")
                   /\ lock' = IF x.spin THEN lock ELSE NoThread
            /\ res' = [res EXCEPT ![t] = n]
  /\ UNCHANGED <<key, len>>

\* enqueue(cache->queue, node, cache->lock), after cache_insert's unlock.
EnqueueCall(t) ==
  /\ pc[t] = "e_call"
  /\ Go(t, IF CopyGranted(t, lock) THEN "e_body" ELSE "hung")
  /\ UNCHANGED <<c, lock, key, len, res, fault>>

EnqueueBody(t) ==
  /\ pc[t] = "e_body"
  /\ Apply(t, Enqueue([c |-> c, f |-> "ok"], res[t]), "idle")
  /\ UNCHANGED <<lock, key, len, res>>

\* The steps of a call in progress: those a scheduled thread takes.
Step(t) ==
  \/ ContainsWalk(t)
  \/ UpdateLock(t) \/ UpdateBody(t)
  \/ InsertLock(t) \/ InsertBody(t)
  \/ EnqueueCall(t) \/ EnqueueBody(t)

Next ==
  /\ fault = "ok"
  /\ \E t \in Threads :
       \/ \E k \in Keys : CallContains(t, k)
       \/ Step(t)

\* A runnable thread is eventually scheduled, and a free lock is eventually
\* taken by a thread waiting for it.  No request is ever obliged to arrive.
Spec == Init /\ [][Next]_vars /\ \A t \in Threads : WF_vars(fault = "ok" /\ Step(t))

-----------------------------------------------------------------------------
(* Properties.                                                             *)

Ptr == Nodes \cup {NULL}

TypeOK ==
  /\ c.size \in 0 .. SizeMod - 1
  /\ c.front \in Ptr /\ c.back \in Ptr
  /\ c.arr \in [Buckets -> Ptr]
  /\ c.node \in [Nodes -> [prev : Ptr, next : Ptr, hnext : Ptr,
                           key : Keys \cup {NULL}, len : Lens \cup {0}]]
  /\ c.mem \in [Nodes -> {"unused", "live", "freed"}]
  /\ lock \in Threads \cup {NoThread}
  /\ pc \in [Threads -> {"idle", "c_walk", "u_lock", "u_body", "i_lock",
                         "i_body", "e_call", "e_body", "hung", "spin"}]
  /\ res \in [Threads -> Ptr]
  /\ fault \in {"ok", "segv", "uaf", "abort"}

\* The nodes met following the link fld from n, stopping after MaxNodes + 1
\* (so a cycle shows up as a repeat).
RECURSIVE Walk(_, _, _)
Walk(n, fld, i) ==
  IF n = NULL \/ i > MaxNodes THEN <<>>
  ELSE <<n>> \o Walk(c.node[n][fld], fld, i + 1)

Queue == Walk(c.front, "next", 0)

Chain(b) == Walk(c.arr[b], "hnext", 0)

TableNodes == UNION {ToSet(Chain(b)) : b \in Buckets}

\* Nodes made by cache_insert that its thread has not yet enqueued.
Pending == {res[t] : t \in {u \in Threads : pc[u] \in {"e_call", "e_body"}}}

\* The queue, read from the front by next pointers, is a list of distinct
\* live nodes whose prev pointers mirror it and which ends at the back:
\* what dequeue, enqueue and queue_update must keep between them.
QueueLinked ==
  LET q == Queue IN
  /\ IsInjective(q)
  /\ \A i \in 1 .. Len(q) : c.mem[q[i]] = "live"
  /\ IF q = <<>> THEN c.back = NULL
     ELSE /\ c.back = q[Len(q)]
          /\ c.node[q[1]].prev = NULL
          /\ \A i \in 1 .. Len(q) - 1 : c.node[q[i + 1]].prev = q[i]

\* Every node reachable from the bucket array lies in the bucket of its key,
\* and the table holds exactly the queued nodes and those a thread is about
\* to enqueue: cache_insert, cache_remove and enqueue keep the two
\* structures over the same nodes.
TableMatchesQueue ==
  /\ \A b \in Buckets : \A i \in 1 .. Len(Chain(b)) :
       LET n == Chain(b)[i] IN c.mem[n] = "live" /\ BucketOf[c.node[n].key] = b
  /\ TableNodes = ToSet(Queue) \cup Pending

\* No key is cached twice: a client inserts only after contains missed, so
\* this rests on contains walking the whole chain of the key's bucket.
KeysUnique ==
  \A m, n \in TableNodes : m # n => c.node[m].key # c.node[n].key

\* Every call of the cache eventually returns to its client thread.
CallsReturn == \A t \in Threads : pc[t] # "idle" ~> pc[t] = "idle"

\* The cache never makes the process crash: no call dereferences NULL or a
\* freed node, or frees a node twice.
NoCrash == fault = "ok"

\* What the thread's current step writes and reads of the shared structure:
\* the hash table and its chains, the queue and its links.
Writes(t) ==
  CASE pc[t] = "i_body" ->
         {"table"} \cup (IF (c.size + len[t]) % SizeMod >= MAX_CACHE_SIZE
                            /\ len[t] < MAX_OBJECT_SIZE
                         THEN {"queue"} ELSE {})
    [] pc[t] \in {"u_body", "e_body"} -> {"queue"}
    [] OTHER -> {}

Reads(t) == IF pc[t] = "c_walk" THEN {"table"} ELSE Writes(t)

\* The rwlock does its job: no thread writes part of the cache while
\* another thread reads or writes that part.  A data race here is undefined
\* behaviour and corrupts the links.
DataRaceFree ==
  \A t, u \in Threads :
    t # u => Writes(t) \cap (Reads(u) \cup Writes(u)) = {}

\* The cache is an LRU cache: the queue, read from the front, is the
\* abstract list of module LRUCache, and every step is one of its steps.
LRU == INSTANCE LRUCache
         WITH lru <- [i \in 1 .. Len(Queue) |->
                        [key |-> c.node[Queue[i]].key,
                         len |-> c.node[Queue[i]].len]]

CacheRefinesLRU == LRU!Spec
=============================================================================
