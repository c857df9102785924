------------------------------ MODULE LRUCache ------------------------------
(***************************************************************************)
(* What the object cache of project07 cache.c promises, from its comments: *)
(* a list of cached objects ordered by recency, most recently used first.  *)
(*                                                                         *)
(*   Insert(k, v)  caches an object of v bytes under k at the front,       *)
(*                 unless it is MAX_OBJECT_SIZE bytes or more ("if the     *)
(*                 buffer is too big, don't cache it"); while the cache    *)
(*                 would be over capacity it first evicts from the back    *)
(*                 ("evict, repeat as necessary").                         *)
(*   Touch(i)      moves the i-th object to the front ("move the given     *)
(*                 node to the front of the queue").                       *)
(*                                                                         *)
(* Module Cache is shown to implement this with one client thread.         *)
(***************************************************************************)
EXTENDS Naturals, SequencesExt

CONSTANTS Keys, Lens, MAX_CACHE_SIZE, MAX_OBJECT_SIZE

VARIABLE lru   \* <<[key, len], ...>>, most recently used first

Entry == [key : Keys, len : Lens]

Used(s) == FoldLeft(LAMBDA acc, e : acc + e.len, 0, s)

\* The entries left after evicting from the back for an object of v bytes.
RECURSIVE Fit(_, _)
Fit(s, v) ==
  IF s # <<>> /\ Used(s) + v >= MAX_CACHE_SIZE
  THEN Fit(SubSeq(s, 1, Len(s) - 1), v)
  ELSE s

TypeOK == lru \in Seq(Entry)

Init == lru = <<>>

Insert(k, v) ==
  /\ v < MAX_OBJECT_SIZE
  /\ lru' = <<[key |-> k, len |-> v]>> \o Fit(lru, v)

Touch(i) == lru' = <<lru[i]>> \o RemoveAt(lru, i)

Next ==
  \/ \E k \in Keys, v \in Lens : Insert(k, v)
  \/ \E i \in 1 .. Len(lru) : Touch(i)

Spec == Init /\ [][Next]_lru
=============================================================================
