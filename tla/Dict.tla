-------------------------------- MODULE Dict --------------------------------
(***************************************************************************)
(* The open-addressing dictionary of the Subpython runtime                 *)
(* (project05 eval_dict.c): linear probing over a key array and a value    *)
(* array of equal capacity, tombstones for deleted keys, and a rehash into *)
(* arrays of twice the capacity once occupied * 2 >= capacity.             *)
(*                                                                         *)
(* Keys are integers: integer_hash is the identity and ref_eq compares the *)
(* integer values, so a key is modelled by its value.  Values are the      *)
(* handles of values held elsewhere (model values, each held by one        *)
(* global).  A slot holds a key or value handle, NULL_REF or               *)
(* TOMBSTONE_REF.  cnt is the reference count of every key and value       *)
(* object as the dictionary's incref / decref calls leave it.              *)
(*                                                                         *)
(* keys_find wraps with `current > capacity`, so the probe that starts at  *)
(* bucket b reads index capacity, one past the array, after the last slot. *)
(* What that read returns (the next block's header) is not defined by the  *)
(* code; the model records the read in `overrun` and stops there.          *)
(***************************************************************************)
EXTENDS Integers, FiniteSets, TLC

CONSTANTS
  Keys,             \* the integer keys the session uses
  Vals,             \* handles of the values stored under them
  ProbeKeys,        \* the keys the session deletes and looks up
  NULL_REF,         \* the "absent" handle
  TOMBSTONE_REF,    \* the "deleted slot" handle
  MinCap,           \* the capacity eval_literal_dict gives a small literal (16)
  MaxAllocFailures  \* bound on make_reference_refarray failing (pool full)

ASSUME Keys \subseteq Int /\ Vals \cap Int = {} /\ ProbeKeys \subseteq Keys
ASSUME {NULL_REF, TOMBSTONE_REF} \cap (Keys \cup Vals) = {}
\* Capacities are MinCap * 2^j; a power of two divides 2^64, so the
\* uint64 hash of a negative key modulo the capacity is k % capacity.
ASSUME MinCap \in {2^j : j \in 1 .. 6}

Sentinels == {NULL_REF, TOMBSTONE_REF}

\* The capacity of a ref array: its slots are numbered 0 .. capacity - 1.
Cap(arr) == Cardinality(DOMAIN arr)

\* ref_hash(k) % capacity.
Bucket(k, cap) == k % cap

\* Bind(e, K) is K(e) with e computed once.
Bind(e, K(_)) == CHOOSE out \in {K(x) : x \in {e}} : TRUE

\* incref / decref of a handle; both are no-ops on the sentinels.
Incr(c, h) == IF h \in Sentinels THEN c ELSE [c EXCEPT ![h] = @ + 1]
Decr(c, h) == IF h \in Sentinels THEN c ELSE [c EXCEPT ![h] = @ - 1]

\* How many slots of an array hold h.
Occurrences(arr, h) == Cardinality({i \in DOMAIN arr : arr[i] = h})

-----------------------------------------------------------------------------
(* keys_find: the probe loop.  Returns the slot found (-1 when none) and   *)
(* whether the probe read the word past the array.                         *)

RECURSIVE ProbeFrom(_, _, _, _, _)
ProbeFrom(ks, k, skip, bucket, idx) ==
  LET cap == Cap(ks)
      cur == IF bucket + idx > cap THEN bucket + idx - cap ELSE bucket + idx
  IN IF idx >= cap THEN [idx |-> -1, past |-> FALSE]
     ELSE IF cur = cap THEN [idx |-> cur, past |-> TRUE]
     ELSE IF skip /\ ks[cur] = TOMBSTONE_REF
          THEN ProbeFrom(ks, k, skip, bucket, idx + 1)
     ELSE IF ks[cur] \in Sentinels \/ ks[cur] = k
          THEN [idx |-> cur, past |-> FALSE]
     ELSE ProbeFrom(ks, k, skip, bucket, idx + 1)

KeysFind(ks, k, skip) == ProbeFrom(ks, k, skip, Bucket(k, Cap(ks)), 0)

\* A probe result naming a live slot (`idx >= 0 && keys->values[idx] !=
\* NULL_REF` after a lookup that skips tombstones).
Found(ks, f) == f.idx >= 0 /\ ks[f.idx] # NULL_REF

-----------------------------------------------------------------------------
(* The dictionary as a record D = [keys, vals, size, occ, cnt, out, past]  *)
(* threaded through the calls of one operation.                            *)

Past(D) == [D EXCEPT !.past = TRUE]

\* Mutants of the dict_upsize loop: each entry copied to the slot it had in
\* the old arrays instead of being rehashed; the incref of the key left out.
RECURSIVE RehashKeepSlot(_, _, _), RehashNoIncref(_, _, _)
RehashKeepSlot(D, N, idx) ==
  IF idx >= Cap(D.keys) THEN N
  ELSE IF D.keys[idx] \in Sentinels THEN RehashKeepSlot(D, N, idx + 1)
  ELSE RehashKeepSlot(D, [N EXCEPT !.keys[idx] = D.keys[idx], !.vals[idx] = D.vals[idx],
                                   !.cnt = Incr(Incr(@, D.keys[idx]), D.vals[idx])],
                      idx + 1)

RehashNoIncref(D, N, idx) ==
  IF idx >= Cap(D.keys) THEN N
  ELSE IF D.keys[idx] \in Sentinels THEN RehashNoIncref(D, N, idx + 1)
  ELSE LET j == KeysFind(N.keys, D.keys[idx], FALSE) IN
       IF j.past \/ j.idx < 0 THEN [N EXCEPT !.past = TRUE]
       ELSE RehashNoIncref(D, [N EXCEPT !.keys[j.idx] = D.keys[idx],
                                        !.vals[j.idx] = D.vals[idx],
                                        !.cnt = Incr(@, D.vals[idx])], idx + 1)

\* The loop of dict_upsize: every live entry of D is rehashed into the new
\* arrays N with keys_find(new_keys, hash, key, false), and its key and
\* value are incref'd for the new arrays.
RECURSIVE Rehash(_, _, _)
Rehash(D, N, idx) ==
  IF idx >= Cap(D.keys) THEN N
  ELSE IF D.keys[idx] \in Sentinels THEN Rehash(D, N, idx + 1)
  ELSE LET key == D.keys[idx]
           value == D.vals[idx]
           j == KeysFind(N.keys, key, FALSE)
       IN IF j.past \/ j.idx < 0 THEN [N EXCEPT !.past = TRUE]
          ELSE Rehash(D, [N EXCEPT !.keys[j.idx] = key, !.vals[j.idx] = value,
                                   !.cnt = Incr(Incr(@, key), value)],
                      idx + 1)

\* Mutants of dict_upsize: occupied not reset to size; the loop started at
\* slot 1.
UpsizeKeepOccupied(D, allocOk) ==
  IF ~allocOk THEN [D EXCEPT !.out = "MemoryError"]
  ELSE LET empty == [i \in 0 .. 2 * Cap(D.keys) - 1 |-> NULL_REF] IN
       Bind(Rehash(D, [keys |-> empty, vals |-> empty, cnt |-> D.cnt, past |-> FALSE], 0),
            LAMBDA N :
              IF N.past THEN Past(D)
              ELSE [D EXCEPT !.keys = N.keys, !.vals = N.vals,
                             !.cnt = [h \in DOMAIN N.cnt |-> N.cnt[h] - Occurrences(D.keys, h)
                                                               - Occurrences(D.vals, h)]])

UpsizeFromOne(D, allocOk) ==
  IF ~allocOk THEN [D EXCEPT !.out = "MemoryError"]
  ELSE LET empty == [i \in 0 .. 2 * Cap(D.keys) - 1 |-> NULL_REF] IN
       Bind(Rehash(D, [keys |-> empty, vals |-> empty, cnt |-> D.cnt, past |-> FALSE], 1),
            LAMBDA N :
              IF N.past THEN Past(D)
              ELSE [D EXCEPT !.keys = N.keys, !.vals = N.vals, !.occ = D.size,
                             !.cnt = [h \in DOMAIN N.cnt |-> N.cnt[h] - Occurrences(D.keys, h)
                                                               - Occurrences(D.vals, h)]])

\* dict_upsize: allocate two arrays of twice the capacity (either
\* allocation may fail, leaving the dictionary as it was), rehash, then drop
\* the old arrays, whose recursive decref releases every handle in them.
Upsize(D, allocOk) ==
  IF ~allocOk THEN [D EXCEPT !.out = "MemoryError"]
  ELSE LET cap == 2 * Cap(D.keys)
           empty == [i \in 0 .. cap - 1 |-> NULL_REF]
       IN Bind(Rehash(D, [keys |-> empty, vals |-> empty, cnt |-> D.cnt,
                          past |-> FALSE], 0), LAMBDA N :
            IF N.past THEN Past(D)
            ELSE [D EXCEPT !.keys = N.keys, !.vals = N.vals, !.occ = D.size,
                           !.cnt = [h \in DOMAIN N.cnt |->
                                      N.cnt[h] - Occurrences(D.keys, h)
                                               - Occurrences(D.vals, h)]])

\* dict_maybe_upsize.
MaybeUpsize(D, allocOk) ==
  IF D.occ * 2 >= Cap(D.keys) THEN Upsize(D, allocOk) ELSE D

RECURSIVE SubscrSet(_, _, _, _)

\* Mutants of dict_subscr_set: the overwrite does not drop the old value;
\* occupied counted up even when a tombstone is reused.
SubscrSetNoDecref(D, k, v, allocOk) ==
  LET f == KeysFind(D.keys, k, TRUE) IN
  IF f.past THEN Past(D)
  ELSE IF Found(D.keys, f)
  THEN [D EXCEPT !.vals[f.idx] = v, !.cnt = Incr(@, v)]
  ELSE LET g == KeysFind(D.keys, k, FALSE) IN
       IF g.past THEN Past(D)
       ELSE IF g.idx >= 0
       THEN Bind([D EXCEPT !.size = @ + 1, !.occ = IF D.keys[g.idx] = NULL_REF THEN @ + 1 ELSE @,
                           !.keys[g.idx] = k, !.vals[g.idx] = v,
                           !.cnt = Incr(Incr(Decr(Decr(@, D.keys[g.idx]),
                                                  D.vals[g.idx]), k), v)],
                 LAMBDA D1 : MaybeUpsize(D1, allocOk))
       ELSE Bind(Upsize(D, allocOk), LAMBDA D1 :
              IF D1.out # "none" \/ D1.past THEN D1
              ELSE SubscrSet(D1, k, v, allocOk))

SubscrSetAlwaysOccupy(D, k, v, allocOk) ==
  LET f == KeysFind(D.keys, k, TRUE) IN
  IF f.past THEN Past(D)
  ELSE IF Found(D.keys, f)
  THEN [D EXCEPT !.vals[f.idx] = v, !.cnt = Incr(Decr(@, D.vals[f.idx]), v)]
  ELSE LET g == KeysFind(D.keys, k, FALSE) IN
       IF g.past THEN Past(D)
       ELSE IF g.idx >= 0
       THEN Bind([D EXCEPT !.size = @ + 1, !.occ = @ + 1,
                           !.keys[g.idx] = k, !.vals[g.idx] = v,
                           !.cnt = Incr(Incr(Decr(Decr(@, D.keys[g.idx]),
                                                  D.vals[g.idx]), k), v)],
                 LAMBDA D1 : MaybeUpsize(D1, allocOk))
       ELSE Bind(Upsize(D, allocOk), LAMBDA D1 :
              IF D1.out # "none" \/ D1.past THEN D1
              ELSE SubscrSet(D1, k, v, allocOk))

\* dict_subscr_set: overwrite the value of a key found by the lookup probe;
\* otherwise take the first empty or tombstoned slot of the insertion probe,
\* then maybe upsize; with no slot at all, upsize and try again.
SubscrSet(D, k, v, allocOk) ==
  LET f == KeysFind(D.keys, k, TRUE) IN
  IF f.past THEN Past(D)
  ELSE IF Found(D.keys, f)
  THEN [D EXCEPT !.vals[f.idx] = v, !.cnt = Incr(Decr(@, D.vals[f.idx]), v)]
  ELSE LET g == KeysFind(D.keys, k, FALSE) IN
       IF g.past THEN Past(D)
       ELSE IF g.idx >= 0
       THEN Bind([D EXCEPT
                    !.size = @ + 1,
                    !.occ = IF D.keys[g.idx] = NULL_REF THEN @ + 1 ELSE @,
                    !.keys[g.idx] = k,
                    !.vals[g.idx] = v,
                    !.cnt = Incr(Incr(Decr(Decr(@, D.keys[g.idx]),
                                           D.vals[g.idx]), k), v)],
                 LAMBDA D1 : MaybeUpsize(D1, allocOk))
       ELSE Bind(Upsize(D, allocOk), LAMBDA D1 :
              IF D1.out # "none" \/ D1.past THEN D1
              ELSE SubscrSet(D1, k, v, allocOk))

\* Mutants of dict_subscr_del: size decremented before the key is looked
\* up; the slot cleared to NULL_REF instead of a tombstone.
SubscrDelAlwaysShrink(D, k) ==
  LET f == KeysFind(D.keys, k, TRUE) IN
  IF f.past THEN Past(D)
  ELSE IF Found(D.keys, f)
  THEN [D EXCEPT !.size = @ - 1,
                 !.cnt = Decr(Decr(@, D.keys[f.idx]), D.vals[f.idx]),
                 !.keys[f.idx] = TOMBSTONE_REF, !.vals[f.idx] = NULL_REF]
  ELSE [D EXCEPT !.size = @ - 1, !.out = "KeyError"]

SubscrDelClearKey(D, k) ==
  LET f == KeysFind(D.keys, k, TRUE) IN
  IF f.past THEN Past(D)
  ELSE IF Found(D.keys, f)
  THEN [D EXCEPT !.size = @ - 1,
                 !.cnt = Decr(Decr(@, D.keys[f.idx]), D.vals[f.idx]),
                 !.keys[f.idx] = NULL_REF, !.vals[f.idx] = NULL_REF]
  ELSE [D EXCEPT !.out = "KeyError"]

\* dict_subscr_del: the slot becomes a tombstone key with a NULL_REF value;
\* occupied is unchanged.
SubscrDel(D, k) ==
  LET f == KeysFind(D.keys, k, TRUE) IN
  IF f.past THEN Past(D)
  ELSE IF Found(D.keys, f)
  THEN [D EXCEPT !.size = @ - 1,
                 !.cnt = Decr(Decr(@, D.keys[f.idx]), D.vals[f.idx]),
                 !.keys[f.idx] = TOMBSTONE_REF,
                 !.vals[f.idx] = NULL_REF]
  ELSE [D EXCEPT !.out = "KeyError"]

\* Mutant of dict_subscr_get: the lookup does not skip tombstones.
SubscrGetNoSkip(D, k) ==
  LET f == KeysFind(D.keys, k, FALSE) IN
  IF f.past THEN Past(D)
  ELSE IF Found(D.keys, f) THEN [D EXCEPT !.out = D.vals[f.idx]]
  ELSE [D EXCEPT !.out = "KeyError"]

\* dict_subscr_get: the new reference it returns is dropped by the caller
\* once printed, so only the outcome remains.
SubscrGet(D, k) ==
  LET f == KeysFind(D.keys, k, TRUE) IN
  IF f.past THEN Past(D)
  ELSE IF Found(D.keys, f) THEN [D EXCEPT !.out = D.vals[f.idx]]
  ELSE [D EXCEPT !.out = "KeyError"]

-----------------------------------------------------------------------------
VARIABLES
  keys,      \* dict->keys, the key ref array
  vals,      \* dict->values, the value ref array
  size,      \* dict->size
  occupied,  \* dict->occupied
  cnt,       \* ref_count of every key and value object
  out,       \* outcome of the last operation
  overrun,   \* a probe has read past the end of the key array
  failures   \* allocation failures so far (bounded by MaxAllocFailures)

vars == <<keys, vals, size, occupied, cnt, out, overrun, failures>>

\* The references held outside the dictionary: one global per value.
Ext(h) == IF h \in Vals THEN 1 ELSE 0

Cur == [keys |-> keys, vals |-> vals, size |-> size, occ |-> occupied,
        cnt |-> cnt, out |-> "none", past |-> FALSE]

\* eval_literal_dict: two NULL-filled arrays of the minimum capacity and a
\* dict of size 0; its entries are then stored one by one by SubscrSet.
Init ==
  /\ keys = [i \in 0 .. MinCap - 1 |-> NULL_REF]
  /\ vals = [i \in 0 .. MinCap - 1 |-> NULL_REF]
  /\ size = 0
  /\ occupied = 0
  /\ cnt = [h \in Keys \cup Vals |-> Ext(h)]
  /\ out = "none"
  /\ overrun = FALSE
  /\ failures = 0

\* One operation: the new record replaces the state; an operation without
\* an error outcome reports "ok".
Apply(D) ==
  /\ keys' = D.keys
  /\ vals' = D.vals
  /\ size' = D.size
  /\ occupied' = D.occ
  /\ cnt' = D.cnt
  /\ out' = IF D.out = "none" THEN "ok" ELSE D.out
  /\ overrun' = D.past
  /\ failures' = IF D.out = "MemoryError" THEN failures + 1 ELSE failures

\* The pool may be full whenever make_reference_refarray is called.
AllocOutcomes == IF failures < MaxAllocFailures THEN BOOLEAN ELSE {TRUE}

Set(k, v) ==
  /\ ~overrun
  /\ \E ok \in AllocOutcomes : \E D \in {SubscrSet(Cur, k, v, ok)} : Apply(D)

Del(k) ==
  /\ ~overrun
  /\ \E D \in {SubscrDel(Cur, k)} : Apply(D)

Get(k) ==
  /\ ~overrun
  /\ \E D \in {SubscrGet(Cur, k)} : Apply(D)

Next ==
  \/ \E k \in Keys, v \in Vals : Set(k, v)
  \/ \E k \in ProbeKeys : Del(k) \/ Get(k)

Spec == Init /\ [][Next]_vars

-----------------------------------------------------------------------------
(* Properties.                                                             *)

Slots == DOMAIN keys
LiveSlots == {i \in Slots : keys[i] \notin Sentinels}
LiveKeys == {keys[i] : i \in LiveSlots}

TypeOK ==
  /\ Cap(keys) = Cap(vals)
  /\ \E j \in 0 .. 6 : Slots = 0 .. MinCap * 2^j - 1
  /\ \A i \in Slots : keys[i] \in Keys \cup Sentinels /\ vals[i] \in Vals \cup Sentinels
  /\ size \in Nat /\ occupied \in Nat
  /\ cnt \in [Keys \cup Vals -> Nat]
  /\ out \in Vals \cup {"none", "ok", "KeyError", "MemoryError"}
  /\ overrun \in BOOLEAN
  /\ failures \in 0 .. MaxAllocFailures

\* Every stored key is found where it is by the lookup probe of
\* keys_find(..., true) that dict_subscr_get, _set and _del start with, and
\* is stored once.  Deletions must leave tombstones and insertions must reuse
\* slots so that no probe chain is ever cut short: a slot cleared to
\* NULL_REF in the middle of a chain hides every key after it.
KeysFindable ==
  \A i \in LiveSlots :
     /\ KeysFind(keys, keys[i], TRUE) = [idx |-> i, past |-> FALSE]
     /\ \A j \in LiveSlots : keys[j] = keys[i] => j = i

\* dict->size counts the live entries and dict->occupied the live entries
\* and the tombstones, the load that dict_maybe_upsize compares against the
\* capacity.  Insertion into a tombstone, deletion and the rehash of
\* dict_upsize each adjust them differently.
CountsExact ==
  /\ size = Cardinality(LiveSlots)
  /\ occupied = size + Occurrences(keys, TOMBSTONE_REF)

\* Each key and value object's reference count is its one global reference
\* (values) plus one for every slot of the two arrays that holds it: the
\* increfs and decrefs of dict_subscr_set, _del and the rehash of
\* dict_upsize, with the recursive decref of the old arrays, balance.
RefCountsMatch ==
  \A h \in Keys \cup Vals :
     cnt[h] = Ext(h) + Occurrences(keys, h) + Occurrences(vals, h)

\* The dictionary implements the finite map of spec.md: the map it stands
\* for is the live slots' key -> value, and each operation's outcome is the
\* map's.
AbsMap == [k \in LiveKeys |-> vals[CHOOSE i \in LiveSlots : keys[i] = k]]
Abs == INSTANCE DictMap WITH map <- AbsMap
DictRefinesMap == Abs!Spec

\* No probe of keys_find reads past the end of the key array.
NoOverrun == ~overrun
=============================================================================
