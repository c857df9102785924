------------------------------- MODULE MCCache -------------------------------
(***************************************************************************)
(* Instances of Cache.  k1 and k2 hash to the same bin and k3 to another,  *)
(* so chains of two nodes form.  Objects of 1 and 2 bytes are cached and   *)
(* one of 3 bytes is too big.  With MAX_CACHE_SIZE 7 the three keys fit:   *)
(* 2 + 2 + 2 < 7, so the eviction loop does not run.                       *)
(***************************************************************************)
EXTENDS Cache, TLC

CONSTANTS t1, t2, k1, k2, k3, b1, b2

MCBucketOf == [k \in Keys |-> IF k = k3 THEN b2 ELSE b1]
ThreadSymmetry == Permutations(Threads)
=============================================================================
