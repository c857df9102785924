-------------------------- MODULE MCPoolAllocator --------------------------
(* A 20-word (160-byte) pool, requests of the sizes the runtime makes:     *)
(* None/bool (3 words), int (4), list and one-slot ref array (5), dict (6). *)
EXTENDS PoolAllocator

MCPoolWords == 20
MCRequests == {3, 4, 5, 6}
=============================================================================
