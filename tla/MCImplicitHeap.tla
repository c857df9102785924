------------------------- MODULE MCImplicitHeap -------------------------
(* The project04 allocator instantiated for TLC. *)
EXTENDS ImplicitHeap

\* Payload sizes of 8 and 24 bytes give blocks of 32 and 48 bytes.
MCRequests == {8, 24}
MCCallocArgs == {<<1, 8>>}
=============================================================================
