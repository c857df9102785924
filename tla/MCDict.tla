------------------------------ MODULE MCDict -------------------------------
(***************************************************************************)
(* Model-checking instances of Dict, all at the real minimum capacity, 16. *)
(* MCDict: keys 0 and 16 share bucket 0 and 1, 2 follow it, with two      *)
(* values, for the overwrite, tombstone and reuse paths.  MCDictUpsize:    *)
(* eight keys and one value, so the eighth occupied slot triggers the      *)
(* rehash into 32 slots.  In both no probe chain reaches the last slot.    *)
(* MCDictWrap: 15 and 31 share the last bucket.                            *)
(***************************************************************************)
EXTENDS Dict

CONSTANTS a, b

MCKeys == {0, 16, 1, 2}
MCUpsizeKeys == {0, 16, 1, 2, 3, 4, 5, 6}
MCUpsizeProbeKeys == {0, 16}
MCWrapKeys == {15, 31}
MCVals == {a, b}
MCOneVal == {a}
=============================================================================
