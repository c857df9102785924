------------------------------ MODULE DictMap ------------------------------
(***************************************************************************)
(* What spec.md promises of a Subpython dictionary, as a finite map from   *)
(* keys to values.  The hash table of eval_dict.c (module Dict) is shown   *)
(* to implement it.                                                        *)
(*                                                                         *)
(*   d[k] = v   stores v under k, replacing any value k had.  An allocation *)
(*              failure surfaces as MemoryError; the store may or may not  *)
(*              have taken place.                                          *)
(*   del d[k]   removes k, or fails with KeyError when k is absent.        *)
(*   d[k]       yields the value under k, or fails with KeyError.          *)
(*                                                                         *)
(* out is the outcome of the last operation: a value, "ok" or an error.    *)
(***************************************************************************)
EXTENDS TLC

CONSTANTS Keys, Vals

VARIABLES map, out

Outcomes == Vals \cup {"none", "ok", "KeyError", "MemoryError"}

TypeOK ==
  /\ DOMAIN map \subseteq Keys
  /\ \A k \in DOMAIN map : map[k] \in Vals
  /\ out \in Outcomes

Init ==
  /\ map = [k \in {} |-> "none"]
  /\ out = "none"

Put(k, v) ==
  \/ /\ map' = (k :> v) @@ map
     /\ out' \in {"ok", "MemoryError"}
  \/ /\ out' = "MemoryError"
     /\ UNCHANGED map

Remove(k) ==
  IF k \in DOMAIN map
  THEN /\ map' = [j \in DOMAIN map \ {k} |-> map[j]]
       /\ out' = "ok"
  ELSE /\ out' = "KeyError"
       /\ UNCHANGED map

Lookup(k) ==
  /\ out' = IF k \in DOMAIN map THEN map[k] ELSE "KeyError"
  /\ UNCHANGED map

Next ==
  \E k \in Keys :
    \/ \E v \in Vals : Put(k, v)
    \/ Remove(k)
    \/ Lookup(k)

Spec == Init /\ [][Next]_<<map, out>>
=============================================================================
