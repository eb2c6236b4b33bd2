------------------------------ MODULE KeyCacheMC ------------------------------
(* Small instances of KeyCache. *)
EXTENDS KeyCache, TLC

CONSTANTS t1, t2, k1, k2

Alike == Permutations({t1, t2}) \cup Permutations({k1, k2})
=============================================================================
