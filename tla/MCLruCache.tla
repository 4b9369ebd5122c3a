----------------------------- MODULE MCLruCache ------------------------------
(* A small instance of LruCache for TLC.                                   *)
EXTENDS LruCache, TLC

Symmetry == Permutations(Entry)

(* Two keys share a bucket.                                                *)
HashOf == [k \in Key |-> IF k = "c" THEN 1 ELSE 0]

=============================================================================
