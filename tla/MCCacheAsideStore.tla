------------------------- MODULE MCCacheAsideStore -------------------------
(* Cache-aside store with two workers on one id; names the symmetry set.   *)
EXTENDS CacheAsideStore, TLC

StoreSymmetry == Permutations(Workers) \cup Permutations(Urls)
=============================================================================
