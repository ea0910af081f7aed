------------------------ MODULE MCCacheAsideService ------------------------
(* The service on Redis and MySQL: two workers that race for one id.       *)
EXTENDS CacheAsideService, TLC

CONSTANT k1

MCKeys == {k1}
MCProbes == k1 :> <<0, 1>>
ServiceSymmetry == Permutations(Workers) \cup Permutations(Urls)
=============================================================================
