------------------------ MODULE MCSingleStoreService ------------------------
(* The service on each of the three stores, with two workers: in memory two *)
(* ids whose bits share a word of the filter, on the servers, whose states  *)
(* are larger, one.                                                         *)
EXTENDS SingleStoreService, TLC

CONSTANTS k1, k2

MCKeys == {k1, k2}
MCProbes == k1 :> <<0>> @@ k2 :> <<1>>
MCIds == "memory" :> {k1, k2} @@ "redis" :> {k1} @@ "mysql" :> {k1}
MCRedisOnly == "redis" :> {k1}
ServiceSymmetry == Permutations(Workers) \cup Permutations(Urls)
=============================================================================
