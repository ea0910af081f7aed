----------------------------- MODULE MCSessions -----------------------------
(* Two workers and two clients; names the symmetry set.                    *)
EXTENDS Sessions, TLC

SessionSymmetry == Permutations(Workers) \cup Permutations(Clients)
=============================================================================
