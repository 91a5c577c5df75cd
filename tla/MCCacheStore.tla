---------------------------- MODULE MCCacheStore ----------------------------
(* Small instances of CacheStore for TLC: payloads of one to three bytes    *)
(* under a header of one.                                                   *)
EXTENDS CacheStore, TLC

CONSTANTS k1, k2, k3

Sizes == [k \in Keys |-> CASE k = k1 -> 1 [] k = k2 -> 2 [] k = k3 -> 3]

Symmetric == Permutations(Threads)
=============================================================================
