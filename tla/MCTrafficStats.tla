--------------------------- MODULE MCTrafficStats ---------------------------
(* Small instances of TrafficStats.                                        *)
EXTENDS TrafficStats, TLC

CONSTANTS t1, t2, k1, k2

\* Two users of two nodes that share one Stats registry.
TwoNodes == (t1 :> k1) @@ (t2 :> k2)

\* Copiers, counter objects and chunks are interchangeable.
Interchangeable == Permutations(Copiers) \union Permutations(CIds) \union Permutations(Chunks)
=============================================================================
