------------------------- MODULE MCDataEngineObservers -------------------------
(***************************************************************************)
(* Small instances of DataEngineObservers for TLC.                         *)
(***************************************************************************)
EXTENDS DataEngineObservers, TLC

CONSTANTS k1

TwoBuckets == [k \in Keys |-> IF k = k1 THEN 5 ELSE 8]

Symmetry == Permutations(Threads) \cup Permutations(Nodes)
                \cup Permutations(Keys \ {k1})
=============================================================================
