--------------------------- MODULE CatalogSyncMC ---------------------------
(* Instances of CatalogSync: up to three items in two series, which have   *)
(* the same MyAnimeList id (MCTwinMal) or different ones (MCOwnMal).       *)
EXTENDS CatalogSync, TLC

CONSTANTS i1, i2, i3

MCSeriesOf == [i \in Item |-> IF i = i1 THEN 1 ELSE 2]
MCTwinMal == [s \in Series |-> 7]
MCOwnMal == [s \in Series |-> 6 + s]

MCSymmetry == Permutations(Runner) \cup Permutations(Viewer)

============================================================================
