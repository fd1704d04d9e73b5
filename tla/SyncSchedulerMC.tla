--------------------------- MODULE SyncSchedulerMC ---------------------------
(* An instance of SyncScheduler for TLC: an anime that the main feed leads to *)
(* by a release with a hash, and one by a release without.                    *)
EXTENDS SyncScheduler, TLC

CONSTANTS a1, b1, slugA, slugB

TwoSlugs == (a1 :> slugA) @@ (b1 :> slugB)

==============================================================================
