----------------------------- MODULE FeedPollMC -----------------------------
(* Instances of FeedPoll: bodies b1 and b2 are alike, b3 does not parse.   *)
EXTENDS FeedPoll, TLC

CONSTANTS u1, b1, b2, b3

MCSymmetry == Permutations({b1, b2})
MCShown == [u \in Url |-> Body]

=============================================================================
