---------------------------- MODULE GoaiAuditMC ----------------------------
(* A small catalog for GoaiAudit: a series of two releases.  GoAI takes the
   first for the second at times, and the second for no episode. *)
EXTENDS GoaiAudit, TLC

CONSTANTS a, b

MCItem == {a, b}
MCSeriesOf == a :> 1 @@ b :> 1
MCEpisodeOf == a :> 1 @@ b :> 2
MCFeeds == {{a, b}}
MCAnswers == a :> {1, 2} @@ b :> {2} @@ NoTitle :> {0}
MCOldRows ==
  {[series |-> 1, episode |-> 1, title |-> a, answer |-> 2, current |-> FALSE]}

=============================================================================
