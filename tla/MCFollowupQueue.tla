---------------------------- MODULE MCFollowupQueue ----------------------------
(* Values of FollowupQueue's constants for TLC: messages a and b are answered *)
(* in one place, c in another.                                                *)
EXTENDS FollowupQueue, TLC

CONSTANTS a, b, c, here, there, q1, q2, q3

MCRoute == (a :> here) @@ (b :> here) @@ (c :> there)

\* Two modes, and a cap that two waiting messages reach.
RejectNew == {[mode |-> "collect", cap |-> 2, drop |-> "new"],
              [mode |-> "followup", cap |-> 2, drop |-> "new"]}

CollectSummarize == {[mode |-> "collect", cap |-> 2, drop |-> "summarize"]}
FollowupSummarize == {[mode |-> "followup", cap |-> 2, drop |-> "summarize"]}
FollowupCapOne == {[mode |-> "followup", cap |-> 1, drop |-> "summarize"]}

=============================================================================
