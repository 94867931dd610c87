--------------------------- MODULE MCFollowupQueue ---------------------------
EXTENDS FollowupQueue

\* The first message finds the slot free, the others may queue behind it.  The second has
\* no origin metadata, the third other rights, the fourth another route; the cap of the
\* followup mode overflows, twice if the third message and the fourth set it.
mcAuthOf == 1 :> 1 @@ 2 :> 1 @@ 3 :> 2 @@ 4 :> 1
mcRouteOf == 1 :> 1 @@ 2 :> Neutral @@ 3 :> 1 @@ 4 :> 2
mcSettingsOf ==
  LET collect == [mode |-> "collect", cap |-> 2, drop |-> "summarize"]
      followup == [mode |-> "followup", cap |-> 1, drop |-> "summarize"]
  IN 1 :> {collect} @@ 2 :> {collect} @@ 3 :> {collect, followup} @@ 4 :> {collect, followup}
=============================================================================
