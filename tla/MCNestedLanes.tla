---------------------------- MODULE MCNestedLanes ----------------------------
(* Model values for NestedLanes: a manual cron job and a chat message that *)
(* share a session.                                                        *)
EXTENDS NestedLanes, TLC

CONSTANTS r1, r2, chat

MCRuns == {r1, r2}
MCCronJobs == {r1}
MCSessions == {chat}
MCSessionOf == [r \in MCRuns |-> chat]
MCLaneParam == (r1 :> "cron") @@ (r2 :> "none")
=============================================================================
