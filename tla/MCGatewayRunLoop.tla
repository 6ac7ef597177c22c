-------------------------- MODULE MCGatewayRunLoop --------------------------
(* Model values for GatewayRunLoop: one session with a run that may get    *)
(* stuck, a call behind it, and a restart or two.                          *)
EXTENDS GatewayRunLoop

CONSTANTS e1, e2, session

MCEntries == {e1, e2}
MCLanes == {session}
MCLaneOf == [e \in MCEntries |-> session]
MCStuck == {e1}
=============================================================================
