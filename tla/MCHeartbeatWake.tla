--------------------------- MODULE MCHeartbeatWake ---------------------------
(* Model values for HeartbeatWake: two targets, an interval and an action  *)
(* reason, a coalescing window of one tick and a retry delay of three.     *)
EXTENDS HeartbeatWake

CONSTANTS t1, t2

MCTargets == {t1, t2}
MCPriorities == {1, 3}
=============================================================================
