--------------------------- MODULE MCCommandQueue ---------------------------
(* Model values for CommandQueue: two lanes, one with three calls and one  *)
(* with a single call, so that a lane can hold an active, a next and a     *)
(* last entry while the other lane is at work.                             *)
EXTENDS CommandQueue, TLC

CONSTANTS e1, e2, e3, e4, main, cron

MCEntries == {e1, e2, e3, e4}
MCLanes == {main, cron}
MCLaneOf == (e1 :> main) @@ (e2 :> main) @@ (e3 :> main) @@ (e4 :> cron)
=============================================================================
