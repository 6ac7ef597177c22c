---------------------------- MODULE MCAuthRefresh ----------------------------
(* Values for AuthRefresh: two tasks of one process and one of another.     *)
EXTENDS AuthRefresh

MCTasks == {"a1", "a2", "b"}
MCProcessOf == [t \in MCTasks |-> IF t = "b" THEN "q" ELSE "p"]
=============================================================================
