--------------------------- MODULE MCFollowupQueue ---------------------------
(* Model values for FollowupQueue: three messages, two of one chat and one *)
(* of another, and the circumstances the run looks at.                     *)
EXTENDS FollowupQueue, TLC

CONSTANTS m1, m2, m3

MCMessages == {m1, m2, m3}
KeyedAndUnkeyed == (m1 :> "chatA") @@ (m2 :> "chatA") @@ (m3 :> "unkeyed")

Rejecting == [settings |-> {[mode |-> "followup", dropPolicy |-> "new", cap |-> 2],
                            [mode |-> "collect", dropPolicy |-> "new", cap |-> 2]},
              stale |-> TRUE, clear |-> TRUE]
Collecting == [settings |-> {[mode |-> "collect", dropPolicy |-> "summarize", cap |-> 2]},
               stale |-> FALSE, clear |-> FALSE]
MCCases == {Rejecting, Collecting}
=============================================================================
