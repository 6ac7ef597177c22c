----------------------------- MODULE MCNodeInvoke -----------------------------
(* One node with two connections and two calls, in two cases: both calls are *)
(* runs of the command whose approval r1 has requested and awaits, or both   *)
(* are foreground commands, the second perhaps a retry of the first, when    *)
(* r1's approval has been denied and has left the map.                       *)
EXTENDS NodeInvoke
CONSTANTS n, c1, c2, i1, i2, a, x, r1
MCNodeOf == [c \in Conns |-> n]
MCTarget == [i \in Invokes |-> n]
Run == [approval |-> <<a, x>>, foreground |-> FALSE, key |-> 1]
Camera(k) == [approval |-> None, foreground |-> TRUE, key |-> k]
MCCommands == {Run, Camera(1), Camera(2)}

Asked == [Blank EXCEPT !.id = a, !.binding = x]
Awaiting ==
    /\ command = [i \in Invokes |-> Run]
    /\ pending = [i \in Ids |-> r1]
    /\ entry = [r \in Requests |-> Asked]
    /\ request = [r \in Requests |-> [at |-> "awaiting", clients |-> TRUE, reply |-> "none"]]
Denied ==
    /\ \E k \in Keys : command = [i \in Invokes |-> Camera(IF i = i1 THEN 1 ELSE k)]
    /\ pending = [i \in Ids |-> None]
    /\ entry = [r \in Requests |-> Settled(Asked, "deny", "client")]
    /\ request = [r \in Requests |-> [at |-> "answered", clients |-> TRUE, reply |-> "deny"]]
MCInit ==
    /\ Awaiting \/ Denied
    /\ wait = [w \in Waiters |-> [on |-> None, reply |-> "none"]]
    /\ approvers = TRUE
    /\ admitted = [r \in Requests |-> [once |-> 0, other |-> {}]]
    /\ NodeInit
MCSpec == MCInit /\ [][Next]_vars /\ Fairness
=============================================================================
