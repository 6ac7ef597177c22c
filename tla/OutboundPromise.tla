--------------------------- MODULE OutboundPromise ---------------------------
(***************************************************************************)
(* What the write-ahead delivery queue promises of an outbound message     *)
(* (src/src/infra/outbound/delivery-queue.ts, deliver.ts): once it is      *)
(* written down it is owed, and it stays owed, across crashes, until it is *)
(* out completely, parked in failed/, or withdrawn by an abort.            *)
(***************************************************************************)
CONSTANT Deliveries
VARIABLE fate

Fates == {"none", "owed", "kept", "parked", "withdrawn"}

Init == fate = [d \in Deliveries |-> "none"]

Move(d, from, to) == fate[d] \in from /\ fate' = [fate EXCEPT ![d] = to]

\* A message whose entry could not be written is still sent, but never owed.
Accept(d)   == Move(d, {"none"}, "owed")
Keep(d)     == Move(d, {"none", "owed"}, "kept")
Park(d)     == Move(d, {"owed"}, "parked")
Withdraw(d) == Move(d, {"owed"}, "withdrawn")

Next == \E d \in Deliveries : Accept(d) \/ Keep(d) \/ Park(d) \/ Withdraw(d)

Spec == Init /\ [][Next]_fate
=============================================================================
