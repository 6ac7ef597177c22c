--------------------------- MODULE MCDeliveryQueue ---------------------------
(* Model values for DeliveryQueue: two deliveries of two payloads.         *)
EXTENDS DeliveryQueue

CONSTANTS d1, d2

MCDeliveries == {d1, d2}
First == {d1}
=============================================================================
