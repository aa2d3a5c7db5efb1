--------------------------- MODULE MCEventDelivery ---------------------------
(* One page and two schedulers over an outbox of three events. *)
EXTENDS EventDelivery

CONSTANTS c1, s1, s2
=============================================================================
