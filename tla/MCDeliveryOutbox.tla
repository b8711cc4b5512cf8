-------------------------- MODULE MCDeliveryOutbox --------------------------
(* Small instances of DeliveryOutbox. *)
EXTENDS DeliveryOutbox, TLC

CONSTANTS e1, e2, c1

(* Two events of one connector, which remembers only its last delivery. *)
TwoChannelEvents == e1 :> c1 @@ e2 :> c1

(* A channel delivery and a runtime event, which leaves no receipts. *)
MixedEvents == e1 :> c1 @@ e2 :> NoConnector

Symmetry == Permutations(Workers) \cup Permutations(Tokens)
=============================================================================
