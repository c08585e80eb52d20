-------------------------- MODULE MCSuspensionQueue --------------------------
(* Instance of SuspensionQueue for TLC: two producers, two consumers.        *)
EXTENDS SuspensionQueue

CONSTANTS p1, p2, c1, c2, x, y

MCProducers == {p1, p2}
MCConsumers == {c1, c2}
MCItems == {x, y}
=============================================================================
