--------------------------- MODULE MCPushDelivery ---------------------------
(* PushDelivery for TLC: notifiers and keys are interchangeable.           *)
EXTENDS PushDelivery, TLC

Symmetry == Permutations(Notifiers) \cup Permutations(Keys)
=============================================================================
