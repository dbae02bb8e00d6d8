--------------------------- MODULE MCFixDelivery ---------------------------
(* FixDelivery for TLC: the workers are interchangeable.                   *)
EXTENDS FixDelivery, TLC

WorkerSymmetry == Permutations(Workers)

\* Bound: after a death one worker flushes at a time.
OneAfterDeath == crashes > 0 => Cardinality({w \in Workers : wk[w] # Idle}) <= 1
=============================================================================
