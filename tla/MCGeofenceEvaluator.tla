------------------------ MODULE MCGeofenceEvaluator ------------------------
(* GeofenceEvaluator for TLC.                                              *)
EXTENDS GeofenceEvaluator, TLC

RequestSymmetry == Permutations(Requests)
=============================================================================
