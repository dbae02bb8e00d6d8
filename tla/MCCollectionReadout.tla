------------------------ MODULE MCCollectionReadout ------------------------
(* CollectionReadout for TLC.                                              *)
EXTENDS CollectionReadout, TLC
=============================================================================
