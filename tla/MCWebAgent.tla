----------------------------- MODULE MCWebAgent ------------------------------
(* Instances of WebAgent for TLC.                                          *)
EXTENDS WebAgent, TLC

Symmetry == Permutations(Requests)
=============================================================================
