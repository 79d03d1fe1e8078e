--------------------------- MODULE MCStagingRequest ---------------------------
(* StagingRequest on small instances: the CA's orders are interchangeable.    *)
EXTENDS StagingRequest, TLC

Symmetry == Permutations(Urls)
===============================================================================
