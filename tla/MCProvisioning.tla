--------------------------- MODULE MCProvisioning ---------------------------
(* Instances of Provisioning for TLC: CA names are interchangeable.         *)
EXTENDS Provisioning, TLC

Interchangeable == Permutations(CANames)
=============================================================================
