--------------------------- MODULE MCBackupCodes ---------------------------
(* Instances of BackupCodes for TLC: user u1 has two codes, u2 has one.     *)
EXTENDS BackupCodes, TLC

CONSTANTS u1, u2, k1, k2, k3

TwoUsers == (k1 :> u1) @@ (k2 :> u1) @@ (k3 :> u2)

Interchangeable == Permutations(Workers) \cup Permutations({k1, k2})
=============================================================================
