--------------------------- MODULE MCSchemaUpgrade ---------------------------
(* Instances of SchemaUpgrade for TLC: processes are interchangeable.       *)
EXTENDS SchemaUpgrade, TLC

Interchangeable == Permutations(Processes)
=============================================================================
