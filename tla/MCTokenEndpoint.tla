-------------------------- MODULE MCTokenEndpoint --------------------------
(* Instances of TokenEndpoint for TLC: workers, codes, clients and keys are *)
(* interchangeable in the runs that check no liveness.                      *)
EXTENDS TokenEndpoint, TLC

Interchangeable == Permutations(Workers) \cup Permutations(Codes)
                   \cup Permutations(Clients) \cup Permutations(Keys)
=============================================================================
