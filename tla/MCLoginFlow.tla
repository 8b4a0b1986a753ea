---------------------------- MODULE MCLoginFlow ----------------------------
(* Instances of LoginFlow for TLC: workers and browsers are interchangeable. *)
EXTENDS LoginFlow, TLC

Interchangeable == Permutations(Workers) \cup Permutations(Browsers)
=============================================================================
