---------------------------- MODULE MCWebAuthn ----------------------------
(* Instances of WebAuthn for TLC: workers are interchangeable, and so are   *)
(* challenges, whose identifiers are random.                                *)
EXTENDS WebAuthn, TLC

Interchangeable == Permutations(Workers) \cup Permutations(Challenges)
=============================================================================
