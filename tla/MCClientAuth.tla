----------------------------- MODULE MCClientAuth -----------------------------
(* An instance of ClientAuth for TLC: clients, keys, CA names and secrets  *)
(* are interchangeable.                                                    *)
EXTENDS ClientAuth, TLC

Interchangeable == Permutations(Clients) \cup Permutations(Keys)
                   \cup Permutations(CANames) \cup Permutations(Secrets)
=============================================================================
