------------------------------- MODULE MCTotp -------------------------------
(* Instances of Totp for TLC: workers are interchangeable.                  *)
EXTENDS Totp, TLC

Interchangeable == Permutations(Workers)

(* A code logs in until the end of its life through one worker only, beside *)
(* a second worker whose requests do not log in, and with one secret.  Two  *)
(* secrets, and logins through both, are explored as long as the first time *)
(* steps last.                                                              *)
Bounded ==
  now > 5 => /\ generated <= 1
             /\ \E w \in Workers : \A a \in accepted : a.worker = w
=============================================================================
