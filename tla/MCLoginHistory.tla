--------------------------- MODULE MCLoginHistory ---------------------------
(* The instance of LoginHistory for TLC: workers and users are              *)
(* interchangeable.                                                         *)
EXTENDS LoginHistory, TLC

Interchangeable == Permutations(Workers) \cup Permutations(Users)

(* Bounds: up to three codes with or without a nonce are explored for one   *)
(* login; for two logins, one code without.  The nonce of phase 1 is not    *)
(* read again, so it is left out.                                           *)
NonceOf(q) == IF q = None THEN None ELSE q.nonce

Bounded ==
  /\ \A i \in DOMAIN asked : asked[i].nonce = None
  /\ Len(asked) = 2 => /\ Len(codes) <= 1
                       /\ \A w \in Workers : NonceOf(flight[w].query) = None
=============================================================================
