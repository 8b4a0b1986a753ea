------------------------------- MODULE OneTime -------------------------------
(***************************************************************************)
(* What x2fa promises about everything it hands out for one use: WebAuthn  *)
(* challenges, backup codes and authorization codes.  Every handler that   *)
(* redeems such a token first reads its row and then, in a later           *)
(* transaction, marks it, so several workers may hold a token that is      *)
(* still live; nobody gets hold of a token that is gone.                   *)
(***************************************************************************)
EXTENDS Naturals, FiniteSets

CONSTANTS Tokens, Workers

VARIABLES status,   \* status[t]: not handed out yet, live, or gone for good
          holders,  \* holders[t]: the workers that found t live
          uses      \* uses[t]: how often t was redeemed

vars == <<status, holders, uses>>

Init == /\ status = [t \in Tokens |-> "absent"]
        /\ holders = [t \in Tokens |-> {}]
        /\ uses = [t \in Tokens |-> 0]

(* Tokens are handed out one by one or, like backup codes, several at once. *)
Issue(S) == /\ \A t \in S : status[t] = "absent"
            /\ status' = [t \in Tokens |-> IF t \in S THEN "live" ELSE status[t]]
            /\ UNCHANGED <<holders, uses>>

Hold(w, t) == /\ status[t] = "live"
              /\ holders' = [holders EXCEPT ![t] = @ \cup {w}]
              /\ UNCHANGED <<status, uses>>

(* A holder marks the token, or the token expires; those that were handed   *)
(* out together expire together.                                           *)
End(S) == /\ \A t \in S : status[t] = "live"
          /\ status' = [t \in Tokens |-> IF t \in S THEN "gone" ELSE status[t]]
          /\ UNCHANGED <<holders, uses>>

Redeem(w, t) == /\ status[t] = "gone"
                /\ w \in holders[t]
                /\ holders' = [holders EXCEPT ![t] = @ \ {w}]
                /\ uses' = [uses EXCEPT ![t] = @ + 1]
                /\ status' = status

Release(w, t) == /\ holders' = [holders EXCEPT ![t] = @ \ {w}]
                 /\ UNCHANGED <<status, uses>>

Next == \/ \E S \in SUBSET Tokens : Issue(S) \/ End(S)
        \/ \E t \in Tokens, w \in Workers :
             Hold(w, t) \/ Redeem(w, t) \/ Release(w, t)

Spec == Init /\ [][Next]_vars

-----------------------------------------------------------------------------
TypeOK == /\ status \in [Tokens -> {"absent", "live", "gone"}]
          /\ holders \in [Tokens -> SUBSET Workers]
          /\ uses \in [Tokens -> Nat]

(* A token is redeemed by no more requests than there are workers to read   *)
(* its row before one of them marks it; with one worker, once.              *)
UsesBounded == \A t \in Tokens : uses[t] <= Cardinality(Workers)
=============================================================================
