---------------------------- MODULE LoginHistory ----------------------------
(***************************************************************************)
(* LoginFlow with two history variables, which follow the authorization    *)
(* codes to the browsers: phase 2 puts the code in the reply that also     *)
(* clears the session, so when that reply is lost or overtaken the browser *)
(* may come back with a session that is still verified.                    *)
(***************************************************************************)
EXTENDS LoginFlow

VARIABLES carrying,  \* history: does the answer of each worker carry a code?
          since      \* history: the codes that reached each browser since it
                     \* was last sent a verified session

historyVars == <<carrying, since>>

HistoryInit == /\ Init
               /\ carrying = [w \in Workers |-> FALSE]
               /\ since = [b \in Browsers |-> 0]

SaveCode(w) == /\ SaveAuthorizationCode(w)
               /\ carrying' = [carrying EXCEPT ![w] = TRUE]
               /\ since' = since

Arrive(w) ==
  LET b == flight[w].browser IN
  /\ Reply(w)
  /\ carrying' = [carrying EXCEPT ![w] = FALSE]
  /\ since' = [since EXCEPT ![b] =
       CASE carrying[w] -> @ + 1
         [] ~carrying[w] /\ flight[w].cookie /\ flight[w].sess.verified -> 0
         [] OTHER -> @]

Lose(w) == /\ Drop(w)
           /\ carrying' = [carrying EXCEPT ![w] = FALSE]
           /\ since' = since

OtherStep ==
  \/ \E w \in Workers, b \in Browsers :
       \/ \E q \in Query : AuthorizePhase1(w, b, q) \/ AuthorizePhase2(w, b, q)
       \/ NoSession(w, b)
       \/ \E m \in Methods : FactorPass(w, b, m) \/ EnrolPass(w, b, m)
       \/ FactorFail(w, b)
       \/ TotpSetupGet(w, b)
       \/ AccessDenied(w, b)
       \/ SetupDone(w, b)
  \/ \E w \in Workers : ValidateRequest(w)
  \/ \E c \in Clients : RevokeClient(c)

HistoryNext == \/ \E w \in Workers : SaveCode(w) \/ Arrive(w) \/ Lose(w)
               \/ OtherStep /\ UNCHANGED historyVars

HistorySpec == HistoryInit /\ [][HistoryNext]_<<vars, historyVars>>

-----------------------------------------------------------------------------
(* However replies are lost or overtake each other, a browser that was sent *)
(* a verified session gets no more codes out of it than there are workers;  *)
(* with one worker, one: "Clean up OIDC state from session after code       *)
(* issuance" (auth.py:119) ends the login the code was given for.           *)
CodesPerVerification == \A b \in Browsers : since[b] <= Cardinality(Workers)
=============================================================================
