------------------------------ MODULE WebAuthn ------------------------------
(***************************************************************************)
(* WebAuthn registration and verification: the challenges that             *)
(* GET /setup/webauthn and GET /verify store, the credentials, and the     *)
(* handlers POST /setup/complete and POST /verify/complete, which commit   *)
(* several transactions each and may run in several gunicorn workers.      *)
(*                                                                         *)
(* The browser may post a response more than once and in any order; a      *)
(* worker may die between two commits.  The authenticator, the browser and *)
(* the webauthn library are external: a genuine authenticator counts its   *)
(* signatures, and the library may reject any response.                    *)
(***************************************************************************)
EXTENDS Naturals, FiniteSets

CONSTANTS Users, Workers, Challenges, Creds,
          None,
          MaxSigns    \* bound: signatures per authenticator

ASSUME NoneAssumption == None \notin Users \cup Challenges \cup Creds
ASSUME WorkersAssumption == IsFiniteSet(Workers)
ASSUME MaxSignsAssumption == MaxSigns \in Nat

VARIABLES challenge,   \* the challenge table
          credential,  \* the credential table
          batches,     \* per user, how often ten backup codes were stored
          audit,       \* the audit_log rows: action and challenge
          work,        \* the request each worker is handling
          counting,    \* external: the credentials whose authenticator counts
          signs,       \* external: each authenticator's signature counter
          sent,        \* external: the responses browsers may post
          uses         \* history: requests that succeeded, per challenge

vars == <<challenge, credential, batches, audit, work, counting, signs, sent, uses>>

ChallengeRow == [user : Users, used : BOOLEAN, expired : BOOLEAN]
CredentialRow == [user : Users, sign_count : Nat]
Response == [kind : {"setup", "verify"}, challenge : Challenges, cred : Creds,
             count : Nat]
AuditRow == [action : {"setup", "verify", "fail"}, challenge : Challenges]
Work == [at : {"consume", "check", "count", "audit"}, user : Users,
         resp : Response, loaded : Nat]

ASSUME NoRowAssumption == None \notin ChallengeRow \cup CredentialRow \cup Work

-----------------------------------------------------------------------------
Init == /\ challenge = [h \in Challenges |-> None]
        /\ credential = [c \in Creds |-> None]
        /\ batches = [u \in Users |-> 0]
        /\ audit = {}
        /\ work = [w \in Workers |-> None]
        /\ counting \in SUBSET Creds
        /\ signs = [c \in Creds |-> 0]
        /\ sent = {}
        /\ uses = [h \in Challenges |-> 0]

CredentialsOf(u) == {c \in Creds : credential[c] # None /\ credential[c].user = u}

(* GET /setup/webauthn, and GET /verify for a user who has a credential:   *)
(* both add a row to the same table.                                       *)
AddChallenge(h, u) ==
  /\ challenge[h] = None
  /\ challenge' = [challenge EXCEPT ![h] = [user |-> u, used |-> FALSE, expired |-> FALSE]]
  /\ UNCHANGED <<credential, batches, audit, work, counting, signs, sent, uses>>

SetupGet(h, u) == AddChallenge(h, u)

VerifyGet(h, u) == CredentialsOf(u) # {} /\ AddChallenge(h, u)

(* Time passes the challenge's expires_at.                                 *)
Expire(h) ==
  /\ challenge[h] # None /\ ~challenge[h].expired
  /\ challenge' = [challenge EXCEPT ![h].expired = TRUE]
  /\ UNCHANGED <<credential, batches, audit, work, counting, signs, sent, uses>>

-----------------------------------------------------------------------------
(* The authenticator answers a page's challenge: with a new credential on  *)
(* the setup page, with a signature by a credential it holds on the verify *)
(* page; that one is listed there says nothing about the row the handler   *)
(* looks for later, since registration may have failed or be under way.    *)
(* The challenge's row does not record which page it was made for and      *)
(* neither handler asks, so either kind of answer goes with any challenge. *)

Count(c) == IF c \in counting THEN signs[c] + 1 ELSE 0

Sign(kind, h, c) ==
  /\ signs[c] < MaxSigns
  /\ challenge[h] # None
  /\ signs' = [signs EXCEPT ![c] = Count(c)]
  /\ sent' = sent \cup {[kind |-> kind, challenge |-> h, cred |-> c,
                         count |-> Count(c)]}
  /\ UNCHANGED <<challenge, credential, batches, audit, work, counting, uses>>

CreateCredential(h, c) ==
  /\ \A r \in sent : r.cred # c
  /\ Sign("setup", h, c)

GetAssertion(h, c) ==
  /\ \E r \in sent : r.cred = c
  /\ Sign("verify", h, c)

-----------------------------------------------------------------------------
(* The handlers.  Both begin alike: read the challenge, refuse it or go on *)
(* to mark it used, and commit.                                            *)

(* Mutant: the row's `used' is not looked at.                              *)
UsableAgain(h, u) == /\ challenge[h] # None
                     /\ challenge[h].user = u
                     /\ ~challenge[h].expired

Usable(h, u) == /\ challenge[h] # None
                /\ challenge[h].user = u
                /\ ~challenge[h].used
                /\ ~challenge[h].expired

ReadChallenge(w, u, r) ==
  /\ work[w] = None
  /\ Usable(r.challenge, u)
  /\ work' = [work EXCEPT ![w] = [at |-> "consume", user |-> u, resp |-> r, loaded |-> 0]]
  /\ UNCHANGED <<challenge, credential, batches, audit, counting, signs, sent, uses>>

ConsumeChallenge(w) ==
  /\ work[w] # None /\ work[w].at = "consume"
  /\ challenge' = [challenge EXCEPT ![work[w].resp.challenge].used = TRUE]
  /\ work' = [work EXCEPT ![w].at = "check"]
  /\ UNCHANGED <<credential, batches, audit, counting, signs, sent, uses>>

Finish(w) == work' = [work EXCEPT ![w] = None]

(* Mutant: the action is written with a name nobody reads.                 *)
AddAuditUnknown(w, action) ==
  audit' = audit \cup {[action |-> "unknown", challenge |-> work[w].resp.challenge]}

AddAudit(w, action) ==
  audit' = audit \cup {[action |-> action, challenge |-> work[w].resp.challenge]}

Checking(w, kind) == /\ work[w] # None
                     /\ work[w].at = "check"
                     /\ work[w].resp.kind = kind

-----------------------------------------------------------------------------
(* POST /verify/complete                                                   *)

Found(w) == LET r == work[w].resp IN
            credential[r.cred] # None /\ credential[r.cred].user = work[w].user

(* Mutants: off by one; and with the wrong comparison.                     *)
RegressedByOne(stored, new) == stored > 0 /\ new <= stored + 1

RegressedIfEqual(stored, new) == stored > 0 /\ new = stored

Regressed(stored, new) == stored > 0 /\ new <= stored

CountsOn(w) == LET r == work[w].resp IN
               ~Regressed(credential[r.cred].sign_count, r.count)

CredentialNotFound(w) ==
  /\ Checking(w, "verify") /\ ~Found(w)
  /\ Finish(w)
  /\ UNCHANGED <<challenge, credential, batches, audit, counting, signs, sent, uses>>

(* The library rejects the response, or the sign count has not risen.      *)
VerificationFails(w) ==
  /\ Checking(w, "verify") /\ Found(w)
  /\ AddAudit(w, "fail")
  /\ Finish(w)
  /\ UNCHANGED <<challenge, credential, batches, counting, signs, sent, uses>>

VerificationPasses(w) ==
  /\ Checking(w, "verify") /\ Found(w) /\ CountsOn(w)
  /\ work' = [work EXCEPT ![w].at = "count",
                          ![w].loaded = credential[work[w].resp.cred].sign_count]
  /\ UNCHANGED <<challenge, credential, batches, audit, counting, signs, sent, uses>>

(* The ORM writes sign_count only if it differs from what was loaded.      *)
SaveSignCount(w) ==
  /\ work[w] # None /\ work[w].at = "count"
  /\ LET r == work[w].resp IN
     credential' = IF r.count = work[w].loaded THEN credential
                   ELSE [credential EXCEPT ![r.cred].sign_count = r.count]
  /\ work' = [work EXCEPT ![w].at = "audit"]
  /\ UNCHANGED <<challenge, batches, audit, counting, signs, sent, uses>>

-----------------------------------------------------------------------------
(* POST /setup/complete.  A failure is audited too, as a setup.            *)

(* Mutant: the backup codes are stored before the response is verified.    *)
RegistrationFailsWithCodes(w) ==
  /\ Checking(w, "setup")
  /\ AddAudit(w, "setup")
  /\ batches' = [batches EXCEPT ![work[w].user] = @ + 1]
  /\ Finish(w)
  /\ UNCHANGED <<challenge, credential, counting, signs, sent, uses>>

RegistrationFails(w) ==
  /\ Checking(w, "setup")
  /\ AddAudit(w, "setup")
  /\ Finish(w)
  /\ UNCHANGED <<challenge, credential, batches, counting, signs, sent, uses>>

(* The credential and ten backup codes are committed together, unless the  *)
(* credential's primary key is taken: then the request ends in an error.   *)
SaveCredential(w) ==
  /\ Checking(w, "setup")
  /\ LET r == work[w].resp
         u == work[w].user
     IN IF credential[r.cred] = None
          THEN /\ credential' = [credential EXCEPT ![r.cred] =
                                   [user |-> u, sign_count |-> r.count]]
               /\ batches' = [batches EXCEPT ![u] = @ + 1]
               /\ work' = [work EXCEPT ![w].at = "audit"]
          ELSE /\ Finish(w)
               /\ UNCHANGED <<credential, batches>>
  /\ UNCHANGED <<challenge, audit, counting, signs, sent, uses>>

-----------------------------------------------------------------------------
(* Either handler writes its audit row and answers that the factor passed. *)
AuditSuccess(w) ==
  /\ work[w] # None /\ work[w].at = "audit"
  /\ AddAudit(w, work[w].resp.kind)
  /\ uses' = [uses EXCEPT ![work[w].resp.challenge] = @ + 1]
  /\ Finish(w)
  /\ UNCHANGED <<challenge, credential, batches, counting, signs, sent>>

(* The worker is killed (gunicorn's timeout, a restart) between two commits. *)
Crash(w) ==
  /\ work[w] # None
  /\ Finish(w)
  /\ UNCHANGED <<challenge, credential, batches, audit, counting, signs, sent, uses>>

Next ==
  \/ \E h \in Challenges :
       \/ \E u \in Users : SetupGet(h, u)
       \/ \E u \in Users : VerifyGet(h, u)
       \/ Expire(h)
       \/ \E c \in Creds : CreateCredential(h, c)
       \/ \E c \in Creds : GetAssertion(h, c)
  \/ \E w \in Workers :
       \/ \E u \in Users, r \in sent : ReadChallenge(w, u, r)
       \/ ConsumeChallenge(w)
       \/ CredentialNotFound(w)
       \/ VerificationFails(w)
       \/ VerificationPasses(w)
       \/ SaveSignCount(w)
       \/ RegistrationFails(w)
       \/ SaveCredential(w)
       \/ AuditSuccess(w)
       \/ Crash(w)

Spec == Init /\ [][Next]_vars

-----------------------------------------------------------------------------
(* Every variable keeps its shape.                                          *)
TypeOK ==
  /\ challenge \in [Challenges -> ChallengeRow \cup {None}]
  /\ credential \in [Creds -> CredentialRow \cup {None}]
  /\ batches \in [Users -> Nat]
  /\ audit \subseteq AuditRow
  /\ work \in [Workers -> Work \cup {None}]
  /\ counting \subseteq Creds
  /\ signs \in [Creds -> Nat]
  /\ sent \subseteq Response
  /\ uses \in [Challenges -> Nat]

(* A challenge is a one-time token: a request that reads its row after it   *)
(* was used or has expired gets nowhere, on either page (verify.py:126).    *)
Status(h) == IF challenge[h] = None THEN "absent"
             ELSE IF challenge[h].used \/ challenge[h].expired THEN "gone" ELSE "live"

HoldersOf(h) == {w \in Workers : work[w] # None /\ work[w].resp.challenge = h}

OT == INSTANCE OneTime WITH Tokens <- Challenges,
                            status <- [h \in Challenges |-> Status(h)],
                            holders <- [h \in Challenges |-> HoldersOf(h)],
                            uses <- uses

OneTimeChallenges == OT!Spec

(* Whatever order overlapping verifications commit in, and wherever a       *)
(* worker dies, the authenticator's next signature is not taken for a       *)
(* regression (webauthn_helpers.py:191).                                    *)
NextSignatureAccepted ==
  \A c \in Creds :
    credential[c] # None => ~Regressed(credential[c].sign_count, Count(c))

(* A user has ten backup codes for every credential, and none for a         *)
(* registration that failed, was posted twice or was cut short.             *)
CodesPerCredential ==
  \A u \in Users : batches[u] = Cardinality(CredentialsOf(u))

(* The stored sign count falls only if another verification has raised it   *)
(* since this one loaded the row (webauthn_helpers.py:191, verify.py:172):  *)
(* with one worker, or without overlap, a count that falls is refused.      *)
CountFallsOnlyIfStale ==
  [][\A c \in Creds :
       (credential[c] # None /\ credential'[c].sign_count < credential[c].sign_count) =>
         \E w \in Workers : /\ work[w] # None /\ work[w].at = "count"
                           /\ work[w].resp.cred = c
                           /\ work[w].loaded < credential[c].sign_count
                           /\ work'[w].at = "audit"]_vars
=============================================================================
