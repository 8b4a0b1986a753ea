------------------------------ MODULE LoginFlow ------------------------------
(***************************************************************************)
(* The login flow of x2fa: the two phases of /authorize, the second-factor *)
(* pages between them, and the browser session that ties them together.    *)
(*                                                                         *)
(* The session is Flask's default one: a signed cookie.  A request works   *)
(* on the copy its browser sent, and the reply replaces the whole cookie,  *)
(* so replies that overlap can overwrite each other and a lost reply       *)
(* leaves the old cookie in place.  `jar' holds the cookie of each         *)
(* browser, `flight' the request each gunicorn worker is handling.         *)
(*                                                                         *)
(* A factor check is one step here that passes or fails; what it reads and *)
(* writes is the subject of the modules WebAuthn, Totp and BackupCodes.    *)
(***************************************************************************)
EXTENDS Naturals, FiniteSets, Sequences

CONSTANTS Browsers, Users, Clients, Nonces, Workers,
          None,        \* a field that is absent
          MaxLogins,   \* bound: how often phase 1 of /authorize may start a login
          MaxCodes     \* bound: how many authorization codes may be stored

ASSUME NoneAssumption == None \notin Browsers \cup Users \cup Clients \cup Nonces
ASSUME BoundAssumption == MaxLogins \in Nat /\ MaxCodes \in Nat
ASSUME WorkersAssumption == IsFiniteSet(Workers)

VARIABLES jar,       \* the session cookie of each browser
          flight,    \* the request each worker is handling
          active,    \* the clients with OIDCClient.active
          enrolled,  \* the factors each user can pass
          codes,     \* the AuthorizationCode rows, in order of issue
          asked,     \* history: the query that started each login
          proved     \* history: the logins whose user passed a factor

vars == <<jar, flight, active, enrolled, codes, asked, proved>>

Methods == {"webauthn", "totp", "backup"}

(* The parameters of an /authorize URL: client_id, login_hint and nonce.   *)
Query == [client : Clients, user : Users, nonce : Nonces \cup {None}]

(* session["oidc_request"], with the number of the login it belongs to.    *)
OidcRequest == [login : Nat, query : Query]

Session == [req : OidcRequest \cup {None}, user : Users \cup {None},
            verified : BOOLEAN, backup : Users \cup {None}]

EmptySession == [req |-> None, user |-> None, verified |-> FALSE, backup |-> None]

Flight == [at : {"idle", "issue", "save", "reply"}, browser : Browsers \cup {None},
           sess : Session, query : Query \cup {None}, cookie : BOOLEAN]

Idle == [at |-> "idle", browser |-> None, sess |-> EmptySession,
         query |-> None, cookie |-> FALSE]

Code == [login : Nat, client : Clients, user : Users, nonce : Nonces \cup {None}]

Proof == [login : Nat, user : Users]

-----------------------------------------------------------------------------
Init == /\ jar = [b \in Browsers |-> EmptySession]
        /\ flight = [w \in Workers |-> Idle]
        /\ active = Clients
        /\ enrolled \in [Users -> {{}, {"webauthn", "backup"}, {"totp", "backup"}}]
        /\ codes = <<>>
        /\ asked = <<>>
        /\ proved = {}

HasSession(s) == s.req # None /\ s.user # None

(* The worker has its answer.  Flask sends the cookie if the handler       *)
(* assigned to the session, even the value it had, or popped a key of it.  *)
Answer(w, b, sess) ==
  flight' = [flight EXCEPT ![w] = [at |-> "reply", browser |-> b, sess |-> sess,
                                   query |-> None, cookie |-> TRUE]]

AnswerOnly(w, b) ==
  flight' = [flight EXCEPT ![w] = [Idle EXCEPT !.at = "reply", !.browser = b]]

(* Mutant: `verified' is stored as None instead of being popped.           *)
ErrorSessionStoresNone(s) == [s EXCEPT !.req = None, !.user = None, !.verified = None]

(* _oidc_error_redirect pops everything but the backup codes.              *)
ErrorSession(s) == [s EXCEPT !.req = None, !.user = None, !.verified = FALSE]

(* Mutant: the session is not cleaned up.                                  *)
IssuedSessionKept(s) == s

(* What is left of the session after phase 2: user_id and backup_codes.    *)
IssuedSession(s) == [s EXCEPT !.req = None, !.verified = FALSE]

VerifiedSession(s) == [s EXCEPT !.verified = TRUE]

-----------------------------------------------------------------------------
(* /authorize, phase 1: a request that does not continue a verified login  *)
(* of the same client starts a new one, if the client is active.           *)

Continues(s, q) == s.verified /\ s.req # None /\ q.client = s.req.query.client

(* Mutant: session.setdefault("user_id", login_hint).                      *)
StartedSessionKeepsUser(s, q) ==
  [s EXCEPT !.req = [login |-> Len(asked) + 1, query |-> q],
            !.user = IF s.user = None THEN q.user ELSE s.user, !.verified = FALSE]

StartedSession(s, q) ==
  [s EXCEPT !.req = [login |-> Len(asked) + 1, query |-> q],
            !.user = q.user, !.verified = FALSE]

AuthorizePhase1(w, b, q) ==
  /\ flight[w] = Idle
  /\ ~Continues(jar[b], q)
  /\ IF q.client \in active
       THEN /\ Len(asked) < MaxLogins
            /\ asked' = Append(asked, q)
            /\ Answer(w, b, StartedSession(jar[b], q))
       ELSE /\ asked' = asked
            /\ AnswerOnly(w, b)
  /\ UNCHANGED <<jar, active, enrolled, codes, proved>>

(* Phase 2: Authlib validates the request against the database ...         *)
AuthorizePhase2(w, b, q) ==
  /\ flight[w] = Idle
  /\ Continues(jar[b], q)
  /\ flight' = [flight EXCEPT ![w] = [at |-> "issue", browser |-> b, sess |-> jar[b],
                                      query |-> q, cookie |-> FALSE]]
  /\ UNCHANGED <<jar, active, enrolled, codes, asked, proved>>

(* Mutant: the nonce is looked up in the wrong column.                     *)
ExistsNonceWrongColumn(n) == n # None /\ \E i \in DOMAIN codes : codes[i].client = n

ExistsNonce(n) == n # None /\ \E i \in DOMAIN codes : codes[i].nonce = n

(* Mutant: query_client forgets the condition on OIDCClient.active.        *)
QueryClientInactive(c) == c \in Clients

QueryClient(c) == c \in active

ValidateRequest(w) ==
  LET f == flight[w] IN
  /\ f.at = "issue"
  /\ IF QueryClient(f.query.client) /\ ~ExistsNonce(f.query.nonce)
       THEN flight' = [flight EXCEPT ![w].at = "save"]
       ELSE Answer(w, f.browser, IssuedSession(f.sess))
  /\ UNCHANGED <<jar, active, enrolled, codes, asked, proved>>

(* ... and save_authorization_code commits the code in a later step.  The  *)
(* code takes its user from the session and the rest from the query.       *)
SaveAuthorizationCode(w) ==
  LET f == flight[w] IN
  /\ f.at = "save"
  /\ Len(codes) < MaxCodes
  /\ codes' = Append(codes, [login |-> f.sess.req.login, client |-> f.query.client,
                             user |-> f.sess.user, nonce |-> f.query.nonce])
  /\ Answer(w, f.browser, IssuedSession(f.sess))
  /\ UNCHANGED <<jar, active, enrolled, asked, proved>>

-----------------------------------------------------------------------------
(* The second-factor pages.  Each needs an OIDC request and a user in the  *)
(* session; none of them asks which client or which page came before.      *)

NoSession(w, b) ==
  /\ flight[w] = Idle
  /\ ~HasSession(jar[b])
  /\ AnswerOnly(w, b)
  /\ UNCHANGED <<jar, active, enrolled, codes, asked, proved>>

(* POST /verify/complete, /totp/verify or /backup/verify succeeds.  The    *)
(* code that is redeemed may be the user's last backup code.               *)
FactorPass(w, b, m) ==
  LET s == jar[b] IN
  /\ flight[w] = Idle
  /\ HasSession(s)
  /\ m \in enrolled[s.user]
  /\ \/ enrolled' = enrolled
     \/ m = "backup" /\ enrolled' = [enrolled EXCEPT ![s.user] = @ \ {"backup"}]
  /\ proved' = proved \cup {[login |-> s.req.login, user |-> s.user]}
  /\ Answer(w, b, VerifiedSession(s))
  /\ UNCHANGED <<jar, active, codes, asked>>

(* POST /setup/complete or /totp/setup/verify succeeds: the user has shown *)
(* the new factor, and its backup codes are put in the session.            *)
EnrolPass(w, b, m) ==
  LET s == jar[b] IN
  /\ flight[w] = Idle
  /\ HasSession(s)
  /\ m \in {"webauthn", "totp"}
  /\ enrolled' = [enrolled EXCEPT ![s.user] = @ \cup {m, "backup"}]
  /\ proved' = proved \cup {[login |-> s.req.login, user |-> s.user]}
  /\ Answer(w, b, [VerifiedSession(s) EXCEPT !.backup = s.user])
  /\ UNCHANGED <<jar, active, codes, asked>>

(* A wrong code or signature, or a page that only renders.                 *)
FactorFail(w, b) ==
  /\ flight[w] = Idle
  /\ HasSession(jar[b])
  /\ AnswerOnly(w, b)
  /\ UNCHANGED <<jar, active, enrolled, codes, asked, proved>>

(* GET /totp/setup replaces the TOTP secret by one that is not verified.   *)
TotpSetupGet(w, b) ==
  LET s == jar[b] IN
  /\ flight[w] = Idle
  /\ HasSession(s)
  /\ enrolled' = [enrolled EXCEPT ![s.user] = @ \ {"totp"}]
  /\ AnswerOnly(w, b)
  /\ UNCHANGED <<jar, active, codes, asked, proved>>

(* GET /verify without a usable factor, and GET /totp/verify without a     *)
(* verified secret, end the login at the relying party.                    *)
AccessDenied(w, b) ==
  LET s == jar[b] IN
  /\ flight[w] = Idle
  /\ HasSession(s)
  /\ "totp" \notin enrolled[s.user]
  /\ Answer(w, b, ErrorSession(s))
  /\ UNCHANGED <<jar, active, enrolled, codes, asked, proved>>

(* GET /setup/done shows the backup codes and drops them from the session. *)
SetupDone(w, b) ==
  /\ flight[w] = Idle
  /\ IF jar[b].backup # None
       THEN Answer(w, b, [jar[b] EXCEPT !.backup = None])
       ELSE AnswerOnly(w, b)
  /\ UNCHANGED <<jar, active, enrolled, codes, asked, proved>>

-----------------------------------------------------------------------------
(* The reply reaches the browser and its cookie replaces the jar's.        *)
Reply(w) ==
  LET f == flight[w] IN
  /\ f.at = "reply"
  /\ jar' = IF f.cookie THEN [jar EXCEPT ![f.browser] = f.sess] ELSE jar
  /\ flight' = [flight EXCEPT ![w] = Idle]
  /\ UNCHANGED <<active, enrolled, codes, asked, proved>>

(* The reply is lost, or the worker dies before it has one.                *)
Drop(w) ==
  /\ flight[w] # Idle
  /\ flight' = [flight EXCEPT ![w] = Idle]
  /\ UNCHANGED <<jar, active, enrolled, codes, asked, proved>>

(* flask revoke-client                                                     *)
RevokeClient(c) ==
  /\ c \in active
  /\ active' = active \ {c}
  /\ UNCHANGED <<jar, flight, enrolled, codes, asked, proved>>

Next ==
  \/ \E w \in Workers :
       \/ \E b \in Browsers :
            \/ \E q \in Query : AuthorizePhase1(w, b, q)
            \/ \E q \in Query : AuthorizePhase2(w, b, q)
            \/ NoSession(w, b)
            \/ \E m \in Methods : FactorPass(w, b, m)
            \/ \E m \in Methods : EnrolPass(w, b, m)
            \/ FactorFail(w, b)
            \/ TotpSetupGet(w, b)
            \/ AccessDenied(w, b)
            \/ SetupDone(w, b)
       \/ ValidateRequest(w)
       \/ SaveAuthorizationCode(w)
       \/ Reply(w)
       \/ Drop(w)
  \/ \E c \in Clients : RevokeClient(c)

Spec == Init /\ [][Next]_vars

-----------------------------------------------------------------------------
(* Every variable keeps its shape; a login number was given out by phase 1. *)
TypeOK ==
  /\ jar \in [Browsers -> Session]
  /\ flight \in [Workers -> Flight]
  /\ active \subseteq Clients
  /\ enrolled \in [Users -> SUBSET Methods]
  /\ codes \in Seq(Code)
  /\ asked \in Seq(Query)
  /\ proved \subseteq Proof

(* Every authorization code stands for a login whose user passed a factor,  *)
(* and carries the user and the client that login asked for: whatever       *)
(* cookies overlapping replies leave behind, the session that reaches       *)
(* phase 2 (auth.py:113) is verified for the user it names.                 *)
CodeBacked ==
  \A i \in DOMAIN codes :
    LET c == codes[i] IN
    /\ [login |-> c.login, user |-> c.user] \in proved
    /\ c.login \in DOMAIN asked
    /\ asked[c.login].user = c.user
    /\ asked[c.login].client = c.client

(* exists_nonce is read before save_authorization_code commits, so requests *)
(* that overlap can share a nonce, but no more of them than there are       *)
(* workers (grants.py:95).                                                  *)
NonceBounded ==
  \A n \in Nonces :
    Cardinality({i \in DOMAIN codes : codes[i].nonce = n}) <= Cardinality(Workers)

(* Once a client is revoked and no request for it is past Authlib's         *)
(* validation, it gets no code any more, whatever sessions still name it.   *)
Drained(c) == /\ c \notin active
              /\ \A w \in Workers : ~(flight[w].at = "save" /\ flight[w].query.client = c)

CodesOf(c) == {i \in DOMAIN codes : codes[i].client = c}

RevocationHolds ==
  [][\A c \in Clients : Drained(c) => (Drained(c)' /\ CodesOf(c)' = CodesOf(c))]_vars

(* grants.py:96: "Returns True if this nonce has already been used (replay  *)
(* protection)", so no two codes should share a nonce.                      *)
NonceUnique ==
  \A i, j \in DOMAIN codes :
    (codes[i].nonce # None /\ codes[i].nonce = codes[j].nonce) => i = j
=============================================================================
