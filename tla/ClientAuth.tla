----------------------------- MODULE ClientAuth -----------------------------
(***************************************************************************)
(* The registry of clients and trusted CAs, and the authentication of a    *)
(* client at POST /token against it.  `flask' commands change the registry *)
(* while requests are handled, each in a process of its own; a request     *)
(* reads it in several queries.                                            *)
(*                                                                         *)
(* Authlib tries the authenticators in the order of ALL_AUTH_METHODS and   *)
(* takes the first client whose registered method is the authenticator's.  *)
(* An assertion never gets past the authenticator of private_key_jwt: that *)
(* one answers with a client or raises InvalidClientError.                 *)
(***************************************************************************)
EXTENDS Naturals

CONSTANTS Clients, CANames, Secrets, None,
          Keys,         \* key pairs that sign certificates
          MaxCommands   \* bound on the administrator's commands, and on the
                        \* certificates that expire

ASSUME NoneAssumption == None \notin Clients \cup CANames \cup Secrets \cup Keys
ASSUME BoundAssumption == MaxCommands \in Nat

SecretMethods == {"client_secret_jwt", "client_secret_post", "client_secret_basic"}
Methods == SecretMethods \cup
           {"tls_client_auth", "private_key_jwt", "self_signed_tls_client_auth"}

(* A certificate names a client and is signed with a key: a CA's, or its   *)
(* own.  Its fingerprint tells it from every other certificate; its period *)
(* of validity ends at some time.                                          *)
Certs == [cn : Clients, key : Keys]

(* A client secret as it is stored, under one generation of SECRET_KEY.    *)
Encrypted == [text : Secrets, under : 0 .. MaxCommands]

(* A row of oidc_client; jwks_uri is set iff the method needs it.          *)
ClientRow == [method : Methods, fingerprint : Certs \cup {None},
              secret : Encrypted \cup {None}, active : BOOLEAN]

CARow == [key : Keys, active : BOOLEAN]

(* What a request may carry besides a certificate: an assertion signed     *)
(* with the key of a certificate it includes (x5c), with a key of the      *)
(* client's key set (jwks) or with a secret (HS256), or the secret itself. *)
Bodies == [kind : {"x5c"}, id : Clients, proof : Certs]
            \cup [kind : {"jwks"}, id : Clients, proof : {None}]
            \cup [kind : {"hs256", "post", "basic"}, id : Clients, proof : Secrets]

Requests == [cert : Certs \cup {None}, body : Bodies \cup {None}]

VARIABLES client,    \* the oidc_client table
          ca,        \* the trusted_ca table
          config,    \* the generation of SECRET_KEY in security_config.toml
          loaded,    \* the generation the running service has read
          expired,   \* the certificates whose validity has ended
          commands,  \* commands given, and certificates expired, so far
          work,      \* the request being authenticated
          seen       \* history: the registry while it was being authenticated

vars == <<client, ca, config, loaded, expired, commands, work, seen>>

registry == <<client, ca, config, expired>>

Stages == {"mtls", "mtls client", "assertion", "key", "self_signed", "secret"}
Verdicts == {"accepted", "refused", "error"}

Work == [request : Requests, at : Stages \cup Verdicts,
         client : Clients \cup {None}, row : ClientRow \cup {None}]

ASSUME NoRowAssumption ==
  None \notin ClientRow \cup CARow \cup Encrypted \cup Certs \cup Bodies \cup Work

Trusted == {ca[n].key : n \in {m \in CANames : ca[m] # None /\ ca[m].active}}

Rows == {<<c, client[c]>> : c \in {d \in Clients : client[d] # None}}

(* `expired' as it was when the request arrived, the rest all the while.   *)
Seen == [trusted : SUBSET Keys, rows : SUBSET (Clients \X ClientRow),
         expired : SUBSET Certs, changed : BOOLEAN]

ASSUME NoHistoryAssumption == None \notin Seen

-----------------------------------------------------------------------------
Init == /\ client = [c \in Clients |-> None]
        /\ ca = [n \in CANames |-> None]
        /\ config = 0 /\ loaded = 0
        /\ expired = {}
        /\ commands = 0
        /\ work = None /\ seen = None

(* Every command is one transaction of its own.  The history of a request  *)
(* in flight takes note of what the command leaves.                        *)
Command ==
  /\ commands < MaxCommands
  /\ commands' = commands + 1
  /\ seen' = IF work = None THEN None
             ELSE [seen EXCEPT !.trusted = @ \cup Trusted',
                               !.rows = @ \cup Rows',
                               !.changed = TRUE]
  /\ UNCHANGED <<loaded, work>>

(* Mutant: the update of a client takes its secret for unchanged.          *)
KeptSecret(c, m, s) == IF client[c] = None THEN None ELSE client[c].secret

StoredSecret(c, m, s) ==
  CASE m \in SecretMethods -> [text |-> s, under |-> config]
    [] m \notin SecretMethods /\ client[c] # None -> client[c].secret
    [] OTHER -> None

(* add-client, for a new client or over an old one, whose `active' stays;  *)
(* a secret and a certificate are given to the methods that use them.      *)
AddClient(c, m, s, f) ==
  /\ s # None <=> m \in SecretMethods
  /\ f # None <=> m = "self_signed_tls_client_auth"
  /\ client' = [client EXCEPT ![c] =
       [method |-> m,
        fingerprint |-> f,
        secret |-> StoredSecret(c, m, s),
        active |-> client[c] = None \/ client[c].active]]
  /\ UNCHANGED <<ca, config, expired>>
  /\ Command

RevokeClient(c) ==
  /\ client[c] # None
  /\ client' = [client EXCEPT ![c].active = FALSE]
  /\ UNCHANGED <<ca, config, expired>>
  /\ Command

UpdateClientCert(c, f) ==
  /\ client[c] # None /\ client[c].method = "self_signed_tls_client_auth"
  /\ client' = [client EXCEPT ![c].fingerprint = f]
  /\ UNCHANGED <<ca, config, expired>>
  /\ Command

RotateClientSecret(c, s) ==
  /\ client[c] # None /\ client[c].method \in SecretMethods
  /\ client' = [client EXCEPT ![c].secret = [text |-> s, under |-> config]]
  /\ UNCHANGED <<ca, config, expired>>
  /\ Command

(* add-ca skips a name that is registered, active or not.                  *)
AddCA(n, k) ==
  /\ ca[n] = None
  /\ ca' = [ca EXCEPT ![n] = [key |-> k, active |-> TRUE]]
  /\ UNCHANGED <<client, config, expired>>
  /\ Command

RevokeCA(n) ==
  /\ ca[n] # None /\ ca[n].active
  /\ ca' = [ca EXCEPT ![n].active = FALSE]
  /\ UNCHANGED <<client, config, expired>>
  /\ Command

(* The installer's Security screen and its `Write configuration' step.     *)
ReplaceSecretKey ==
  /\ config' = config + 1
  /\ UNCHANGED <<client, ca, expired>>
  /\ Command

(* The clock: of two requests, only the later one may find it expired.     *)
Expire(f) ==
  /\ f \notin expired
  /\ expired' = expired \cup {f}
  /\ UNCHANGED <<client, ca, config>>
  /\ Command

(* The service reads its configuration when it starts; a restart that      *)
(* reads nothing new is left out.                                          *)
Restart ==
  /\ loaded # config
  /\ loaded' = config
  /\ work' = None /\ seen' = None
  /\ UNCHANGED <<registry, commands>>

-----------------------------------------------------------------------------
Receive(r) ==
  /\ work = None
  /\ work' = [request |-> r, at |-> "mtls", client |-> None, row |-> None]
  /\ seen' = [trusted |-> Trusted, rows |-> Rows, expired |-> expired, changed |-> FALSE]
  /\ UNCHANGED <<registry, loaded, commands>>

At(stage) == work # None /\ work.at = stage

cert == work.request.cert
body == work.request.body

(* A step of the request: it only reads the registry.                      *)
Go(stage, c, row) ==
  /\ work' = [work EXCEPT !.at = stage, !.client = c, !.row = row]
  /\ UNCHANGED <<registry, loaded, commands, seen>>

Accept(c) == Go("accepted", c, None)
Refuse == Go("refused", None, None)

Carries(kinds) == body # None /\ body.kind \in kinds

(* The authenticators still to try once one has returned no client; those  *)
(* that find nothing of theirs in the request are passed over.             *)
AfterSelfSigned == IF Carries({"post", "basic"}) THEN Go("secret", None, None) ELSE Refuse

(* Mutant: the certificate is not tried again as a self-signed one.        *)
AfterMtlsNoPinned ==
  IF Carries({"x5c", "jwks", "hs256"}) THEN Go("assertion", None, None) ELSE AfterSelfSigned

AfterMtls ==
  CASE Carries({"x5c", "jwks", "hs256"}) -> Go("assertion", None, None)
    [] ~Carries({"x5c", "jwks", "hs256"}) /\ cert # None -> Go("self_signed", None, None)
    [] OTHER -> AfterSelfSigned

(* Mutant: query_client forgets OIDCClient.active.                         *)
AnyClient(c, m) == client[c] # None /\ client[c].method = m

QueryClient(c, m) == client[c] # None /\ client[c].active /\ client[c].method = m

(* verify_certificate: one of the CAs signed it, and it has not expired.   *)
Verified(f) == f \notin expired /\ f.key \in Trusted

(* authenticate_via_mtls, first query: the active CAs.                     *)
ReadCAs ==
  /\ At("mtls")
  /\ IF cert # None /\ Verified(cert)
       THEN Go("mtls client", None, None)
       ELSE AfterMtls

(* Its second query: the client the certificate names.                     *)
ReadNamedClient ==
  /\ At("mtls client")
  /\ IF QueryClient(cert.cn, "tls_client_auth") THEN Accept(cert.cn) ELSE AfterMtls

(* private_key_jwt: the client of the assertion's `sub'.                   *)
ReadAssertedClient ==
  /\ At("assertion")
  /\ IF client[body.id] # None /\ client[body.id].active
       THEN Go("key", body.id, client[body.id])
       ELSE Refuse

Resolved == body.kind = "jwks" \/ (body.kind = "x5c" /\ Verified(body.proof))

(* resolve_client_public_key, the signature, and the method on the row     *)
(* that was read; the key set is fetched over the network and may fail.    *)
ResolveKey ==
  LET passes == Resolved /\ work.row.method = "private_key_jwt" IN
  /\ At("key")
  /\ \/ passes /\ Accept(work.client)
     \/ passes /\ body.kind = "jwks" /\ Refuse
     \/ ~passes /\ Refuse

(* self_signed_tls_client_auth: one query, for the fingerprint.            *)
ReadPinnedClient ==
  /\ At("self_signed")
  /\ \/ \E c \in Clients :
          /\ QueryClient(c, "self_signed_tls_client_auth")
          /\ client[c].fingerprint = cert
          /\ Accept(c)
     \/ /\ \A c \in Clients : ~ /\ QueryClient(c, "self_signed_tls_client_auth")
                                /\ client[c].fingerprint = cert
        /\ AfterSelfSigned

SecretMethod == IF body.kind = "post" THEN "client_secret_post" ELSE "client_secret_basic"

(* _verify_client_secret: the stored secret may not decrypt.               *)
VerifyClientSecret ==
  /\ At("secret")
  /\ IF ~QueryClient(body.id, SecretMethod) THEN Refuse
     ELSE LET stored == client[body.id].secret IN
          CASE stored.under # loaded -> Go("error", None, None)
            [] stored.under = loaded /\ stored.text = body.proof -> Accept(body.id)
            [] OTHER -> Refuse

Reply == /\ work # None /\ work.at \in Verdicts
         /\ work' = None /\ seen' = None
         /\ UNCHANGED <<registry, loaded, commands>>

-----------------------------------------------------------------------------
Administer ==
  \/ \E c \in Clients, m \in Methods, s \in Secrets \cup {None}, f \in Certs \cup {None} :
       AddClient(c, m, s, f)
  \/ \E c \in Clients : RevokeClient(c)
  \/ \E c \in Clients, f \in Certs : UpdateClientCert(c, f)
  \/ \E c \in Clients, s \in Secrets : RotateClientSecret(c, s)
  \/ \E n \in CANames, k \in Keys : AddCA(n, k)
  \/ \E n \in CANames : RevokeCA(n)
  \/ ReplaceSecretKey
  \/ \E f \in Certs : Expire(f)

Authenticate ==
  \/ \E r \in Requests : Receive(r)
  \/ ReadCAs \/ ReadNamedClient
  \/ ReadAssertedClient \/ ResolveKey
  \/ ReadPinnedClient \/ VerifyClientSecret
  \/ Reply

Next == Administer \/ Restart \/ Authenticate

Spec == Init /\ [][Next]_vars

-----------------------------------------------------------------------------
(* Every variable has its type, and a client of a secret method has one.   *)
TypeOK ==
  /\ client \in [Clients -> ClientRow \cup {None}]
  /\ \A c \in Clients : client[c] # None =>
       (client[c].method \in SecretMethods => client[c].secret # None)
  /\ ca \in [CANames -> CARow \cup {None}]
  /\ expired \subseteq Certs
  /\ commands \in 0 .. MaxCommands
  /\ config \in 0 .. commands /\ loaded \in 0 .. config
  /\ work \in Work \cup {None}
  /\ seen \in Seen \cup {None}

(* The credentials in request r are those that the code asks of a client   *)
(* with client c's row, where `trusted' are the keys of the CAs and `old'  *)
(* has expired.  For tls_client_auth the certificate has to name c; for    *)
(* private_key_jwt with x5c it may name anyone (_key_from_x5c,             *)
(* grants.py:207-209, looks at the CA alone).  The validity of a pinned    *)
(* certificate is not looked at, and no assertion reaches the              *)
(* authenticator of client_secret_jwt.                                     *)
Matches(r, c, row, trusted, old) ==
  CASE row.method = "tls_client_auth" ->
         /\ r.cert # None /\ r.cert.cn = c
         /\ r.cert.key \in trusted /\ r.cert \notin old
    [] row.method = "self_signed_tls_client_auth" ->
         r.cert # None /\ r.cert = row.fingerprint
    [] row.method = "private_key_jwt" ->
         /\ r.body # None /\ r.body.id = c
         /\ \/ r.body.kind = "jwks"
            \/ r.body.kind = "x5c" /\ r.body.proof.key \in trusted /\ r.body.proof \notin old
    [] row.method = "client_secret_post" ->
         r.body = [kind |-> "post", id |-> c, proof |-> row.secret.text]
    [] row.method = "client_secret_basic" ->
         r.body = [kind |-> "basic", id |-> c, proof |-> row.secret.text]
    [] OTHER -> FALSE

(* A request is accepted as a client only on what the client's row and the *)
(* CAs asked for at some moment between its arrival and the verdict: what  *)
(* revoke-client, revoke-ca, rotate-client-secret, update-client-cert and  *)
(* a new add-client ended before the request arrived never gets it         *)
(* through, nor does a certificate of a CA that had expired by then.  That *)
(* the certificate in an assertion is the client's own is not part of it,  *)
(* as the code does not ask for that.                                      *)
AcceptedOnRecord ==
  At("accepted") =>
    \E p \in seen.rows : /\ p[1] = work.client
                         /\ p[2].active
                         /\ Matches(work.request, p[1], p[2], seen.trusted, seen.expired)

(* The credentials on record now.  An assertion stands alone, it hides a   *)
(* pinned certificate; a secret must be stored under the SECRET_KEY that    *)
(* the service has loaded.                                                 *)
Entitled(r) ==
  \E c \in Clients :
    /\ client[c] # None /\ client[c].active
    /\ Matches(r, c, client[c], Trusted, expired)
    /\ client[c].method = "self_signed_tls_client_auth"
         => ~Carries({"x5c", "jwks", "hs256"})
    /\ client[c].method \in SecretMethods => client[c].secret.under = loaded

(* While no command intervenes, a request with the credentials on record   *)
(* is not turned away, whatever else it carries, unless the key set they   *)
(* are in is out of reach: after the SECRET_KEY is replaced and the service *)
(* restarted, rotate-client-secret or add-client is enough to let a client *)
(* in again (security.py:127, cli.py:576).                                 *)
EntitledAccepted ==
  At("refused") \/ At("error") =>
    seen.changed \/ Carries({"jwks"}) \/ ~Entitled(work.request)
=============================================================================
