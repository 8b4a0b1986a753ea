------------------------- MODULE ClientAuth_proofs -------------------------
(***************************************************************************)
(* What the authentication of a client at POST /token guarantees, for any  *)
(* number of clients, CAs, keys and commands.  A request decides over      *)
(* several queries while commands change the registry, so what it has      *)
(* found is related to the registry's history since it arrived (Watched,   *)
(* Passed) and, as long as no command has intervened, to the registry as   *)
(* it is (Exhausted: which authenticators have rightly given up).          *)
(***************************************************************************)
EXTENDS ClientAuth, TLAPS

AssertionKinds == {"x5c", "jwks", "hs256"}

(* The client that tls_client_auth would find for the request now.          *)
Named == cert # None /\ Verified(cert) /\ QueryClient(cert.cn, "tls_client_auth")

(* A client that self_signed_tls_client_auth would find.                    *)
Pinned == cert # None /\ \E c \in Clients :
                            /\ QueryClient(c, "self_signed_tls_client_auth")
                            /\ client[c].fingerprint = cert

(* The history of a request covers the registry as it is.                   *)
Watched == work # None =>
             /\ seen # None
             /\ Trusted \subseteq seen.trusted
             /\ Rows \subseteq seen.rows
             /\ seen.expired \subseteq expired

(* What the queries behind a request have found was on record.              *)
Passed ==
  /\ At("mtls client") => /\ cert # None
                          /\ cert.key \in seen.trusted
                          /\ cert \notin seen.expired
  /\ At("assertion") \/ At("key") => Carries(AssertionKinds)
  /\ At("key") => /\ work.client = body.id
                  /\ <<work.client, work.row>> \in seen.rows
                  /\ work.row.active
  /\ At("self_signed") => cert # None /\ ~Carries(AssertionKinds)
  /\ At("secret") => Carries({"post", "basic"})

(* Without a command, the authenticators behind a request would still find  *)
(* no client.                                                               *)
Exhausted ==
  (work # None /\ ~seen.changed) =>
    /\ work.at \in {"assertion", "key", "self_signed", "secret"} => ~Named
    /\ At("secret") => ~Pinned
    /\ At("key") => client[work.client] = work.row

IInv == /\ TypeOK /\ Watched /\ Passed /\ Exhausted
        /\ AcceptedOnRecord /\ EntitledAccepted

-----------------------------------------------------------------------------
(* The shapes of what a request and the tables hold.                        *)

LEMMA WorkFields ==
  ASSUME TypeOK, work # None
  PROVE  /\ work \in Work
         /\ work.request \in Requests
         /\ cert \in Certs \cup {None}
         /\ body \in Bodies \cup {None}
         /\ work.at \in Stages \cup Verdicts
         /\ work.client \in Clients \cup {None}
         /\ work.row \in ClientRow \cup {None}
BY DEF TypeOK, Work, Requests, cert, body

LEMMA CertFields ==
  ASSUME NEW f \in Certs
  PROVE  f # None /\ f.cn \in Clients /\ f.key \in Keys
BY NoRowAssumption DEF Certs

LEMMA BodyFields ==
  ASSUME NEW b \in Bodies
  PROVE  /\ b # None
         /\ b.kind \in {"x5c", "jwks", "hs256", "post", "basic"}
         /\ b.id \in Clients
         /\ b.kind = "x5c" => b.proof \in Certs
         /\ b.kind \in {"hs256", "post", "basic"} => b.proof \in Secrets
BY NoRowAssumption DEF Bodies

(* A secret sent by post or basic is a pair of a client and a text.         *)
LEMMA SecretBody ==
  ASSUME NEW b \in Bodies, NEW k \in {"post", "basic"}, NEW c, NEW s
  PROVE  b = [kind |-> k, id |-> c, proof |-> s]
           <=> b.kind = k /\ b.id = c /\ b.proof = s
<1>1. CASE b.kind = k
  <2>1. b \in [kind : {"hs256", "post", "basic"}, id : Clients, proof : Secrets]
    BY <1>1 DEF Bodies
  <2> QED
    BY <2>1
<1>2. CASE b.kind # k
  BY <1>2
<1> QED
  BY <1>1, <1>2

LEMMA RowFields ==
  ASSUME TypeOK, NEW c \in Clients, client[c] # None
  PROVE  /\ client[c] \in ClientRow
         /\ client[c].method \in Methods
         /\ client[c].active \in BOOLEAN
         /\ client[c].fingerprint \in Certs \cup {None}
         /\ client[c].method \in SecretMethods => client[c].secret \in Encrypted
         /\ <<c, client[c]>> \in Rows
BY DEF TypeOK, ClientRow, Rows

LEMMA TrustedTyped ==
  ASSUME NEW t \in [CANames -> CARow \cup {None}]
  PROVE  {t[n].key : n \in {m \in CANames : t[m] # None /\ t[m].active}} \subseteq Keys
BY DEF CARow

LEMMA RowsTyped ==
  ASSUME NEW t \in [Clients -> ClientRow \cup {None}]
  PROVE  {<<c, t[c]>> : c \in {d \in Clients : t[d] # None}} \subseteq Clients \X ClientRow
OBVIOUS

LEMMA SeenFields ==
  ASSUME TypeOK, work # None, Watched
  PROVE  /\ seen \in Seen
         /\ seen.trusted \subseteq Keys
         /\ seen.rows \subseteq Clients \X ClientRow
         /\ seen.expired \subseteq Certs
         /\ seen.changed \in BOOLEAN
BY DEF TypeOK, Watched, Seen

-----------------------------------------------------------------------------
(* What it takes for credentials to match a row, method by method.          *)

LEMMA MatchesTls ==
  ASSUME NEW r, NEW c, NEW row, NEW trusted, NEW old,
         row.method = "tls_client_auth"
  PROVE  Matches(r, c, row, trusted, old)
           <=> /\ r.cert # None /\ r.cert.cn = c
               /\ r.cert.key \in trusted /\ r.cert \notin old
BY DEF Matches

LEMMA MatchesSelfSigned ==
  ASSUME NEW r, NEW c, NEW row, NEW trusted, NEW old,
         row.method = "self_signed_tls_client_auth"
  PROVE  Matches(r, c, row, trusted, old) <=> r.cert # None /\ r.cert = row.fingerprint
BY DEF Matches

LEMMA MatchesAssertion ==
  ASSUME NEW r, NEW c, NEW row, NEW trusted, NEW old,
         row.method = "private_key_jwt"
  PROVE  Matches(r, c, row, trusted, old)
           <=> /\ r.body # None /\ r.body.id = c
               /\ \/ r.body.kind = "jwks"
                  \/ /\ r.body.kind = "x5c"
                     /\ r.body.proof.key \in trusted /\ r.body.proof \notin old
BY DEF Matches

LEMMA MatchesSecret ==
  ASSUME NEW r, NEW c \in Clients, NEW row, NEW trusted, NEW old,
         row.secret.text \in Secrets,
         row.method \in {"client_secret_post", "client_secret_basic"},
         r.body \in Bodies \cup {None}
  PROVE  Matches(r, c, row, trusted, old)
           <=> /\ r.body # None /\ r.body.id = c
               /\ r.body.kind = IF row.method = "client_secret_post" THEN "post" ELSE "basic"
               /\ r.body.proof = row.secret.text
<1> DEFINE k == IF row.method = "client_secret_post" THEN "post" ELSE "basic"
<1>1. k \in {"post", "basic"}
  OBVIOUS
<1>2. Matches(r, c, row, trusted, old)
        <=> r.body = [kind |-> k, id |-> c, proof |-> row.secret.text]
  BY DEF Matches
<1>3. [kind |-> k, id |-> c, proof |-> row.secret.text] \in Bodies
  BY <1>1 DEF Bodies
<1> QED
  BY <1>1, <1>2, <1>3, SecretBody, BodyFields

LEMMA MatchesNothing ==
  ASSUME NEW r, NEW c, NEW row, NEW trusted, NEW old,
         row.method = "client_secret_jwt"
  PROVE  ~Matches(r, c, row, trusted, old)
BY DEF Matches

(* A CA that is trusted in addition lets nothing stop matching.             *)
LEMMA StillMatches ==
  ASSUME NEW r, NEW c, NEW row \in ClientRow, NEW old, NEW trusted, NEW more,
         Matches(r, c, row, trusted, old)
  PROVE  Matches(r, c, row, trusted \cup more, old)
<1>1. CASE row.method = "tls_client_auth"
  BY <1>1, MatchesTls
<1>2. CASE row.method = "private_key_jwt"
  BY <1>2, MatchesAssertion
<1>3. CASE row.method \notin {"tls_client_auth", "private_key_jwt"}
  BY <1>3 DEF Matches
<1> QED
  BY <1>1, <1>2, <1>3

-----------------------------------------------------------------------------
(* The clients the other two authenticators would find.                     *)
Asserted == /\ body # None /\ client[body.id] # None /\ client[body.id].active
            /\ client[body.id].method = "private_key_jwt"
            /\ Resolved

SecretKnown == /\ Carries({"post", "basic"})
               /\ QueryClient(body.id, SecretMethod)
               /\ client[body.id].secret.text = body.proof
               /\ client[body.id].secret.under = loaded

(* The credentials on record are those some authenticator looks for.        *)
LEMMA EntitledCases ==
  ASSUME TypeOK, work # None, Entitled(work.request)
  PROVE  \/ Named
         \/ Pinned /\ ~Carries(AssertionKinds)
         \/ Asserted
         \/ SecretKnown
<1>1. PICK c \in Clients :
        /\ client[c] # None /\ client[c].active
        /\ Matches(work.request, c, client[c], Trusted, expired)
        /\ client[c].method = "self_signed_tls_client_auth" => ~Carries(AssertionKinds)
        /\ client[c].method \in SecretMethods => client[c].secret.under = loaded
  BY DEF Entitled, AssertionKinds
<1>2. client[c].method \in Methods
  BY <1>1, RowFields
<1>3. CASE client[c].method = "tls_client_auth"
  <2>1. /\ cert # None /\ cert.cn = c
        /\ cert.key \in Trusted /\ cert \notin expired
    BY <1>1, <1>3, MatchesTls DEF cert
  <2> QED
    BY <1>1, <1>3, <2>1 DEF Named, Verified, QueryClient
<1>4. CASE client[c].method = "self_signed_tls_client_auth"
  <2>1. cert # None /\ cert = client[c].fingerprint
    BY <1>1, <1>4, MatchesSelfSigned DEF cert
  <2> QED
    BY <1>1, <1>4, <2>1 DEF Pinned, QueryClient
<1>5. CASE client[c].method = "private_key_jwt"
  <2>1. /\ body # None /\ body.id = c
        /\ \/ body.kind = "jwks"
           \/ body.kind = "x5c" /\ body.proof.key \in Trusted /\ body.proof \notin expired
    BY <1>1, <1>5, MatchesAssertion DEF body
  <2> QED
    BY <1>1, <1>5, <2>1 DEF Asserted, Resolved, Verified
<1>6. CASE client[c].method \in {"client_secret_post", "client_secret_basic"}
  <2>1. client[c].secret.text \in Secrets
    BY <1>1, <1>6, RowFields DEF SecretMethods, Encrypted
  <2>2. work.request.body \in Bodies \cup {None}
    BY WorkFields DEF body
  <2>3. /\ body # None /\ body.id = c
        /\ body.kind = IF client[c].method = "client_secret_post" THEN "post" ELSE "basic"
        /\ body.proof = client[c].secret.text
    BY <1>1, <1>6, <2>1, <2>2, MatchesSecret DEF body
  <2> QED
    BY <1>1, <1>6, <2>3 DEF SecretKnown, Carries, QueryClient, SecretMethod, SecretMethods
<1>7. CASE client[c].method = "client_secret_jwt"
  BY <1>1, <1>7, MatchesNothing
<1> QED
  BY <1>2, <1>3, <1>4, <1>5, <1>6, <1>7 DEF Methods, SecretMethods

-----------------------------------------------------------------------------
(* A step of the request changes its stage and what it found, nothing else. *)
LEMMA GoEffect ==
  ASSUME TypeOK, work # None,
         NEW s \in Stages \cup Verdicts, NEW c \in Clients \cup {None},
         NEW row \in ClientRow \cup {None},
         Go(s, c, row)
  PROVE  /\ TypeOK'
         /\ work' # None /\ work'.at = s /\ work'.client = c /\ work'.row = row
         /\ work'.request = work.request
         /\ UNCHANGED <<client, ca, config, expired, loaded, commands, seen, cert, body>>
         /\ UNCHANGED <<Trusted, Rows>>
<1>1. /\ work' = [work EXCEPT !.at = s, !.client = c, !.row = row]
      /\ UNCHANGED <<client, ca, config, expired, loaded, commands, seen>>
  BY DEF Go, registry
<1>2. work \in Work
  BY WorkFields
<1>3. /\ work' \in Work
      /\ work'.at = s /\ work'.client = c /\ work'.row = row
      /\ work'.request = work.request
  BY <1>1, <1>2 DEF Work
<1>4. work' # None
  BY <1>3, NoRowAssumption
<1>5. UNCHANGED <<cert, body>>
  BY <1>3 DEF cert, body
<1>6. UNCHANGED <<Trusted, Rows>>
  BY <1>1 DEF Trusted, Rows
<1>7. TypeOK'
  BY <1>1, <1>3 DEF TypeOK
<1> QED
  BY <1>1, <1>3, <1>4, <1>5, <1>6, <1>7

(* What the history covers, it covers after the step.                       *)
LEMMA GoWatched ==
  ASSUME TypeOK, Watched, work # None,
         NEW s \in Stages \cup Verdicts, NEW c \in Clients \cup {None},
         NEW row \in ClientRow \cup {None},
         Go(s, c, row)
  PROVE  Watched'
BY GoEffect DEF Watched

LEMMA GoRefuse ==
  ASSUME IInv, work # None, Refuse,
         seen.changed \/ Carries({"jwks"}) \/ ~Entitled(work.request)
  PROVE  IInv'
<1>1. Go("refused", None, None)
  BY DEF Refuse
<1>2. /\ TypeOK' /\ Watched'
      /\ work' # None /\ work'.at = "refused" /\ work'.request = work.request
      /\ UNCHANGED <<client, ca, expired, loaded, seen, body, Trusted>>
  BY <1>1, GoEffect, GoWatched DEF IInv, Stages, Verdicts
<1>3. Passed' /\ Exhausted' /\ AcceptedOnRecord'
  BY <1>2 DEF Passed, Exhausted, AcceptedOnRecord, At
<1>4. EntitledAccepted'
  BY <1>2 DEF EntitledAccepted, Entitled, Carries
<1> QED
  BY <1>2, <1>3, <1>4 DEF IInv

LEMMA GoError ==
  ASSUME IInv, work # None, Go("error", None, None),
         seen.changed \/ ~Entitled(work.request)
  PROVE  IInv'
<1>1. /\ TypeOK' /\ Watched'
      /\ work' # None /\ work'.at = "error" /\ work'.request = work.request
      /\ UNCHANGED <<client, ca, expired, loaded, seen, body, Trusted>>
  BY GoEffect, GoWatched DEF IInv, Stages, Verdicts
<1>2. Passed' /\ Exhausted' /\ AcceptedOnRecord'
  BY <1>1 DEF Passed, Exhausted, AcceptedOnRecord, At
<1>3. EntitledAccepted'
  BY <1>1 DEF EntitledAccepted, Entitled, Carries
<1> QED
  BY <1>1, <1>2, <1>3 DEF IInv

LEMMA GoAccept ==
  ASSUME IInv, work # None, NEW c \in Clients, Accept(c),
         NEW row \in ClientRow, <<c, row>> \in seen.rows, row.active,
         Matches(work.request, c, row, seen.trusted, seen.expired)
  PROVE  IInv'
<1>1. Go("accepted", c, None)
  BY DEF Accept
<1>2. /\ TypeOK' /\ Watched'
      /\ work' # None /\ work'.at = "accepted" /\ work'.client = c
      /\ work'.request = work.request
      /\ UNCHANGED <<client, ca, expired, loaded, seen, body, Trusted>>
  BY <1>1, GoEffect, GoWatched DEF IInv, Stages, Verdicts
<1>3. Passed' /\ Exhausted' /\ EntitledAccepted'
  BY <1>2 DEF Passed, Exhausted, EntitledAccepted, At
<1>4. AcceptedOnRecord'
  <2> DEFINE p == <<c, row>>
  <2>1. p[1] = c /\ p[2] = row
    OBVIOUS
  <2>2. p \in seen'.rows /\ p[1] = work'.client /\ p[2].active
        /\ Matches(work'.request, p[1], p[2], seen'.trusted, seen'.expired)
    BY <1>2, <2>1
  <2> QED
    BY <2>2 DEF AcceptedOnRecord
<1> QED
  BY <1>2, <1>3, <1>4 DEF IInv

(* An authenticator that looks at the certificate or the secret comes next. *)
LEMMA GoOn ==
  ASSUME IInv, work # None, NEW s \in {"mtls client", "assertion", "self_signed", "secret"},
         Go(s, None, None),
         s = "mtls client" => /\ cert # None
                              /\ cert.key \in seen.trusted /\ cert \notin seen.expired,
         s = "assertion" => Carries(AssertionKinds),
         s = "self_signed" => cert # None /\ ~Carries(AssertionKinds),
         s = "secret" => Carries({"post", "basic"}),
         (s # "mtls client" /\ ~seen.changed) => ~Named,
         (s = "secret" /\ ~seen.changed) => ~Pinned
  PROVE  IInv'
<1>1. /\ TypeOK' /\ Watched'
      /\ work' # None /\ work'.at = s /\ work'.request = work.request
      /\ UNCHANGED <<client, ca, expired, loaded, seen, cert, body, Trusted>>
  BY GoEffect, GoWatched DEF IInv, Stages, Verdicts
<1>2. AcceptedOnRecord' /\ EntitledAccepted'
  BY <1>1 DEF AcceptedOnRecord, EntitledAccepted, At
<1>3. Passed'
  BY <1>1 DEF Passed, At, Carries
<1>4. UNCHANGED <<Named, Pinned>>
  BY <1>1 DEF Named, Pinned, Verified, QueryClient
<1>5. Exhausted'
  BY <1>1, <1>4 DEF Exhausted, At
<1> QED
  BY <1>1, <1>2, <1>3, <1>5 DEF IInv

LEMMA GoKey ==
  ASSUME IInv, work # None, Carries(AssertionKinds),
         client[body.id] # None, client[body.id].active,
         ~seen.changed => ~Named,
         Go("key", body.id, client[body.id])
  PROVE  IInv'
<1>1. body.id \in Clients
  BY WorkFields, BodyFields DEF IInv, Carries
<1>2. client[body.id] \in ClientRow /\ <<body.id, client[body.id]>> \in Rows
  BY <1>1, RowFields DEF IInv
<1>3. /\ TypeOK' /\ Watched'
      /\ work' # None /\ work'.at = "key" /\ work'.request = work.request
      /\ work'.client = body.id /\ work'.row = client[body.id]
      /\ UNCHANGED <<client, ca, expired, loaded, seen, cert, body, Trusted>>
  BY <1>1, <1>2, GoEffect, GoWatched DEF IInv, Stages, Verdicts
<1>4. AcceptedOnRecord' /\ EntitledAccepted'
  BY <1>3 DEF AcceptedOnRecord, EntitledAccepted, At
<1>5. Passed'
  <2>1. <<work'.client, work'.row>> \in seen'.rows
    BY <1>2, <1>3 DEF IInv, Watched
  <2> QED
    BY <1>3, <2>1 DEF Passed, At, Carries
<1>6. UNCHANGED Named
  BY <1>3 DEF Named, Verified, QueryClient
<1>7. Exhausted'
  BY <1>3, <1>6 DEF Exhausted, At
<1> QED
  BY <1>3, <1>4, <1>5, <1>7 DEF IInv

-----------------------------------------------------------------------------
(* Passing on to the next authenticator is right once those behind it would *)
(* find no client.                                                          *)
LEMMA AfterSelfSignedStep ==
  ASSUME IInv, work # None, AfterSelfSigned,
         ~seen.changed => ~Named /\ ~Pinned,
         ~Carries(AssertionKinds)
  PROVE  IInv'
<1>1. CASE Carries({"post", "basic"})
  BY <1>1, GoOn DEF AfterSelfSigned
<1>2. CASE ~Carries({"post", "basic"})
  <2>1. seen.changed \/ ~Entitled(work.request)
    <3> SUFFICES ASSUME ~seen.changed, Entitled(work.request) PROVE FALSE
      OBVIOUS
    <3>1. ~Asserted /\ ~SecretKnown
      BY <1>2 DEF Asserted, Resolved, SecretKnown, Carries, AssertionKinds
    <3> QED
      BY <3>1, EntitledCases DEF IInv
  <2>2. Refuse
    BY <1>2 DEF AfterSelfSigned
  <2> QED
    BY <2>1, <2>2, GoRefuse
<1> QED
  BY <1>1, <1>2

LEMMA AfterMtlsStep ==
  ASSUME IInv, work # None, AfterMtls, ~seen.changed => ~Named
  PROVE  IInv'
<1>1. CASE Carries(AssertionKinds)
  <2>1. Go("assertion", None, None)
    BY <1>1 DEF AfterMtls, AssertionKinds
  <2> QED
    BY <1>1, <2>1, GoOn
<1>2. CASE ~Carries(AssertionKinds) /\ cert # None
  <2>1. Go("self_signed", None, None)
    BY <1>2 DEF AfterMtls, AssertionKinds
  <2> QED
    BY <1>2, <2>1, GoOn
<1>3. CASE ~Carries(AssertionKinds) /\ cert = None
  <2>1. AfterSelfSigned
    BY <1>3 DEF AfterMtls, AssertionKinds
  <2>2. ~Pinned
    BY <1>3 DEF Pinned
  <2> QED
    BY <1>3, <2>1, <2>2, AfterSelfSignedStep
<1> QED
  BY <1>1, <1>2, <1>3

-----------------------------------------------------------------------------
(* The steps of a request.                                                  *)

LEMMA NextReceive ==
  ASSUME IInv, NEW r \in Requests, Receive(r)
  PROVE  IInv'
<1>1. /\ work' = [request |-> r, at |-> "mtls", client |-> None, row |-> None]
      /\ seen' = [trusted |-> Trusted, rows |-> Rows, expired |-> expired, changed |-> FALSE]
      /\ UNCHANGED <<client, ca, config, expired, loaded, commands>>
  BY DEF Receive, registry
<1>2. work' \in Work /\ work'.at = "mtls"
  BY <1>1 DEF Work, Stages
<1>3. seen' \in Seen
  <2>1. Trusted \subseteq Keys
    BY TrustedTyped DEF IInv, TypeOK, Trusted
  <2>2. Rows \subseteq Clients \X ClientRow
    BY RowsTyped DEF IInv, TypeOK, Rows
  <2> QED
    BY <1>1, <2>1, <2>2 DEF IInv, TypeOK, Seen
<1>4. TypeOK'
  BY <1>1, <1>2, <1>3 DEF IInv, TypeOK
<1>5. UNCHANGED <<Trusted, Rows>>
  BY <1>1 DEF Trusted, Rows
<1>6. Watched'
  BY <1>1, <1>3, <1>5, NoHistoryAssumption DEF Watched
<1>7. Passed' /\ Exhausted' /\ AcceptedOnRecord' /\ EntitledAccepted'
  BY <1>2 DEF Passed, Exhausted, AcceptedOnRecord, EntitledAccepted, At
<1> QED
  BY <1>4, <1>6, <1>7 DEF IInv

LEMMA NextReadCAs == IInv /\ ReadCAs => IInv'
<1> SUFFICES ASSUME IInv, ReadCAs PROVE IInv'
  OBVIOUS
<1>1. work # None
  BY DEF ReadCAs, At
<1>2. CASE cert # None /\ Verified(cert)
  <2>1. Go("mtls client", None, None)
    BY <1>2 DEF ReadCAs
  <2>2. cert.key \in seen.trusted /\ cert \notin seen.expired
    BY <1>1, <1>2 DEF IInv, Watched, Verified
  <2> QED
    BY <1>1, <1>2, <2>1, <2>2, GoOn
<1>3. CASE ~(cert # None /\ Verified(cert))
  <2>1. AfterMtls /\ ~Named
    BY <1>3 DEF ReadCAs, Named
  <2> QED
    BY <1>1, <2>1, AfterMtlsStep
<1> QED
  BY <1>2, <1>3

LEMMA NextReadNamedClient == IInv /\ ReadNamedClient => IInv'
<1> SUFFICES ASSUME IInv, ReadNamedClient PROVE IInv'
  OBVIOUS
<1>1. work # None /\ At("mtls client")
  BY DEF ReadNamedClient, At
<1>2. cert # None /\ cert.key \in seen.trusted /\ cert \notin seen.expired
  BY <1>1 DEF IInv, Passed
<1>3. cert.cn \in Clients
  BY <1>1, <1>2, WorkFields, CertFields DEF IInv
<1>4. CASE QueryClient(cert.cn, "tls_client_auth")
  <2>1. client[cert.cn] # None /\ client[cert.cn].active
        /\ client[cert.cn].method = "tls_client_auth"
    BY <1>4 DEF QueryClient
  <2>2. client[cert.cn] \in ClientRow /\ <<cert.cn, client[cert.cn]>> \in seen.rows
    BY <1>1, <1>3, <2>1, RowFields DEF IInv, Watched
  <2>3. Matches(work.request, cert.cn, client[cert.cn], seen.trusted, seen.expired)
    BY <1>2, <2>1, MatchesTls DEF cert
  <2>4. Accept(cert.cn)
    BY <1>4 DEF ReadNamedClient
  <2> QED
    BY <1>1, <1>3, <2>1, <2>2, <2>3, <2>4, GoAccept
<1>5. CASE ~QueryClient(cert.cn, "tls_client_auth")
  <2>1. AfterMtls /\ ~Named
    BY <1>5 DEF ReadNamedClient, Named
  <2> QED
    BY <1>1, <2>1, AfterMtlsStep
<1> QED
  BY <1>4, <1>5

LEMMA NextReadAssertedClient == IInv /\ ReadAssertedClient => IInv'
<1> SUFFICES ASSUME IInv, ReadAssertedClient PROVE IInv'
  OBVIOUS
<1>1. work # None /\ At("assertion") /\ work.at = "assertion"
  BY DEF ReadAssertedClient, At
<1>2. Carries(AssertionKinds) /\ (~seen.changed => ~Named)
  BY <1>1 DEF IInv, Passed, Exhausted
<1>3. CASE client[body.id] # None /\ client[body.id].active
  <2>1. Go("key", body.id, client[body.id])
    BY <1>3 DEF ReadAssertedClient
  <2> QED
    BY <1>1, <1>2, <1>3, <2>1, GoKey
<1>4. CASE ~(client[body.id] # None /\ client[body.id].active)
  <2>1. Refuse
    BY <1>4 DEF ReadAssertedClient
  <2>2. ~Asserted /\ ~SecretKnown
    BY <1>2, <1>4 DEF Asserted, SecretKnown, Carries, AssertionKinds
  <2>3. seen.changed \/ ~Entitled(work.request)
    BY <1>1, <1>2, <2>2, EntitledCases DEF IInv
  <2> QED
    BY <1>1, <2>1, <2>3, GoRefuse
<1> QED
  BY <1>3, <1>4

LEMMA NextResolveKey == IInv /\ ResolveKey => IInv'
<1> SUFFICES ASSUME IInv, ResolveKey PROVE IInv'
  OBVIOUS
<1> DEFINE passes == Resolved /\ work.row.method = "private_key_jwt"
<1>1. work # None /\ At("key") /\ work.at = "key"
  BY DEF ResolveKey, At
<1>2. /\ Carries(AssertionKinds)
      /\ work.client = body.id
      /\ <<work.client, work.row>> \in seen.rows
      /\ work.row.active
      /\ ~seen.changed => ~Named /\ client[work.client] = work.row
  BY <1>1 DEF IInv, Passed, Exhausted
<1>3. work.client \in Clients /\ work.row \in ClientRow
  BY <1>1, <1>2, SeenFields DEF IInv
<1>4. CASE passes /\ Accept(work.client)
  <2>1. \/ body.kind = "jwks"
        \/ body.kind = "x5c" /\ body.proof.key \in seen.trusted /\ body.proof \notin seen.expired
    BY <1>1, <1>4 DEF Resolved, Verified, IInv, Watched
  <2>2. Matches(work.request, work.client, work.row, seen.trusted, seen.expired)
    BY <1>2, <1>4, <2>1, MatchesAssertion DEF body, Carries
  <2> QED
    BY <1>1, <1>2, <1>3, <1>4, <2>2, GoAccept
<1>5. CASE passes /\ body.kind = "jwks" /\ Refuse
  BY <1>1, <1>2, <1>5, GoRefuse DEF Carries
<1>6. CASE ~passes /\ Refuse
  <2>1. seen.changed \/ ~Entitled(work.request)
    <3> SUFFICES ASSUME ~seen.changed, Entitled(work.request) PROVE FALSE
      OBVIOUS
    <3>1. ~Asserted
      BY <1>2, <1>6 DEF Asserted
    <3>2. ~SecretKnown
      BY <1>2 DEF SecretKnown, Carries, AssertionKinds
    <3> QED
      BY <1>1, <1>2, <3>1, <3>2, EntitledCases DEF IInv
  <2> QED
    BY <1>1, <1>6, <2>1, GoRefuse
<1> QED
  BY <1>4, <1>5, <1>6 DEF ResolveKey

LEMMA NextReadPinnedClient == IInv /\ ReadPinnedClient => IInv'
<1> SUFFICES ASSUME IInv, ReadPinnedClient PROVE IInv'
  OBVIOUS
<1>1. work # None /\ At("self_signed") /\ work.at = "self_signed"
  BY DEF ReadPinnedClient, At
<1>2. cert # None /\ ~Carries(AssertionKinds) /\ (~seen.changed => ~Named)
  BY <1>1 DEF IInv, Passed, Exhausted
<1>3. ASSUME NEW c \in Clients,
             QueryClient(c, "self_signed_tls_client_auth"),
             client[c].fingerprint = cert,
             Accept(c)
      PROVE  IInv'
  <2>1. client[c] # None /\ client[c].active
        /\ client[c].method = "self_signed_tls_client_auth"
    BY <1>3 DEF QueryClient
  <2>2. client[c] \in ClientRow /\ <<c, client[c]>> \in seen.rows
    BY <1>1, <2>1, RowFields DEF IInv, Watched
  <2>3. Matches(work.request, c, client[c], seen.trusted, seen.expired)
    BY <1>2, <1>3, <2>1, MatchesSelfSigned DEF cert
  <2> QED
    BY <1>1, <1>3, <2>1, <2>2, <2>3, GoAccept
<1>4. CASE /\ \A c \in Clients : ~ /\ QueryClient(c, "self_signed_tls_client_auth")
                                   /\ client[c].fingerprint = cert
           /\ AfterSelfSigned
  <2>1. ~Pinned
    BY <1>4 DEF Pinned
  <2> QED
    BY <1>1, <1>2, <1>4, <2>1, AfterSelfSignedStep
<1> QED
  BY <1>3, <1>4 DEF ReadPinnedClient

LEMMA NextVerifyClientSecret == IInv /\ VerifyClientSecret => IInv'
<1> SUFFICES ASSUME IInv, VerifyClientSecret PROVE IInv'
  OBVIOUS
<1>1. work # None /\ At("secret") /\ work.at = "secret"
  BY DEF VerifyClientSecret, At
<1>2. Carries({"post", "basic"}) /\ (~seen.changed => ~Named /\ ~Pinned)
  BY <1>1 DEF IInv, Passed, Exhausted
<1>3. body \in Bodies /\ body # None /\ body.id \in Clients /\ body.kind \in {"post", "basic"}
  BY <1>1, <1>2, WorkFields, BodyFields DEF IInv, Carries
<1>4. ASSUME ~SecretKnown
      PROVE  seen.changed \/ ~Entitled(work.request)
  BY <1>1, <1>2, <1>3, <1>4, EntitledCases DEF IInv, Asserted, Resolved
<1>5. CASE ~QueryClient(body.id, SecretMethod)
  <2>1. Refuse /\ ~SecretKnown
    BY <1>5 DEF VerifyClientSecret, SecretKnown
  <2> QED
    BY <1>1, <1>4, <2>1, GoRefuse
<1>6. CASE QueryClient(body.id, SecretMethod)
  <2> DEFINE stored == client[body.id].secret
  <2>1. CASE stored.under # loaded
    <3>1. Go("error", None, None) /\ ~SecretKnown
      BY <1>6, <2>1 DEF VerifyClientSecret, SecretKnown
    <3> QED
      BY <1>1, <1>4, <3>1, GoError
  <2>2. CASE stored.under = loaded /\ stored.text = body.proof
    <3>1. Accept(body.id)
      BY <1>6, <2>2 DEF VerifyClientSecret
    <3>2. /\ client[body.id] # None /\ client[body.id].active
          /\ client[body.id].method = SecretMethod
      BY <1>6 DEF QueryClient
    <3>3. client[body.id] \in ClientRow /\ <<body.id, client[body.id]>> \in seen.rows
      BY <1>1, <1>3, <3>2, RowFields DEF IInv, Watched
    <3>4. Matches(work.request, body.id, client[body.id], seen.trusted, seen.expired)
      <4>1. client[body.id].method \in {"client_secret_post", "client_secret_basic"}
        BY <3>2 DEF SecretMethod
      <4>2. stored.text \in Secrets
        BY <1>3, <2>2, BodyFields
      <4>3. work.request.body \in Bodies \cup {None}
        BY <1>3 DEF body
      <4>4. /\ work.request.body # None
            /\ work.request.body.id = body.id
            /\ work.request.body.kind = body.kind
            /\ work.request.body.proof = stored.text
        BY <1>3, <2>2 DEF body
      <4>5. body.kind = IF client[body.id].method = "client_secret_post"
                          THEN "post" ELSE "basic"
        BY <1>3, <3>2 DEF SecretMethod
      <4> QED
        BY <1>3, <4>1, <4>2, <4>3, <4>4, <4>5, MatchesSecret
    <3> QED
      BY <1>1, <1>3, <3>1, <3>2, <3>3, <3>4, GoAccept
  <2>3. CASE stored.under = loaded /\ stored.text # body.proof
    <3>1. Refuse /\ ~SecretKnown
      BY <1>6, <2>3 DEF VerifyClientSecret, SecretKnown
    <3> QED
      BY <1>1, <1>4, <3>1, GoRefuse
  <2> QED
    BY <2>1, <2>2, <2>3
<1> QED
  BY <1>5, <1>6

(* The request ends with its answer, or with the service.                   *)
LEMMA Idle ==
  ASSUME TypeOK', work' = None
  PROVE  IInv'
BY DEF IInv, Watched, Passed, Exhausted, AcceptedOnRecord, EntitledAccepted, At

LEMMA NextReply == IInv /\ Reply => IInv'
<1> SUFFICES ASSUME IInv, Reply PROVE IInv'
  OBVIOUS
<1>1. TypeOK' /\ work' = None
  BY DEF Reply, registry, IInv, TypeOK
<1> QED
  BY <1>1, Idle

LEMMA NextRestart == IInv /\ Restart => IInv'
<1> SUFFICES ASSUME IInv, Restart PROVE IInv'
  OBVIOUS
<1>1. TypeOK' /\ work' = None
  BY BoundAssumption DEF Restart, registry, IInv, TypeOK
<1> QED
  BY <1>1, Idle

-----------------------------------------------------------------------------
(* The administrator's commands and the clock.                              *)

(* A command that leaves tables of the right shape, and certificates that   *)
(* have expired expired, changes nothing a request has found.               *)
LEMMA CommandStep ==
  ASSUME IInv, Command,
         client' \in [Clients -> ClientRow \cup {None}],
         \A c \in Clients : client'[c] # None =>
           (client'[c].method \in SecretMethods => client'[c].secret # None),
         ca' \in [CANames -> CARow \cup {None}],
         expired' \subseteq Certs, expired \subseteq expired',
         config' \in {config, config + 1}
  PROVE  IInv'
<1>1. /\ commands' = commands + 1 /\ commands < MaxCommands
      /\ UNCHANGED <<loaded, work>>
      /\ seen' = IF work = None THEN None
                 ELSE [seen EXCEPT !.trusted = @ \cup Trusted', !.rows = @ \cup Rows',
                                   !.changed = TRUE]
  BY DEF Command
<1>2. Trusted' \subseteq Keys
  BY TrustedTyped DEF Trusted
<1>3. Rows' \subseteq Clients \X ClientRow
  BY RowsTyped DEF Rows
<1>4. ASSUME work # None
      PROVE  /\ seen' \in Seen
             /\ seen'.trusted = seen.trusted \cup Trusted'
             /\ seen'.rows = seen.rows \cup Rows'
             /\ seen'.expired = seen.expired
             /\ seen'.changed
  <2>1. seen \in Seen
    BY <1>4, SeenFields DEF IInv
  <2> QED
    BY <1>1, <1>2, <1>3, <1>4, <2>1 DEF Seen
<1>5. TypeOK'
  <2>1. /\ commands' \in 0 .. MaxCommands
        /\ config' \in 0 .. commands' /\ loaded' \in 0 .. config'
    BY <1>1, BoundAssumption DEF IInv, TypeOK
  <2>2. work' \in Work \cup {None} /\ seen' \in Seen \cup {None}
    BY <1>1, <1>4 DEF IInv, TypeOK
  <2> QED
    BY <2>1, <2>2 DEF TypeOK
<1>6. CASE work = None
  BY <1>1, <1>5, <1>6, Idle
<1>7. CASE work # None
  <2>1. UNCHANGED <<work, cert, body>>
    BY <1>1 DEF cert, body
  <2>2. Watched'
    <3>1. seen' # None
      BY <1>4, <1>7, NoHistoryAssumption
    <3>2. seen.expired \subseteq expired
      BY <1>7 DEF IInv, Watched
    <3> QED
      BY <1>4, <1>7, <3>1, <3>2 DEF Watched
  <2>3. Passed'
    BY <1>4, <1>7, <2>1 DEF IInv, Passed, At, Carries
  <2>4. Exhausted' /\ EntitledAccepted'
    BY <1>4, <1>7 DEF Exhausted, EntitledAccepted
  <2>5. AcceptedOnRecord'
    <3> SUFFICES ASSUME At("accepted")
                 PROVE  \E p \in seen'.rows :
                          /\ p[1] = work'.client /\ p[2].active
                          /\ Matches(work'.request, p[1], p[2], seen'.trusted, seen'.expired)
      BY <2>1 DEF AcceptedOnRecord, At
    <3>1. PICK p \in seen.rows :
            /\ p[1] = work.client /\ p[2].active
            /\ Matches(work.request, p[1], p[2], seen.trusted, seen.expired)
      BY DEF IInv, AcceptedOnRecord
    <3>2. p[1] \in Clients /\ p[2] \in ClientRow
      BY <1>7, SeenFields DEF IInv
    <3>3. Matches(work.request, p[1], p[2], seen'.trusted, seen'.expired)
      <4>1. Matches(work.request, p[1], p[2], seen.trusted \cup Trusted', seen.expired)
        BY <3>1, <3>2, StillMatches
      <4> QED
        BY <1>4, <1>7, <4>1
    <3> QED
      BY <1>4, <1>7, <2>1, <3>1, <3>3
  <2> QED
    BY <1>5, <2>2, <2>3, <2>4, <2>5 DEF IInv
<1> QED
  BY <1>6, <1>7

LEMMA NextAddClient ==
  ASSUME IInv, NEW c \in Clients, NEW m \in Methods, NEW s \in Secrets \cup {None},
         NEW f \in Certs \cup {None}, AddClient(c, m, s, f)
  PROVE  IInv'
<1>1. client \in [Clients -> ClientRow \cup {None}]
  BY DEF IInv, TypeOK
<1>2. (client[c] = None \/ client[c].active) \in BOOLEAN
  OBVIOUS
<1>3. /\ StoredSecret(c, m, s) \in Encrypted \cup {None}
      /\ m \in SecretMethods => StoredSecret(c, m, s) # None
  <2>1. CASE m \in SecretMethods
    <3>1. s \in Secrets /\ config \in 0 .. MaxCommands
      BY <2>1, BoundAssumption DEF AddClient, IInv, TypeOK
    <3>2. StoredSecret(c, m, s) = [text |-> s, under |-> config]
      BY <2>1 DEF StoredSecret
    <3>3. StoredSecret(c, m, s) \in Encrypted
      BY <3>1, <3>2 DEF Encrypted
    <3> QED
      BY <3>3, NoRowAssumption
  <2>2. CASE m \notin SecretMethods /\ client[c] # None
    <3>1. client[c] \in ClientRow
      BY <1>1, <2>2
    <3> QED
      BY <2>2, <3>1 DEF StoredSecret, ClientRow
  <2>3. CASE m \notin SecretMethods /\ client[c] = None
    BY <2>3 DEF StoredSecret
  <2> QED
    BY <2>1, <2>2, <2>3
<1> DEFINE row == [method |-> m, fingerprint |-> f, secret |-> StoredSecret(c, m, s),
                   active |-> client[c] = None \/ client[c].active]
<1>4. row \in ClientRow /\ (row.method \in SecretMethods => row.secret # None)
  BY <1>2, <1>3 DEF ClientRow
<1>5. /\ client' = [client EXCEPT ![c] = row]
      /\ UNCHANGED <<ca, config, expired>>
      /\ Command
  BY DEF AddClient
<1> HIDE DEF row
<1> QED
  BY <1>1, <1>4, <1>5, CommandStep DEF IInv, TypeOK

LEMMA NextRevokeClient ==
  ASSUME IInv, NEW c \in Clients, RevokeClient(c)
  PROVE  IInv'
<1>1. client[c] # None /\ client[c] \in ClientRow
  BY RowFields DEF RevokeClient, IInv
<1> DEFINE row == [client[c] EXCEPT !.active = FALSE]
<1>2. /\ row \in ClientRow
      /\ row.method = client[c].method /\ row.secret = client[c].secret
  BY <1>1 DEF ClientRow
<1>3. /\ client' = [client EXCEPT ![c] = row]
      /\ UNCHANGED <<ca, config, expired>>
      /\ Command
  BY DEF RevokeClient
<1> HIDE DEF row
<1> QED
  BY <1>1, <1>2, <1>3, CommandStep DEF IInv, TypeOK

LEMMA NextUpdateClientCert ==
  ASSUME IInv, NEW c \in Clients, NEW f \in Certs, UpdateClientCert(c, f)
  PROVE  IInv'
<1>1. client[c] # None /\ client[c] \in ClientRow
  BY RowFields DEF UpdateClientCert, IInv
<1> DEFINE row == [client[c] EXCEPT !.fingerprint = f]
<1>2. /\ row \in ClientRow
      /\ row.method = client[c].method /\ row.secret = client[c].secret
  BY <1>1 DEF ClientRow
<1>3. /\ client' = [client EXCEPT ![c] = row]
      /\ UNCHANGED <<ca, config, expired>>
      /\ Command
  BY DEF UpdateClientCert
<1> HIDE DEF row
<1> QED
  BY <1>1, <1>2, <1>3, CommandStep DEF IInv, TypeOK

LEMMA NextRotateClientSecret ==
  ASSUME IInv, NEW c \in Clients, NEW s \in Secrets, RotateClientSecret(c, s)
  PROVE  IInv'
<1>1. client[c] # None /\ client[c] \in ClientRow
  BY RowFields DEF RotateClientSecret, IInv
<1> DEFINE secret == [text |-> s, under |-> config]
           row == [client[c] EXCEPT !.secret = secret]
<1>2. secret \in Encrypted /\ secret # None
  <2>1. config \in 0 .. MaxCommands
    BY BoundAssumption DEF IInv, TypeOK
  <2>2. secret \in Encrypted
    BY <2>1 DEF Encrypted
  <2> QED
    BY <2>2, NoRowAssumption
<1>3. client' = [client EXCEPT ![c] = row]
  BY DEF RotateClientSecret
<1> HIDE DEF secret
<1>4. row \in ClientRow /\ row.secret # None
  BY <1>1, <1>2 DEF ClientRow
<1>5. UNCHANGED <<ca, config, expired>> /\ Command
  BY DEF RotateClientSecret
<1> HIDE DEF row
<1> QED
  BY <1>1, <1>3, <1>4, <1>5, CommandStep DEF IInv, TypeOK

LEMMA NextAddCA ==
  ASSUME IInv, NEW n \in CANames, NEW k \in Keys, AddCA(n, k)
  PROVE  IInv'
<1>1. ca' \in [CANames -> CARow \cup {None}]
  BY DEF AddCA, IInv, TypeOK, CARow
<1> QED
  BY <1>1, CommandStep DEF AddCA, IInv, TypeOK

LEMMA NextRevokeCA ==
  ASSUME IInv, NEW n \in CANames, RevokeCA(n)
  PROVE  IInv'
<1>1. ca' \in [CANames -> CARow \cup {None}]
  <2>1. ca[n] \in CARow
    BY DEF RevokeCA, IInv, TypeOK
  <2>2. [ca[n] EXCEPT !.active = FALSE] \in CARow
    BY <2>1 DEF CARow
  <2> QED
    BY <2>2 DEF RevokeCA, IInv, TypeOK
<1> QED
  BY <1>1, CommandStep DEF RevokeCA, IInv, TypeOK

LEMMA NextReplaceSecretKey == IInv /\ ReplaceSecretKey => IInv'
BY CommandStep DEF ReplaceSecretKey, IInv, TypeOK

LEMMA NextExpire ==
  ASSUME IInv, NEW f \in Certs, Expire(f)
  PROVE  IInv'
BY CommandStep DEF Expire, IInv, TypeOK

-----------------------------------------------------------------------------
LEMMA InitIInv == Init => IInv
BY BoundAssumption DEF Init, IInv, TypeOK, Watched, Passed, Exhausted,
   AcceptedOnRecord, EntitledAccepted, At

LEMMA NextIInv == IInv /\ [Next]_vars => IInv'
<1> SUFFICES ASSUME IInv, [Next]_vars PROVE IInv'
  OBVIOUS
<1>1. ASSUME Administer PROVE IInv'
  BY <1>1, NextAddClient, NextRevokeClient, NextUpdateClientCert, NextRotateClientSecret,
     NextAddCA, NextRevokeCA, NextReplaceSecretKey, NextExpire
     DEF Administer
<1>2. ASSUME Authenticate PROVE IInv'
  BY <1>2, NextReceive, NextReadCAs, NextReadNamedClient, NextReadAssertedClient,
     NextResolveKey, NextReadPinnedClient, NextVerifyClientSecret, NextReply
     DEF Authenticate
<1>3. ASSUME UNCHANGED vars PROVE IInv'
  <2>1. UNCHANGED <<work, seen, client, ca, config, loaded, expired, commands>>
    BY <1>3 DEF vars
  <2>2. UNCHANGED <<cert, body, Trusted, Rows>>
    BY <2>1 DEF cert, body, Trusted, Rows
  <2>3. TypeOK' /\ Watched'
    BY <2>1, <2>2 DEF IInv, TypeOK, Watched
  <2>4. UNCHANGED <<Named, Pinned>>
    BY <2>1, <2>2 DEF Named, Pinned, Verified, QueryClient
  <2>5. Passed' /\ Exhausted'
    BY <2>1, <2>2, <2>4 DEF IInv, Passed, Exhausted, At, Carries
  <2>6. AcceptedOnRecord'
    BY <2>1 DEF IInv, AcceptedOnRecord, At
  <2>7. EntitledAccepted'
    BY <2>1, <2>2 DEF IInv, EntitledAccepted, Entitled, At, Carries
  <2> QED
    BY <2>3, <2>5, <2>6, <2>7 DEF IInv
<1> QED
  BY <1>1, <1>2, <1>3, NextRestart DEF Next

LEMMA Invariance == Spec => []IInv
<1>1. Init => IInv
  BY InitIInv
<1>2. IInv /\ [Next]_vars => IInv'
  BY NextIInv
<1> QED
  BY <1>1, <1>2, PTL DEF Spec

(* Rows, certificates and requests keep their shapes, and a client of a    *)
(* secret method has a secret, whatever add-client, rotate-client-secret   *)
(* and the other commands of cli.py do to the registry.                    *)
THEOREM TypeCorrect == Spec => []TypeOK
<1>1. IInv => TypeOK
  BY DEF IInv
<1> QED
  BY <1>1, Invariance, PTL

(* A request is accepted only as a client whose active row, with the CAs    *)
(* then active, asked for what it carried at some moment since it arrived,  *)
(* however many commands fall between the queries of authenticate_via_mtls  *)
(* and the authenticators after it.  For an assertion with x5c that is a    *)
(* certificate of an active CA, whoever it names (grants.py:207-209).       *)
THEOREM OnlyOnRecord == Spec => []AcceptedOnRecord
<1>1. IInv => AcceptedOnRecord
  BY DEF IInv
<1> QED
  BY <1>1, Invariance, PTL

(* With no command in between, the order in which the authenticators are    *)
(* tried turns no entitled client away, whatever else its request carries.  *)
THEOREM EntitledGetsIn == Spec => []EntitledAccepted
<1>1. IInv => EntitledAccepted
  BY DEF IInv
<1> QED
  BY <1>1, Invariance, PTL
=============================================================================
