---------------------------- MODULE TokenEndpoint ----------------------------
(***************************************************************************)
(* POST /token: an authorization code is exchanged for an ID token.  The   *)
(* code's row is read, marked used and committed, and the ID token signed  *)
(* with the active signing key; `flask cleanup-codes' removes old rows and *)
(* `flask init-keys' replaces the key, each in a process of its own.       *)
(*                                                                         *)
(* Authlib calls the grant's methods and the signing hook; whether it      *)
(* signs before or after delete_authorization_code is its own affair, so   *)
(* a request has both to do, in either order, before it is answered.       *)
(*                                                                         *)
(* Time: every row, token and request has an age.  Ages stop at the last   *)
(* value a comparison can tell apart, so the clock needs no bound.         *)
(***************************************************************************)
EXTENDS Naturals, FiniteSets

CONSTANTS Workers, Clients, Codes, Keys, None,
          CodeTTL,     \* lifetime of an authorization code (60 s)
          TokenTTL,    \* lifetime of an ID token (60 s)
          Retention,   \* how long cleanup-codes keeps an expired code (1 h)
          Timeout      \* gunicorn kills a worker after this time (60 s)

ASSUME NatAssumption == {CodeTTL, TokenTTL, Retention, Timeout} \subseteq Nat
ASSUME WorkersAssumption == IsFiniteSet(Workers)
ASSUME NoneAssumption == None \notin Clients \cup Codes \cup Keys
(* One hour is more than two minutes: what keeps a nonce on record.        *)
ASSUME RetentionAssumption == Retention >= TokenTTL + Timeout

VARIABLES code,     \* the authorization_code table
          active,   \* the clients with OIDCClient.active
          key,      \* the signing_key table: absent, active or inactive
          tokens,   \* the ID tokens signed, with their age
          work,     \* the request each worker is handling
          removed,  \* history: the codes cleanup-codes removed
          old,      \* the rows cleanup-codes has read and not yet deleted
          uses      \* history: how many token responses each code got

vars == <<code, active, key, tokens, work, removed, old, uses>>

MaxAge == CodeTTL + Retention + 1

CodeRow == [client : Clients, used : BOOLEAN, age : 0 .. MaxAge]
IdToken == [code : Codes, key : Keys, age : 0 .. TokenTTL + 1]
Work == [todo : SUBSET {"query", "spend", "sign"}, client : Clients,
         code : Codes, age : 0 .. Timeout]

ASSUME NoRowAssumption == None \notin CodeRow \cup Work

-----------------------------------------------------------------------------
Init == /\ code = [c \in Codes |-> None]
        /\ active = Clients
        /\ key = [k \in Keys |-> "absent"]
        /\ tokens = {}
        /\ work = [w \in Workers |-> None]
        /\ removed = {}
        /\ old = {}
        /\ uses = [c \in Codes |-> 0]

HasRow(c) == code[c] # None

(* /authorize, phase 2, for a client that is active.                       *)
SaveAuthorizationCode(c, cl) ==
  /\ code[c] = None /\ c \notin removed
  /\ cl \in active
  /\ code' = [code EXCEPT ![c] = [client |-> cl, used |-> FALSE, age |-> 0]]
  /\ UNCHANGED <<active, key, tokens, work, removed, old, uses>>

-----------------------------------------------------------------------------
(* A relying party posts a code, once or several times, and authenticates  *)
(* as a client; the authenticators only return active clients.             *)
AuthenticateClient(w, cl, c) ==
  /\ work[w] = None
  /\ HasRow(c) \/ c \in removed
  /\ cl \in active
  /\ work' = [work EXCEPT ![w] = [todo |-> {"query"}, client |-> cl, code |-> c, age |-> 0]]
  /\ UNCHANGED <<code, active, key, tokens, removed, old, uses>>

Finish(w) == work' = [work EXCEPT ![w] = None]

ToDo(w, step) == work[w] # None /\ step \in work[w].todo

Done(w, step) == work' = [work EXCEPT ![w].todo = @ \ {step}]

IsExpired(c) == code[c].age > CodeTTL

(* Mutants: query_authorization_code forgets `used', or the client.        *)
ValidAgain(c, cl) == HasRow(c) /\ code[c].client = cl /\ ~IsExpired(c)

ValidForAnyone(c, cl) == HasRow(c) /\ ~IsExpired(c) /\ ~code[c].used

Valid(c, cl) == /\ HasRow(c)
                /\ code[c].client = cl
                /\ ~IsExpired(c)
                /\ ~code[c].used

(* query_authorization_code, and then Authlib's checks of redirect_uri and *)
(* code_verifier, which may refuse the request.                            *)
QueryCode(w) ==
  /\ ToDo(w, "query")
  /\ \/ /\ Valid(work[w].code, work[w].client)
        /\ work' = [work EXCEPT ![w].todo = {"spend", "sign"}]
     \/ Finish(w)
  /\ UNCHANGED <<code, active, key, tokens, removed, old, uses>>

(* delete_authorization_code marks the row, if it is still there.          *)
SpendCode(w) ==
  /\ ToDo(w, "spend")
  /\ IF HasRow(work[w].code)
       THEN /\ code' = [code EXCEPT ![work[w].code].used = TRUE]
            /\ Done(w, "spend")
       ELSE /\ code' = code
            /\ Finish(w)
  /\ UNCHANGED <<active, key, tokens, removed, old, uses>>

(* get_jwt_config raises an error if there is no active key.               *)
SignIdToken(w) ==
  /\ ToDo(w, "sign")
  /\ \/ \E k \in Keys :
          /\ key[k] = "active"
          /\ tokens' = tokens \cup {[code |-> work[w].code, key |-> k, age |-> 0]}
          /\ Done(w, "sign")
     \/ /\ \A k \in Keys : key[k] # "active"
        /\ tokens' = tokens
        /\ Finish(w)
  /\ UNCHANGED <<code, active, key, removed, old, uses>>

Answer(w) ==
  /\ work[w] # None /\ work[w].todo = {}
  /\ uses' = [uses EXCEPT ![work[w].code] = @ + 1]
  /\ Finish(w)
  /\ UNCHANGED <<code, active, key, tokens, removed, old>>

(* The worker dies, or its reply is lost.                                  *)
Crash(w) ==
  /\ work[w] # None
  /\ Finish(w)
  /\ UNCHANGED <<code, active, key, tokens, removed, old, uses>>

-----------------------------------------------------------------------------
(* Mutants: rows are removed as soon as they expire; only if used.         *)
CleanupReadsExpired ==
  /\ old = {}
  /\ old' = {c \in Codes : HasRow(c) /\ code[c].age > CodeTTL}
  /\ UNCHANGED <<code, active, key, tokens, work, removed, uses>>

CleanupReadsUsed ==
  /\ old = {}
  /\ old' = {c \in Codes : HasRow(c) /\ code[c].used /\ code[c].age > CodeTTL + Retention}
  /\ UNCHANGED <<code, active, key, tokens, work, removed, uses>>

(* flask cleanup-codes reads the old rows in one session and deletes them  *)
(* in a second one.                                                        *)
CleanupReads ==
  /\ old = {}
  /\ old' = {c \in Codes : HasRow(c) /\ code[c].age > CodeTTL + Retention}
  /\ UNCHANGED <<code, active, key, tokens, work, removed, uses>>

CleanupDeletes ==
  /\ old # {}
  /\ code' = [c \in Codes |-> IF c \in old THEN None ELSE code[c]]
  /\ removed' = removed \cup old
  /\ old' = {}
  /\ UNCHANGED <<active, key, tokens, work, uses>>

(* flask init-keys: every key there is becomes inactive in the transaction *)
(* that adds the new one.                                                  *)
InitKeys(k) ==
  /\ key[k] = "absent"
  /\ key' = [j \in Keys |-> IF j = k THEN "active"
                            ELSE IF key[j] = "active" THEN "inactive" ELSE key[j]]
  /\ UNCHANGED <<code, active, tokens, work, removed, old, uses>>

(* flask revoke-client                                                     *)
RevokeClient(cl) ==
  /\ cl \in active
  /\ active' = active \ {cl}
  /\ UNCHANGED <<code, key, tokens, work, removed, old, uses>>

(* Mutant: off by one.                                                     *)
OlderByOne(age, limit) == IF age <= limit THEN age + 1 ELSE age

(* Time passes, but no request gets older than gunicorn's timeout.         *)
Older(age, limit) == IF age < limit THEN age + 1 ELSE age

Tick ==
  /\ \A w \in Workers : work[w] # None => work[w].age < Timeout
  /\ code' = [c \in Codes |-> IF HasRow(c) THEN [code[c] EXCEPT !.age = Older(@, MaxAge)]
                              ELSE code[c]]
  /\ tokens' = {[t EXCEPT !.age = Older(@, TokenTTL + 1)] : t \in tokens}
  /\ work' = [w \in Workers |-> IF work[w] = None THEN None
                                ELSE [work[w] EXCEPT !.age = @ + 1]]
  /\ UNCHANGED <<active, key, removed, old, uses>>

Next ==
  \/ \E c \in Codes, cl \in Clients : SaveAuthorizationCode(c, cl)
  \/ \E w \in Workers :
       \/ \E c \in Codes, cl \in Clients : AuthenticateClient(w, cl, c)
       \/ QueryCode(w)
       \/ SpendCode(w)
       \/ SignIdToken(w)
       \/ Answer(w)
       \/ Crash(w)
  \/ CleanupReads
  \/ CleanupDeletes
  \/ \E k \in Keys : InitKeys(k)
  \/ \E cl \in Clients : RevokeClient(cl)
  \/ Tick

Spec == Init /\ [][Next]_vars

(* Time passes, the timer runs cleanup-codes again and again, as            *)
(* SECURITY.md:78 asks, and gunicorn ends a request that takes too long.    *)
KillStuck(w) == work[w] # None /\ work[w].age = Timeout /\ Crash(w)

FairSpec == /\ Spec
            /\ WF_vars(Tick)
            /\ WF_vars(CleanupReads)
            /\ WF_vars(CleanupDeletes)
            /\ \A w \in Workers : WF_vars(KillStuck(w))

-----------------------------------------------------------------------------
(* Every variable keeps its shape.                                          *)
TypeOK ==
  /\ code \in [Codes -> CodeRow \cup {None}]
  /\ active \subseteq Clients
  /\ key \in [Keys -> {"absent", "active", "inactive"}]
  /\ tokens \subseteq IdToken
  /\ work \in [Workers -> Work \cup {None}]
  /\ removed \subseteq Codes
  /\ old \subseteq Codes
  /\ uses \in [Codes -> Nat]

(* An authorization code is a one-time token: a request that queries it     *)
(* after it was marked, has expired or was removed gets no token.           *)
Status(c) == IF HasRow(c) THEN IF code[c].used \/ IsExpired(c) THEN "gone" ELSE "live"
             ELSE IF c \in removed THEN "gone" ELSE "absent"

HoldersOf(c) == {w \in Workers : /\ work[w] # None
                                 /\ work[w].code = c
                                 /\ "query" \notin work[w].todo}

OT == INSTANCE OneTime WITH Tokens <- Codes,
                            status <- [c \in Codes |-> Status(c)],
                            holders <- [c \in Codes |-> HoldersOf(c)],
                            uses <- uses

OneTimeCodes == OT!Spec

(* cleanup-codes never frees a nonce while an ID token that carries it may  *)
(* still be presented: the row exists_nonce looks for outlives the token    *)
(* (cli.py:334, docs/security.md:239).                                      *)
NonceKept == \A t \in tokens : t.age <= TokenTTL => HasRow(t.code)

(* A revoked client that has no request past authentication gets no token   *)
(* for the codes it still holds.                                            *)
CodesOf(cl) == {c \in Codes : HasRow(c) /\ code[c].client = cl}

Drained(cl) == /\ cl \notin active
               /\ \A w \in Workers : work[w] # None => work[w].client # cl

RevokedGetsNothing ==
  [][\A cl \in Clients : Drained(cl) =>
       /\ Drained(cl)'
       /\ \A c \in CodesOf(cl) : uses'[c] = uses[c]]_vars

(* Every authorization code is removed from the table in the end.           *)
CodesRemoved == \A c \in Codes : HasRow(c) ~> c \in removed

(* docs/security.md:64: "Keys can be rotated without downtime": the JWKS    *)
(* has the key of every ID token that has not expired.                      *)
TokensVerifiable ==
  \A t \in tokens : t.age <= TokenTTL => key[t.key] = "active"
=============================================================================
