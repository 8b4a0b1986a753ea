--------------------------- MODULE WebAuthn_proofs ---------------------------
(***************************************************************************)
(* WebAuthn is type correct; a challenge is a one-time token; the next     *)
(* signature of an authenticator is never taken for a regression, and a    *)
(* stored count falls only to a verification that read a lower one; and    *)
(* the backup codes go with the credentials.                               *)
(***************************************************************************)
EXTENDS WebAuthn, FiniteSetTheorems, TLAPS

(* A count an authenticator has really shown: not ahead of its counter, or  *)
(* zero if it does not count.                                               *)
Genuine(c, n) == /\ c \in counting => n <= signs[c]
                 /\ c \notin counting => n = 0

(* NextSignatureAccepted is not inductive: the count that is stored comes   *)
(* from a response a browser has had for a while.                           *)
CountsGenuine ==
  /\ \A r \in sent : Genuine(r.cred, r.count)
  /\ \A c \in Creds : credential[c] # None => Genuine(c, credential[c].sign_count)

(* What a request has found out stays true, but for what the count was.     *)
RequestsBacked ==
  \A w \in Workers : work[w] # None =>
    /\ work[w].resp \in sent
    /\ challenge[work[w].resp.challenge] # None
    /\ work[w].at # "consume" => challenge[work[w].resp.challenge].used
    /\ work[w].at = "count" => /\ credential[work[w].resp.cred] # None
                               /\ ~Regressed(work[w].loaded, work[w].resp.count)

(* CodesPerCredential, in which the credentials are finite in number.       *)
BatchesMatch == \A u \in Users : /\ IsFiniteSet(CredentialsOf(u))
                                 /\ batches[u] = Cardinality(CredentialsOf(u))

IInv == TypeOK /\ CountsGenuine /\ RequestsBacked /\ BatchesMatch

-----------------------------------------------------------------------------
LEMMA NoRow == /\ None \notin ChallengeRow
               /\ None \notin CredentialRow
               /\ None \notin Work
BY NoRowAssumption

LEMMA ChallengeFields ==
  ASSUME TypeOK, NEW h \in Challenges, challenge[h] # None
  PROVE  /\ challenge[h] \in ChallengeRow
         /\ challenge[h].user \in Users
         /\ challenge[h].used \in BOOLEAN
         /\ challenge[h].expired \in BOOLEAN
BY DEF TypeOK, ChallengeRow

LEMMA CredentialFields ==
  ASSUME TypeOK, NEW c \in Creds, credential[c] # None
  PROVE  /\ credential[c] \in CredentialRow
         /\ credential[c].user \in Users
         /\ credential[c].sign_count \in Nat
BY DEF TypeOK, CredentialRow

LEMMA WorkFields ==
  ASSUME TypeOK, NEW w \in Workers, work[w] # None
  PROVE  /\ work[w] \in Work
         /\ work[w].at \in {"consume", "check", "count", "audit"}
         /\ work[w].user \in Users
         /\ work[w].loaded \in Nat
         /\ work[w].resp \in Response
         /\ work[w].resp.kind \in {"setup", "verify"}
         /\ work[w].resp.challenge \in Challenges
         /\ work[w].resp.cred \in Creds
         /\ work[w].resp.count \in Nat
BY DEF TypeOK, Work, Response

LEMMA CountType ==
  ASSUME TypeOK, NEW c \in Creds
  PROVE  Count(c) \in Nat
BY DEF TypeOK, Count

(* What a step does to the requests: one ends, or one goes on.              *)
LEMMA FinishWork ==
  ASSUME TypeOK, NEW w \in Workers, Finish(w)
  PROVE  /\ work' \in [Workers -> Work \cup {None}]
         /\ work'[w] = None
         /\ \A v \in Workers : v # w => work'[v] = work[v]
BY DEF TypeOK, Finish

LEMMA AdvanceWork ==
  ASSUME TypeOK, NEW w \in Workers, work[w] # None,
         NEW a \in {"check", "audit"}, work' = [work EXCEPT ![w].at = a]
  PROVE  /\ work' \in [Workers -> Work \cup {None}]
         /\ work'[w] # None
         /\ work'[w].at = a
         /\ work'[w].user = work[w].user
         /\ work'[w].resp = work[w].resp
         /\ work'[w].loaded = work[w].loaded
         /\ \A v \in Workers : v # w => work'[v] = work[v]
<1>1. work[w] \in Work
  BY WorkFields
<1>2. work'[w] = [work[w] EXCEPT !.at = a] /\ \A v \in Workers : v # w => work'[v] = work[v]
  BY DEF TypeOK
<1>3. work'[w] \in Work
  BY <1>1, <1>2 DEF Work
<1>4. work' \in [Workers -> Work \cup {None}]
  BY <1>1, <1>3 DEF TypeOK, Work
<1>5. /\ work'[w].at = a
      /\ work'[w].user = work[w].user
      /\ work'[w].resp = work[w].resp
      /\ work'[w].loaded = work[w].loaded
  BY <1>1, <1>2 DEF Work
<1> QED
  BY <1>2, <1>3, <1>4, <1>5, NoRow

LEMMA LoadWork ==
  ASSUME TypeOK, NEW w \in Workers, VerificationPasses(w)
  PROVE  /\ work' \in [Workers -> Work \cup {None}]
         /\ work'[w] # None
         /\ work'[w].at = "count"
         /\ work'[w].user = work[w].user
         /\ work'[w].resp = work[w].resp
         /\ work'[w].loaded = credential[work[w].resp.cred].sign_count
         /\ \A v \in Workers : v # w => work'[v] = work[v]
<1> DEFINE n == credential[work[w].resp.cred].sign_count
<1>1. work[w] # None /\ work[w] \in Work /\ n \in Nat
  <2>1. work[w] # None /\ credential[work[w].resp.cred] # None
    BY DEF VerificationPasses, Checking, Found
  <2> QED
    BY <2>1, WorkFields, CredentialFields
<1>2. work'[w] = [work[w] EXCEPT !.at = "count", !.loaded = n]
      /\ \A v \in Workers : v # w => work'[v] = work[v]
  BY DEF VerificationPasses, TypeOK
<1>3. work'[w] \in Work
  BY <1>1, <1>2 DEF Work
<1>4. work' \in [Workers -> Work \cup {None}]
  BY <1>1, <1>3 DEF VerificationPasses, TypeOK
<1>5. /\ work'[w].at = "count"
      /\ work'[w].user = work[w].user
      /\ work'[w].resp = work[w].resp
      /\ work'[w].loaded = n
  BY <1>1, <1>2 DEF Work
<1> QED
  BY <1>2, <1>3, <1>4, <1>5, NoRow

LEMMA StartWork ==
  ASSUME TypeOK, NEW w \in Workers, NEW u \in Users, NEW r \in sent,
         ReadChallenge(w, u, r)
  PROVE  /\ work' \in [Workers -> Work \cup {None}]
         /\ work[w] = None
         /\ work'[w] # None
         /\ work'[w].at = "consume"
         /\ work'[w].resp = r
         /\ \A v \in Workers : v # w => work'[v] = work[v]
<1> DEFINE k == [at |-> "consume", user |-> u, resp |-> r, loaded |-> 0]
<1>1. k \in Work
  BY DEF TypeOK, Work
<1>2. work' = [work EXCEPT ![w] = k] /\ work[w] = None
  BY DEF ReadChallenge
<1>3. k.at = "consume" /\ k.resp = r
  OBVIOUS
<1> HIDE DEF k
<1> QED
  BY <1>1, <1>2, <1>3, NoRow DEF TypeOK

(* The sign count of a row is replaced.                                     *)
LEMMA SignCountRow ==
  ASSUME TypeOK, NEW w \in Workers, SaveSignCount(w),
         credential[work[w].resp.cred] # None
  PROVE  /\ credential' \in [Creds -> CredentialRow \cup {None}]
         /\ \A c \in Creds :
              /\ credential'[c] = None <=> credential[c] = None
              /\ credential[c] # None => credential'[c].user = credential[c].user
              /\ \/ credential'[c] = credential[c]
                 \/ /\ c = work[w].resp.cred
                    /\ work[w].resp.count # work[w].loaded
                    /\ credential'[c].sign_count = work[w].resp.count
<1> DEFINE d == work[w].resp.cred
           n == work[w].resp.count
<1>1. work[w] # None
  BY DEF SaveSignCount
<1>2. d \in Creds /\ n \in Nat /\ credential[d] \in CredentialRow
  BY <1>1, WorkFields, CredentialFields
<1>3. CASE credential' = credential
  BY <1>3 DEF TypeOK
<1>4. CASE n # work[w].loaded /\ credential' = [credential EXCEPT ![d].sign_count = n]
  <2>1. credential'[d] = [credential[d] EXCEPT !.sign_count = n]
        /\ \A c \in Creds : c # d => credential'[c] = credential[c]
    BY <1>2, <1>4 DEF TypeOK
  <2>2. /\ credential'[d] \in CredentialRow
        /\ credential'[d].user = credential[d].user
        /\ credential'[d].sign_count = n
    BY <1>2, <2>1 DEF CredentialRow
  <2>3. credential' \in [Creds -> CredentialRow \cup {None}]
    <3>1. credential' = [credential EXCEPT ![d] = credential'[d]]
      BY <1>2, <1>4, <2>1 DEF TypeOK
    <3> QED
      BY <2>2, <3>1 DEF TypeOK
  <2> QED
    BY <1>2, <1>4, <2>1, <2>2, <2>3, NoRow
<1> QED
  BY <1>3, <1>4 DEF SaveSignCount

(* A challenge is marked, or it expires.                                    *)
LEMMA ChallengeMarked ==
  ASSUME TypeOK, NEW h \in Challenges, challenge[h] # None,
         \/ challenge' = [challenge EXCEPT ![h].used = TRUE]
         \/ challenge' = [challenge EXCEPT ![h].expired = TRUE]
  PROVE  /\ challenge' \in [Challenges -> ChallengeRow \cup {None}]
         /\ \A g \in Challenges :
              /\ challenge'[g] = None <=> challenge[g] = None
              /\ g # h => challenge'[g] = challenge[g]
         /\ challenge[h].used => challenge'[h].used
         /\ challenge'[h].used \/ challenge'[h].expired
<1>1. challenge[h] \in ChallengeRow
  BY ChallengeFields
<1>2. CASE challenge' = [challenge EXCEPT ![h].used = TRUE]
  <2>1. challenge'[h] = [challenge[h] EXCEPT !.used = TRUE]
        /\ \A g \in Challenges : g # h => challenge'[g] = challenge[g]
    BY <1>2 DEF TypeOK
  <2>2. challenge'[h] \in ChallengeRow /\ challenge'[h].used
    BY <1>1, <2>1 DEF ChallengeRow
  <2>3. challenge' = [challenge EXCEPT ![h] = challenge'[h]]
    BY <1>2, <2>1 DEF TypeOK
  <2> QED
    BY <1>1, <2>1, <2>2, <2>3, NoRow DEF TypeOK
<1>3. CASE challenge' = [challenge EXCEPT ![h].expired = TRUE]
  <2>1. challenge'[h] = [challenge[h] EXCEPT !.expired = TRUE]
        /\ \A g \in Challenges : g # h => challenge'[g] = challenge[g]
    BY <1>3 DEF TypeOK
  <2>2. challenge'[h] \in ChallengeRow /\ challenge'[h].expired
        /\ (challenge[h].used => challenge'[h].used)
    BY <1>1, <2>1 DEF ChallengeRow
  <2>3. challenge' = [challenge EXCEPT ![h] = challenge'[h]]
    BY <1>3, <2>1 DEF TypeOK
  <2> QED
    BY <1>1, <2>1, <2>2, <2>3, NoRow DEF TypeOK
<1> QED
  BY <1>2, <1>3

LEMMA AuditType ==
  ASSUME TypeOK, NEW w \in Workers, work[w] # None,
         NEW a \in {"setup", "verify", "fail"}, AddAudit(w, a)
  PROVE  audit' \subseteq AuditRow
<1>1. work[w].resp.challenge \in Challenges
  BY WorkFields
<1>2. [action |-> a, challenge |-> work[w].resp.challenge] \in AuditRow
  BY <1>1 DEF AuditRow
<1> QED
  BY <1>2 DEF AddAudit, TypeOK

-----------------------------------------------------------------------------
LEMMA InitIInv == Init => IInv
<1> SUFFICES ASSUME Init PROVE IInv
  OBVIOUS
<1>1. TypeOK
  BY DEF Init, TypeOK
<1>2. CountsGenuine /\ RequestsBacked
  BY DEF Init, CountsGenuine, RequestsBacked
<1>3. BatchesMatch
  <2> SUFFICES ASSUME NEW u \in Users
      PROVE  IsFiniteSet(CredentialsOf(u)) /\ batches[u] = Cardinality(CredentialsOf(u))
    BY DEF BatchesMatch
  <2>1. CredentialsOf(u) = {}
    BY DEF Init, CredentialsOf
  <2> QED
    BY <2>1, FS_EmptySet DEF Init
<1> QED
  BY <1>1, <1>2, <1>3 DEF IInv

LEMMA SameCredentials ==
  ASSUME BatchesMatch, batches' = batches,
         \A u \in Users : CredentialsOf(u)' = CredentialsOf(u)
  PROVE  BatchesMatch'
BY DEF BatchesMatch

LEMMA CredentialsKept ==
  ASSUME BatchesMatch, batches' = batches, credential' = credential
  PROVE  BatchesMatch'
BY SameCredentials DEF CredentialsOf

(* A new row, whichever page it is for, is nobody's challenge yet.          *)
LEMMA AddKeeps ==
  ASSUME IInv, NEW h \in Challenges, NEW u \in Users, AddChallenge(h, u)
  PROVE  IInv'
<1> DEFINE row == [user |-> u, used |-> FALSE, expired |-> FALSE]
<1>1. row \in ChallengeRow
  BY DEF ChallengeRow
<1>2. challenge' = [challenge EXCEPT ![h] = row] /\ challenge[h] = None
  BY DEF AddChallenge
<1> HIDE DEF row
<1>3. TypeOK'
  BY <1>1, <1>2 DEF AddChallenge, IInv, TypeOK
<1>4. RequestsBacked'
  <2>1. \A g \in Challenges : challenge[g] # None => challenge'[g] = challenge[g]
    BY <1>2 DEF IInv, TypeOK
  <2>2. \A w \in Workers : work[w] # None => work[w].resp.challenge \in Challenges
    BY WorkFields DEF IInv
  <2> QED
    BY <2>1, <2>2 DEF AddChallenge, IInv, RequestsBacked
<1>5. CountsGenuine'
  BY DEF AddChallenge, IInv, CountsGenuine, Genuine
<1>6. BatchesMatch'
  BY CredentialsKept DEF AddChallenge, IInv
<1> QED
  BY <1>3, <1>4, <1>5, <1>6 DEF IInv

LEMMA ExpireKeeps ==
  ASSUME IInv, NEW h \in Challenges, Expire(h)
  PROVE  IInv'
<1>1. TypeOK /\ challenge[h] # None /\ challenge' = [challenge EXCEPT ![h].expired = TRUE]
  BY DEF IInv, Expire
<1>2. TypeOK'
  BY <1>1, ChallengeMarked DEF Expire, TypeOK
<1>3. RequestsBacked'
  <2>1. \A g \in Challenges : /\ challenge'[g] = None <=> challenge[g] = None
                              /\ challenge[g].used => challenge'[g].used
    BY <1>1, ChallengeMarked
  <2>2. \A w \in Workers : work[w] # None => work[w].resp.challenge \in Challenges
    BY <1>1, WorkFields
  <2> QED
    BY <2>1, <2>2 DEF Expire, IInv, RequestsBacked
<1>4. CountsGenuine'
  BY DEF Expire, IInv, CountsGenuine, Genuine
<1>5. BatchesMatch'
  BY CredentialsKept DEF Expire, IInv
<1> QED
  BY <1>2, <1>3, <1>4, <1>5 DEF IInv

(* The authenticator's counter only rises, so what was genuine stays so.    *)
LEMMA SignKeeps ==
  ASSUME IInv, NEW k \in {"setup", "verify"}, NEW h \in Challenges, NEW c \in Creds,
         Sign(k, h, c)
  PROVE  IInv'
<1> DEFINE r == [kind |-> k, challenge |-> h, cred |-> c, count |-> Count(c)]
<1>1. TypeOK /\ Count(c) \in Nat
  BY CountType DEF IInv
<1>2. r \in Response /\ r.cred = c /\ r.count = Count(c)
  BY <1>1 DEF Response
<1>3. sent' = sent \cup {r} /\ signs' = [signs EXCEPT ![c] = Count(c)]
      /\ counting' = counting
  BY DEF Sign
<1> HIDE DEF r
<1>4. TypeOK'
  BY <1>1, <1>2, <1>3 DEF Sign, TypeOK
<1>5. signs'[c] = Count(c) /\ \A d \in Creds : d # c => signs'[d] = signs[d]
  BY <1>1, <1>3 DEF TypeOK
<1>6. ASSUME NEW d \in Creds, NEW n \in Nat, Genuine(d, n)
      PROVE  Genuine(d, n)'
  <2>1. signs[d] \in Nat
    BY <1>1 DEF TypeOK
  <2> QED
    BY <1>3, <1>5, <1>6, <2>1 DEF Genuine, Count
<1>7. CountsGenuine'
  <2>1. ASSUME NEW q \in sent'
        PROVE  Genuine(q.cred, q.count)'
    <3>1. CASE q = r
      BY <1>2, <1>3, <1>5, <1>1, <3>1 DEF Genuine, Count
    <3>2. CASE q \in sent
      <4>1. q.cred \in Creds /\ q.count \in Nat /\ Genuine(q.cred, q.count)
        BY <1>1, <3>2 DEF TypeOK, Response, IInv, CountsGenuine
      <4> QED
        BY <1>6, <4>1
    <3> QED
      BY <1>3, <3>1, <3>2
  <2>2. ASSUME NEW d \in Creds, credential'[d] # None
        PROVE  Genuine(d, credential[d].sign_count)'
    <3>1. credential' = credential
      BY DEF Sign
    <3>2. credential[d].sign_count \in Nat /\ Genuine(d, credential[d].sign_count)
      BY <1>1, <2>2, <3>1, CredentialFields DEF IInv, CountsGenuine
    <3>3. PICK n \in Nat : n = credential[d].sign_count
      BY <3>2
    <3> QED
      BY <1>6, <3>1, <3>2, <3>3 DEF Genuine
  <2> QED
    BY <2>1, <2>2 DEF CountsGenuine
<1>8. RequestsBacked'
  BY <1>3 DEF Sign, IInv, RequestsBacked
<1>9. BatchesMatch'
  BY CredentialsKept DEF Sign, IInv
<1> QED
  BY <1>4, <1>7, <1>8, <1>9 DEF IInv

-----------------------------------------------------------------------------
(* The requests.  One that ends leaves nothing to be shown of it.           *)
LEMMA FinishKeeps ==
  ASSUME IInv, NEW w \in Workers, Finish(w), audit' \subseteq AuditRow,
         uses' \in [Challenges -> Nat],
         UNCHANGED <<challenge, credential, batches, counting, signs, sent>>
  PROVE  IInv'
<1>1. /\ work' \in [Workers -> Work \cup {None}]
      /\ work'[w] = None
      /\ \A v \in Workers : v # w => work'[v] = work[v]
  BY FinishWork DEF IInv
<1>2. TypeOK'
  BY <1>1 DEF IInv, TypeOK
<1>3. RequestsBacked'
  BY <1>1 DEF IInv, RequestsBacked
<1>4. CountsGenuine'
  BY DEF IInv, CountsGenuine, Genuine
<1>5. BatchesMatch'
  BY CredentialsKept DEF IInv
<1> QED
  BY <1>2, <1>3, <1>4, <1>5 DEF IInv

LEMMA ReadKeeps ==
  ASSUME IInv, NEW w \in Workers, NEW u \in Users, NEW r \in sent,
         ReadChallenge(w, u, r)
  PROVE  IInv'
<1>1. /\ work' \in [Workers -> Work \cup {None}]
      /\ work'[w].at = "consume"
      /\ work'[w].resp = r
      /\ \A v \in Workers : v # w => work'[v] = work[v]
  BY StartWork DEF IInv
<1>2. TypeOK'
  BY <1>1 DEF ReadChallenge, IInv, TypeOK
<1>3. challenge[r.challenge] # None
  BY DEF ReadChallenge, Usable
<1>4. RequestsBacked'
  BY <1>1, <1>3 DEF ReadChallenge, IInv, RequestsBacked
<1>5. CountsGenuine'
  BY DEF ReadChallenge, IInv, CountsGenuine, Genuine
<1>6. BatchesMatch'
  BY CredentialsKept DEF ReadChallenge, IInv
<1> QED
  BY <1>2, <1>4, <1>5, <1>6 DEF IInv

LEMMA ConsumeKeeps ==
  ASSUME IInv, NEW w \in Workers, ConsumeChallenge(w)
  PROVE  IInv'
<1>1. TypeOK /\ work[w] # None /\ RequestsBacked
  BY DEF IInv, ConsumeChallenge
<1>2. PICK h \in Challenges : h = work[w].resp.challenge
  BY <1>1, WorkFields
<1>3. challenge[h] # None /\ challenge' = [challenge EXCEPT ![h].used = TRUE]
  BY <1>1, <1>2 DEF RequestsBacked, ConsumeChallenge
<1>4. /\ challenge' \in [Challenges -> ChallengeRow \cup {None}]
      /\ \A g \in Challenges : challenge'[g] = None <=> challenge[g] = None
      /\ \A g \in Challenges : challenge[g].used => challenge'[g].used
  BY <1>1, <1>3, ChallengeMarked
<1>5. challenge'[h].used
  <2>1. challenge[h] \in ChallengeRow
    BY <1>1, <1>3, ChallengeFields
  <2> QED
    BY <1>1, <1>3, <2>1 DEF TypeOK, ChallengeRow
<1>6. /\ work' \in [Workers -> Work \cup {None}]
      /\ work'[w].at = "check"
      /\ work'[w].resp = work[w].resp
      /\ \A v \in Workers : v # w => work'[v] = work[v]
  BY <1>1, AdvanceWork DEF ConsumeChallenge
<1>7. TypeOK'
  BY <1>4, <1>6 DEF ConsumeChallenge, IInv, TypeOK
<1>8. RequestsBacked'
  <2>1. \A v \in Workers : work[v] # None => work[v].resp.challenge \in Challenges
    BY <1>1, WorkFields
  <2> SUFFICES ASSUME NEW v \in Workers, work'[v] # None
      PROVE  /\ work'[v].resp \in sent
             /\ challenge'[work'[v].resp.challenge] # None
             /\ work'[v].at # "consume" => challenge'[work'[v].resp.challenge].used
             /\ work'[v].at = "count" =>
                  /\ credential[work'[v].resp.cred] # None
                  /\ ~Regressed(work'[v].loaded, work'[v].resp.count)
    BY DEF ConsumeChallenge, RequestsBacked
  <2>2. CASE v = w
    BY <1>1, <1>2, <1>4, <1>5, <1>6, <2>1, <2>2 DEF RequestsBacked
  <2>3. CASE v # w
    BY <1>1, <1>4, <1>6, <2>1, <2>3 DEF RequestsBacked
  <2> QED
    BY <2>2, <2>3
<1>9. CountsGenuine'
  BY DEF ConsumeChallenge, IInv, CountsGenuine, Genuine
<1>10. BatchesMatch'
  BY CredentialsKept DEF ConsumeChallenge, IInv
<1> QED
  BY <1>7, <1>8, <1>9, <1>10 DEF IInv

LEMMA PassKeeps ==
  ASSUME IInv, NEW w \in Workers, VerificationPasses(w)
  PROVE  IInv'
<1> DEFINE r == work[w].resp
<1>1. work[w] # None /\ work[w].at = "check" /\ credential[r.cred] # None
      /\ ~Regressed(credential[r.cred].sign_count, r.count)
  BY DEF VerificationPasses, Checking, Found, CountsOn
<1>2. /\ work' \in [Workers -> Work \cup {None}]
      /\ work'[w].resp = r
      /\ work'[w].loaded = credential[r.cred].sign_count
      /\ \A v \in Workers : v # w => work'[v] = work[v]
  BY LoadWork DEF IInv
<1>3. TypeOK'
  BY <1>2 DEF VerificationPasses, IInv, TypeOK
<1>4. RequestsBacked'
  BY <1>1, <1>2 DEF VerificationPasses, IInv, RequestsBacked
<1>5. CountsGenuine'
  BY DEF VerificationPasses, IInv, CountsGenuine, Genuine
<1>6. BatchesMatch'
  BY CredentialsKept DEF VerificationPasses, IInv
<1> QED
  BY <1>3, <1>4, <1>5, <1>6 DEF IInv

LEMMA SaveCountKeeps ==
  ASSUME IInv, NEW w \in Workers, SaveSignCount(w)
  PROVE  IInv'
<1> DEFINE r == work[w].resp
<1>1. TypeOK /\ work[w] # None /\ work[w].at = "count" /\ RequestsBacked
  BY DEF IInv, SaveSignCount
<1>2. r \in sent /\ credential[r.cred] # None
  BY <1>1 DEF RequestsBacked
<1>3. /\ credential' \in [Creds -> CredentialRow \cup {None}]
      /\ \A c \in Creds :
           /\ credential'[c] = None <=> credential[c] = None
           /\ credential[c] # None => credential'[c].user = credential[c].user
           /\ \/ credential'[c] = credential[c]
              \/ c = r.cred /\ credential'[c].sign_count = r.count
  BY <1>1, <1>2, SignCountRow
<1>4. /\ work' \in [Workers -> Work \cup {None}]
      /\ work'[w].at = "audit"
      /\ work'[w].resp = r
      /\ \A v \in Workers : v # w => work'[v] = work[v]
  BY <1>1, AdvanceWork DEF SaveSignCount
<1>5. TypeOK'
  BY <1>3, <1>4 DEF SaveSignCount, IInv, TypeOK
<1>6. RequestsBacked'
  <2>1. \A v \in Workers : work[v] # None => work[v].resp.cred \in Creds
    BY <1>1, WorkFields
  <2> HIDE DEF r
  <2> SUFFICES ASSUME NEW v \in Workers, work'[v] # None
      PROVE  /\ work'[v].resp \in sent
             /\ challenge[work'[v].resp.challenge] # None
             /\ work'[v].at # "consume" => challenge[work'[v].resp.challenge].used
             /\ work'[v].at = "count" =>
                  /\ credential'[work'[v].resp.cred] # None
                  /\ ~Regressed(work'[v].loaded, work'[v].resp.count)
    BY DEF SaveSignCount, RequestsBacked
  <2>2. CASE v = w
    BY <1>1, <1>4, <2>2 DEF RequestsBacked, r
  <2>3. CASE v # w
    BY <1>1, <1>3, <1>4, <2>1, <2>3 DEF RequestsBacked
  <2> QED
    BY <2>2, <2>3
<1>7. CountsGenuine'
  <2>1. Genuine(r.cred, r.count)
    BY <1>2 DEF IInv, CountsGenuine
  <2> HIDE DEF r
  <2>2. ASSUME NEW c \in Creds, credential'[c] # None
        PROVE  Genuine(c, credential'[c].sign_count)
    <3>1. credential[c] # None /\ Genuine(c, credential[c].sign_count)
      BY <1>3, <2>2 DEF IInv, CountsGenuine
    <3> QED
      BY <1>3, <2>1, <3>1
  <2>3. counting' = counting /\ signs' = signs /\ sent' = sent
    BY DEF SaveSignCount
  <2> QED
    BY <2>2, <2>3 DEF IInv, CountsGenuine, Genuine
<1>8. BatchesMatch'
  <2>1. \A u \in Users : CredentialsOf(u)' = CredentialsOf(u)
    BY <1>3 DEF CredentialsOf
  <2> QED
    BY <2>1, SameCredentials DEF SaveSignCount, IInv
<1> QED
  BY <1>5, <1>6, <1>7, <1>8 DEF IInv

(* A credential is registered with the count of its response, and brings    *)
(* its user ten backup codes.                                               *)
LEMMA SaveCredentialKeeps ==
  ASSUME IInv, NEW w \in Workers, SaveCredential(w)
  PROVE  IInv'
<1>1. TypeOK /\ work[w] # None /\ work[w].at = "check" /\ RequestsBacked
  BY DEF IInv, SaveCredential, Checking
<1>2. PICK c \in Creds, u \in Users, n \in Nat :
        c = work[w].resp.cred /\ u = work[w].user /\ n = work[w].resp.count
  BY <1>1, WorkFields
<1>3. CASE credential[c] = None
  <2> DEFINE row == [user |-> u, sign_count |-> n]
  <2>1. /\ credential' = [credential EXCEPT ![c] = row]
        /\ batches' = [batches EXCEPT ![u] = @ + 1]
        /\ work' = [work EXCEPT ![w].at = "audit"]
    BY <1>2, <1>3 DEF SaveCredential
  <2>2. row \in CredentialRow /\ row.user = u /\ row.sign_count = n
    BY DEF CredentialRow
  <2>3. row # None
    BY <2>2, NoRow
  <2> HIDE DEF row
  <2>4. credential'[c] = row /\ \A d \in Creds : d # c => credential'[d] = credential[d]
    BY <1>1, <2>1 DEF TypeOK
  <2>5. /\ work' \in [Workers -> Work \cup {None}]
        /\ work'[w].at = "audit"
        /\ work'[w].resp = work[w].resp
        /\ \A v \in Workers : v # w => work'[v] = work[v]
    BY <1>1, <2>1, AdvanceWork
  <2>6. batches'[u] = batches[u] + 1 /\ \A v \in Users : v # u => batches'[v] = batches[v]
    BY <1>1, <2>1 DEF TypeOK
  <2>7. TypeOK'
    <3>1. credential' \in [Creds -> CredentialRow \cup {None}]
      BY <1>1, <2>1, <2>2 DEF TypeOK
    <3>2. batches' \in [Users -> Nat]
      BY <1>1, <2>1 DEF TypeOK
    <3> QED
      BY <1>1, <2>5, <3>1, <3>2 DEF SaveCredential, TypeOK
  <2>8. RequestsBacked'
    <3>1. \A d \in Creds : credential[d] # None => credential'[d] # None
      BY <1>3, <2>4
    <3>2. \A v \in Workers : work[v] # None => work[v].resp.cred \in Creds
      BY <1>1, WorkFields
    <3> SUFFICES ASSUME NEW v \in Workers, work'[v] # None
        PROVE  /\ work'[v].resp \in sent
               /\ challenge[work'[v].resp.challenge] # None
               /\ work'[v].at # "consume" => challenge[work'[v].resp.challenge].used
               /\ work'[v].at = "count" =>
                    /\ credential'[work'[v].resp.cred] # None
                    /\ ~Regressed(work'[v].loaded, work'[v].resp.count)
      BY DEF SaveCredential, RequestsBacked
    <3>3. CASE v = w
      BY <1>1, <2>5, <3>3 DEF RequestsBacked
    <3>4. CASE v # w
      BY <1>1, <2>5, <3>1, <3>2, <3>4 DEF RequestsBacked
    <3> QED
      BY <3>3, <3>4
  <2>9. CountsGenuine'
    <3>1. Genuine(c, n)
      BY <1>1, <1>2 DEF RequestsBacked, IInv, CountsGenuine
    <3>2. ASSUME NEW d \in Creds, credential'[d] # None
          PROVE  Genuine(d, credential'[d].sign_count)
      BY <2>2, <2>4, <3>1, <3>2 DEF IInv, CountsGenuine
    <3>3. counting' = counting /\ signs' = signs /\ sent' = sent
      BY DEF SaveCredential
    <3> QED
      BY <3>2, <3>3 DEF IInv, CountsGenuine, Genuine
  <2>10. BatchesMatch'
    <3>1. CredentialsOf(u)' = CredentialsOf(u) \cup {c} /\ c \notin CredentialsOf(u)
      BY <1>3, <2>2, <2>3, <2>4 DEF CredentialsOf
    <3>2. \A v \in Users : v # u => CredentialsOf(v)' = CredentialsOf(v)
      BY <1>3, <2>2, <2>3, <2>4 DEF CredentialsOf
    <3>3. IsFiniteSet(CredentialsOf(u)) /\ batches[u] = Cardinality(CredentialsOf(u))
      BY DEF IInv, BatchesMatch
    <3>4. IsFiniteSet(CredentialsOf(u)')
          /\ Cardinality(CredentialsOf(u)') = Cardinality(CredentialsOf(u)) + 1
      BY <3>1, <3>3, FS_AddElement
    <3> QED
      BY <2>6, <3>2, <3>3, <3>4 DEF IInv, BatchesMatch
  <2> QED
    BY <2>7, <2>8, <2>9, <2>10 DEF IInv
<1>4. CASE credential[c] # None
  <2>1. Finish(w) /\ UNCHANGED <<challenge, credential, batches, audit, counting,
                                signs, sent, uses>>
    BY <1>2, <1>4 DEF SaveCredential
  <2> QED
    BY <1>1, <2>1, FinishKeeps DEF TypeOK
<1> QED
  BY <1>3, <1>4

(* Either outcome that is audited, and those that are not.                  *)
LEMMA EndKeeps ==
  ASSUME IInv, NEW w \in Workers,
         \/ CredentialNotFound(w)
         \/ VerificationFails(w)
         \/ RegistrationFails(w)
         \/ AuditSuccess(w)
         \/ Crash(w)
  PROVE  IInv'
<1>1. TypeOK /\ work[w] # None /\ Finish(w)
  BY DEF IInv, CredentialNotFound, VerificationFails, RegistrationFails, AuditSuccess,
         Crash, Checking
<1>2. audit' \subseteq AuditRow
  <2>1. work[w].resp.kind \in {"setup", "verify"}
    BY <1>1, WorkFields
  <2>2. \/ audit' = audit
        \/ \E a \in {"setup", "verify", "fail"} : AddAudit(w, a)
    BY <2>1 DEF CredentialNotFound, VerificationFails, RegistrationFails, AuditSuccess,
                Crash
  <2> QED
    BY <1>1, <2>2, AuditType DEF TypeOK
<1>3. uses' \in [Challenges -> Nat]
  BY <1>1 DEF CredentialNotFound, VerificationFails, RegistrationFails, AuditSuccess,
              Crash, TypeOK
<1>4. UNCHANGED <<challenge, credential, batches, counting, signs, sent>>
  BY DEF CredentialNotFound, VerificationFails, RegistrationFails, AuditSuccess, Crash
<1> QED
  BY <1>1, <1>2, <1>3, <1>4, FinishKeeps

LEMMA NextIInv == IInv /\ [Next]_vars => IInv'
<1> SUFFICES ASSUME IInv, [Next]_vars PROVE IInv'
  OBVIOUS
<1>1. ASSUME NEW h \in Challenges, NEW u \in Users, SetupGet(h, u) \/ VerifyGet(h, u)
      PROVE  IInv'
  BY <1>1, AddKeeps DEF SetupGet, VerifyGet
<1>2. ASSUME NEW h \in Challenges, NEW c \in Creds,
             CreateCredential(h, c) \/ GetAssertion(h, c)
      PROVE  IInv'
  BY <1>2, SignKeeps DEF CreateCredential, GetAssertion
<1>3. CASE UNCHANGED vars
  BY <1>3 DEF vars, IInv, TypeOK, CountsGenuine, Genuine, RequestsBacked, BatchesMatch,
              CredentialsOf
<1>4. CASE Next
  BY <1>1, <1>2, <1>4, ExpireKeeps, ReadKeeps, ConsumeKeeps, PassKeeps, SaveCountKeeps,
     SaveCredentialKeeps, EndKeeps DEF Next
<1> QED
  BY <1>3, <1>4

LEMMA Invariance == Spec => []IInv
BY InitIInv, NextIInv, PTL DEF Spec

(* Every variable keeps its shape, for any number of users, workers,        *)
(* challenges and credentials.                                              *)
THEOREM TypeCorrect == Spec => []TypeOK
<1>1. IInv => TypeOK
  BY DEF IInv
<1> QED
  BY <1>1, Invariance, PTL

(* Whatever order overlapping verifications commit in, and wherever a       *)
(* worker dies, the next signature of the authenticator is accepted.        *)
THEOREM SignaturesAreAccepted == Spec => []NextSignatureAccepted
<1>1. IInv => NextSignatureAccepted
  <2> SUFFICES ASSUME IInv, NEW c \in Creds, credential[c] # None
      PROVE  ~Regressed(credential[c].sign_count, Count(c))
    BY DEF NextSignatureAccepted
  <2>1. credential[c].sign_count \in Nat /\ signs[c] \in Nat
    BY CredentialFields DEF IInv, TypeOK
  <2>2. Genuine(c, credential[c].sign_count)
    BY DEF IInv, CountsGenuine
  <2> QED
    BY <2>1, <2>2 DEF Genuine, Regressed, Count
<1> QED
  BY <1>1, Invariance, PTL

(* A user has ten backup codes for every credential, and none for a         *)
(* registration that failed, was posted twice or was cut short.             *)
THEOREM CodesGoWithCredentials == Spec => []CodesPerCredential
<1>1. IInv => CodesPerCredential
  BY DEF IInv, BatchesMatch, CodesPerCredential
<1> QED
  BY <1>1, Invariance, PTL

-----------------------------------------------------------------------------
(* The count of an existing row changes in SaveSignCount only.              *)
LEMMA CountIsKept ==
  ASSUME IInv, [Next]_vars, \A w \in Workers : ~SaveSignCount(w),
         NEW c \in Creds, credential[c] # None
  PROVE  credential'[c] = credential[c]
<1>1. ASSUME NEW w \in Workers, SaveCredential(w)
      PROVE  credential'[c] = credential[c]
  <2>1. CASE credential' = credential
    BY <2>1
  <2>2. CASE credential[work[w].resp.cred] = None
    <3>1. c # work[w].resp.cred
      BY <2>2
    <3> QED
      BY <1>1, <2>2, <3>1 DEF SaveCredential, IInv, TypeOK
  <2> QED
    BY <1>1, <2>1, <2>2 DEF SaveCredential
<1>2. CASE UNCHANGED vars
  BY <1>2 DEF vars
<1>3. CASE Next
  BY <1>1, <1>3 DEF Next, SetupGet, VerifyGet, AddChallenge, Expire, CreateCredential,
     GetAssertion, Sign, ReadChallenge, ConsumeChallenge, CredentialNotFound,
     VerificationFails, VerificationPasses, RegistrationFails, AuditSuccess, Crash
<1> QED
  BY <1>2, <1>3

LEMMA NextCountFalls ==
  ASSUME IInv, [Next]_vars, NEW c \in Creds, credential[c] # None,
         credential'[c].sign_count < credential[c].sign_count
  PROVE  \E w \in Workers : /\ work[w] # None /\ work[w].at = "count"
                            /\ work[w].resp.cred = c
                            /\ work[w].loaded < credential[c].sign_count
                            /\ work'[w].at = "audit"
<1>1. TypeOK /\ credential[c].sign_count \in Nat
  BY CredentialFields DEF IInv
<1>2. credential'[c] # credential[c]
  BY <1>1
<1>3. PICK w \in Workers : SaveSignCount(w)
  BY <1>2, CountIsKept
<1>4. /\ work[w] # None /\ work[w].at = "count"
      /\ credential[work[w].resp.cred] # None
      /\ ~Regressed(work[w].loaded, work[w].resp.count)
  BY <1>3 DEF SaveSignCount, IInv, RequestsBacked
<1>5. work[w].loaded \in Nat /\ work[w].resp.count \in Nat
  BY <1>1, <1>4, WorkFields
<1>6. /\ work[w].resp.cred = c
      /\ work[w].resp.count # work[w].loaded
      /\ credential'[c].sign_count = work[w].resp.count
  BY <1>1, <1>2, <1>3, <1>4, SignCountRow
<1>7. work[w].loaded < credential[c].sign_count
  BY <1>1, <1>4, <1>5, <1>6 DEF Regressed
<1>8. work'[w].at = "audit"
  BY <1>1, <1>3, <1>4, AdvanceWork DEF SaveSignCount
<1> QED
  BY <1>4, <1>6, <1>7, <1>8

(* With one worker, or without overlap, the stored count never falls: it    *)
(* takes a verification that read a lower one (webauthn_helpers.py:191).    *)
THEOREM CountFallsOnlyToStale == Spec => CountFallsOnlyIfStale
<1> DEFINE Step ==
      \A c \in Creds :
        (credential[c] # None /\ credential'[c].sign_count < credential[c].sign_count) =>
          \E w \in Workers : /\ work[w] # None /\ work[w].at = "count"
                            /\ work[w].resp.cred = c
                            /\ work[w].loaded < credential[c].sign_count
                            /\ work'[w].at = "audit"
<1>1. IInv /\ [Next]_vars => [Step]_vars
  BY NextCountFalls
<1> QED
  BY <1>1, Invariance, PTL DEF Spec, CountFallsOnlyIfStale

-----------------------------------------------------------------------------
(* WebAuthn implements OneTime.  What the mapping shows of a step depends   *)
(* on the statuses and the holders before and after it.                     *)
statuses == [h \in Challenges |-> Status(h)]
holding == [h \in Challenges |-> HoldersOf(h)]

LEMMA StatusCases ==
  ASSUME NEW h \in Challenges
  PROVE  /\ challenge[h] = None => Status(h) = "absent"
         /\ (challenge[h] # None /\ (challenge[h].used \/ challenge[h].expired))
              => Status(h) = "gone"
         /\ (challenge[h] # None /\ ~challenge[h].used /\ ~challenge[h].expired)
              => Status(h) = "live"
BY DEF Status

LEMMA SameStatus ==
  ASSUME challenge' = challenge
  PROVE  statuses' = statuses
BY DEF statuses, Status

LEMMA SameHolders ==
  ASSUME \A v \in Workers : /\ work'[v] = None <=> work[v] = None
                            /\ work[v] # None => work'[v].resp = work[v].resp
  PROVE  holding' = holding
<1>1. \A h \in Challenges : HoldersOf(h)' = HoldersOf(h)
  BY DEF HoldersOf
<1> QED
  BY <1>1 DEF holding

LEMMA Stutters ==
  ASSUME statuses' = statuses, holding' = holding, uses' = uses
  PROVE  UNCHANGED OT!vars
BY DEF OT!vars, statuses, holding

LEMMA InitRefines == Init => OT!Init
<1> SUFFICES ASSUME Init PROVE OT!Init
  OBVIOUS
<1>1. \A h \in Challenges : Status(h) = "absent"
  BY DEF Init, Status
<1>2. \A h \in Challenges : HoldersOf(h) = {}
  BY DEF Init, HoldersOf
<1> QED
  BY <1>1, <1>2 DEF Init, OT!Init

LEMMA AddRefines ==
  ASSUME IInv, NEW h \in Challenges, NEW u \in Users, AddChallenge(h, u)
  PROVE  OT!Next
<1> DEFINE row == [user |-> u, used |-> FALSE, expired |-> FALSE]
<1>1. row \in ChallengeRow /\ ~row.used /\ ~row.expired
  BY DEF ChallengeRow
<1>2. challenge' = [challenge EXCEPT ![h] = row] /\ challenge[h] = None
  BY DEF AddChallenge
<1> HIDE DEF row
<1>3. challenge'[h] = row /\ \A g \in Challenges : g # h => challenge'[g] = challenge[g]
  BY <1>2 DEF IInv, TypeOK
<1>4. Status(h) = "absent" /\ Status(h)' = "live"
  BY <1>1, <1>2, <1>3, NoRow DEF Status
<1>5. \A g \in Challenges : g # h => Status(g)' = Status(g)
  BY <1>3 DEF Status
<1>6. holding' = holding /\ uses' = uses
  BY SameHolders DEF AddChallenge
<1>7. OT!Issue({h})
  BY <1>4, <1>5, <1>6 DEF OT!Issue, holding
<1> QED
  BY <1>7 DEF OT!Next

(* Marking a challenge, or letting it expire, ends it, or it had ended.     *)
LEMMA MarkRefines ==
  ASSUME IInv, NEW h \in Challenges, challenge[h] # None,
         \/ challenge' = [challenge EXCEPT ![h].used = TRUE]
         \/ challenge' = [challenge EXCEPT ![h].expired = TRUE],
         holding' = holding, uses' = uses
  PROVE  [OT!Next]_(OT!vars)
<1>1. /\ challenge'[h] # None
      /\ challenge'[h].used \/ challenge'[h].expired
      /\ \A g \in Challenges : g # h => challenge'[g] = challenge[g]
  BY ChallengeMarked DEF IInv
<1>2. Status(h)' = "gone"
  BY <1>1 DEF Status
<1>3. \A g \in Challenges : g # h => Status(g)' = Status(g)
  BY <1>1 DEF Status
<1>4. Status(h) = "live" \/ Status(h) = "gone"
  BY DEF Status
<1>5. CASE Status(h) = "live"
  <2>1. OT!End({h})
    BY <1>2, <1>3, <1>5 DEF OT!End, holding
  <2> QED
    BY <2>1 DEF OT!Next
<1>6. CASE Status(h) = "gone"
  <2>1. statuses' = statuses
    BY <1>2, <1>3, <1>6 DEF statuses
  <2> QED
    BY <2>1, Stutters
<1> QED
  BY <1>4, <1>5, <1>6

LEMMA ReadRefines ==
  ASSUME IInv, NEW w \in Workers, NEW u \in Users, NEW r \in sent,
         ReadChallenge(w, u, r)
  PROVE  OT!Next
<1>1. PICK h \in Challenges : h = r.challenge
  BY DEF IInv, TypeOK, Response
<1>2. /\ work[w] = None /\ work'[w] # None /\ work'[w].resp = r
      /\ \A v \in Workers : v # w => work'[v] = work[v]
  BY StartWork DEF IInv
<1>3. Status(h) = "live"
  BY <1>1 DEF ReadChallenge, Usable, Status
<1>4. \A g \in Challenges :
        HoldersOf(g)' = IF g = h THEN HoldersOf(g) \cup {w} ELSE HoldersOf(g)
  BY <1>1, <1>2 DEF HoldersOf
<1>5. holding' = [holding EXCEPT ![h] = @ \cup {w}]
  <2>1. holding' = [g \in Challenges |->
                      IF g = h THEN HoldersOf(g) \cup {w} ELSE HoldersOf(g)]
    BY <1>4 DEF holding
  <2>2. [holding EXCEPT ![h] = @ \cup {w}]
          = [g \in Challenges |-> IF g = h THEN HoldersOf(g) \cup {w} ELSE HoldersOf(g)]
    BY DEF holding
  <2> QED
    BY <2>1, <2>2
<1>6. statuses' = statuses /\ uses' = uses
  BY SameStatus DEF ReadChallenge
<1>7. OT!Hold(w, h)
  BY <1>3, <1>5, <1>6 DEF OT!Hold, statuses, holding
<1> QED
  BY <1>7 DEF OT!Next

LEMMA ConsumeRefines ==
  ASSUME IInv, NEW w \in Workers, ConsumeChallenge(w)
  PROVE  [OT!Next]_(OT!vars)
<1>1. TypeOK /\ work[w] # None
  BY DEF IInv, ConsumeChallenge
<1>2. PICK h \in Challenges : h = work[w].resp.challenge
  BY <1>1, WorkFields
<1>3. challenge[h] # None /\ challenge' = [challenge EXCEPT ![h].used = TRUE]
  BY <1>1, <1>2 DEF IInv, RequestsBacked, ConsumeChallenge
<1>4. holding' = holding
  BY <1>1, AdvanceWork, SameHolders DEF ConsumeChallenge
<1>5. uses' = uses
  BY DEF ConsumeChallenge
<1> QED
  BY <1>3, <1>4, <1>5, MarkRefines

(* A request that ends lets go of its challenge.                            *)
LEMMA FinishReleases ==
  ASSUME TypeOK, NEW w \in Workers, work[w] # None, Finish(w)
  PROVE  holding' = [holding EXCEPT ![work[w].resp.challenge] = @ \ {w}]
<1> DEFINE h == work[w].resp.challenge
<1>1. \A g \in Challenges :
        HoldersOf(g)' = IF g = h THEN HoldersOf(g) \ {w} ELSE HoldersOf(g)
  BY FinishWork DEF HoldersOf
<1>2. holding' = [g \in Challenges |->
                    IF g = h THEN HoldersOf(g) \ {w} ELSE HoldersOf(g)]
  BY <1>1 DEF holding
<1>3. [holding EXCEPT ![h] = @ \ {w}]
        = [g \in Challenges |-> IF g = h THEN HoldersOf(g) \ {w} ELSE HoldersOf(g)]
  BY DEF holding
<1> QED
  BY <1>2, <1>3

LEMMA FinishRefines ==
  ASSUME IInv, NEW w \in Workers, work[w] # None, Finish(w),
         challenge' = challenge, uses' = uses
  PROVE  OT!Next
<1>1. TypeOK /\ work[w].resp.challenge \in Challenges /\ statuses' = statuses
  BY WorkFields, SameStatus DEF IInv
<1>2. OT!Release(w, work[w].resp.challenge)
  BY <1>1, FinishReleases DEF OT!Release, statuses, holding
<1> QED
  BY <1>1, <1>2 DEF OT!Next

(* The challenge of a request that succeeds was marked by it or by another. *)
LEMMA SuccessRefines ==
  ASSUME IInv, NEW w \in Workers, AuditSuccess(w)
  PROVE  OT!Next
<1>1. TypeOK /\ work[w] # None /\ work[w].at = "audit" /\ Finish(w)
  BY DEF IInv, AuditSuccess
<1>2. work[w].resp.challenge \in Challenges
  BY <1>1, WorkFields
<1>3. statuses' = statuses /\ uses' = [uses EXCEPT ![work[w].resp.challenge] = @ + 1]
  BY SameStatus DEF AuditSuccess
<1>4. Status(work[w].resp.challenge) = "gone"
  BY <1>1 DEF IInv, RequestsBacked, Status
<1>5. w \in HoldersOf(work[w].resp.challenge)
  BY <1>1 DEF HoldersOf
<1>6. OT!Redeem(w, work[w].resp.challenge)
  BY <1>1, <1>2, <1>3, <1>4, <1>5, FinishReleases DEF OT!Redeem, statuses, holding
<1> QED
  BY <1>2, <1>6 DEF OT!Next

LEMMA NextRefines == IInv /\ [Next]_vars => [OT!Next]_(OT!vars)
<1> SUFFICES ASSUME IInv, [Next]_vars PROVE [OT!Next]_(OT!vars)
  OBVIOUS
<1>t. TypeOK
  BY DEF IInv
<1>1. ASSUME NEW h \in Challenges, NEW u \in Users, SetupGet(h, u) \/ VerifyGet(h, u)
      PROVE  OT!Next
  BY <1>1, AddRefines DEF SetupGet, VerifyGet
<1>2. ASSUME NEW h \in Challenges, Expire(h)
      PROVE  [OT!Next]_(OT!vars)
  <2>1. holding' = holding /\ uses' = uses
    BY <1>2, SameHolders DEF Expire
  <2> QED
    BY <1>2, <2>1, MarkRefines DEF Expire
<1>3. ASSUME NEW h \in Challenges, NEW c \in Creds,
             CreateCredential(h, c) \/ GetAssertion(h, c)
      PROVE  UNCHANGED OT!vars
  <2>1. challenge' = challenge /\ work' = work /\ uses' = uses
    BY <1>3 DEF CreateCredential, GetAssertion, Sign
  <2> QED
    BY <2>1, SameStatus, SameHolders, Stutters
<1>4. ASSUME NEW w \in Workers,
             CredentialNotFound(w) \/ VerificationFails(w) \/ RegistrationFails(w)
               \/ Crash(w)
      PROVE  OT!Next
  <2>1. work[w] # None /\ Finish(w) /\ challenge' = challenge /\ uses' = uses
    BY <1>4 DEF CredentialNotFound, VerificationFails, RegistrationFails, Crash, Checking
  <2> QED
    BY <2>1, FinishRefines
<1>5. ASSUME NEW w \in Workers, VerificationPasses(w)
      PROVE  UNCHANGED OT!vars
  <2>1. work[w] # None /\ challenge' = challenge /\ uses' = uses
    BY <1>5 DEF VerificationPasses, Checking
  <2>2. holding' = holding
    BY <1>5, <1>t, <2>1, LoadWork, SameHolders
  <2> QED
    BY <2>1, <2>2, SameStatus, Stutters
<1>6. ASSUME NEW w \in Workers, SaveSignCount(w)
      PROVE  UNCHANGED OT!vars
  <2>1. work[w] # None /\ challenge' = challenge /\ uses' = uses
    BY <1>6 DEF SaveSignCount
  <2>2. holding' = holding
    BY <1>6, <1>t, <2>1, AdvanceWork, SameHolders DEF SaveSignCount
  <2> QED
    BY <2>1, <2>2, SameStatus, Stutters
<1>7. ASSUME NEW w \in Workers, SaveCredential(w)
      PROVE  [OT!Next]_(OT!vars)
  <2>1. work[w] # None /\ challenge' = challenge /\ uses' = uses
    BY <1>7 DEF SaveCredential, Checking
  <2>2. CASE Finish(w)
    BY <2>1, <2>2, FinishRefines
  <2>3. CASE work' = [work EXCEPT ![w].at = "audit"]
    <3>1. holding' = holding
      BY <1>t, <2>1, <2>3, AdvanceWork, SameHolders
    <3> QED
      BY <2>1, <3>1, SameStatus, Stutters
  <2> QED
    BY <1>7, <2>2, <2>3 DEF SaveCredential
<1>8. CASE UNCHANGED vars
  BY <1>8, SameStatus, SameHolders, Stutters DEF vars
<1> QED
  BY <1>1, <1>2, <1>3, <1>4, <1>5, <1>6, <1>7, <1>8, ReadRefines, ConsumeRefines,
     SuccessRefines DEF Next

(* A challenge is a one-time token: whichever requests overlap, one that    *)
(* reads the row after it was used or has expired gets nowhere, on either   *)
(* page (verify.py:126).                                                    *)
THEOREM ChallengesAreOneTime == Spec => OneTimeChallenges
BY Invariance, InitRefines, NextRefines, PTL DEF Spec, OneTimeChallenges, OT!Spec

-----------------------------------------------------------------------------
(* What OneTime_proofs shows of the abstract token, instantiated as the    *)
(* mapping instantiates OneTime.                                           *)
OTP == INSTANCE OneTime_proofs WITH Tokens <- Challenges,
                                    status <- [h \in Challenges |-> Status(h)],
                                    holders <- [h \in Challenges |-> HoldersOf(h)],
                                    uses <- uses

LEMMA SameAbstraction == OT!Spec => OTP!Spec
<1>1. OT!Init => OTP!Init
  BY DEF OT!Init, OTP!Init
<1>2. [OT!Next]_(OT!vars) => [OTP!Next]_(OTP!vars)
  BY DEF OT!vars, OT!Next, OT!Issue, OT!Hold, OT!End, OT!Redeem, OT!Release,
         OTP!vars, OTP!Next, OTP!Issue, OTP!Hold, OTP!End, OTP!Redeem, OTP!Release
<1> QED
  BY <1>1, <1>2, PTL DEF OT!Spec, OTP!Spec

LEMMA SameCardinality ==
  /\ OTP!IsFiniteSet(Workers)
  /\ OTP!Cardinality(Workers) = Cardinality(Workers)
<1>1. OTP!IsFiniteSet(Workers)
  BY WorkersAssumption DEF IsFiniteSet, OTP!IsFiniteSet
<1>2. OTP!Cardinality(Workers) = Cardinality(Workers)
  BY DEF Cardinality, OTP!Cardinality
<1> QED
  BY <1>1, <1>2

(* A response that is posted again and again counts as a success at most    *)
(* once per gunicorn worker, and with one worker, once (verify.py:126).     *)
UsesBounded == \A h \in Challenges : uses[h] <= Cardinality(Workers)

THEOREM ChallengeUsesBounded == Spec => []UsesBounded
<1>1. OTP!Spec => []OTP!UsesBounded
  BY SameCardinality, OTP!BoundedUse
<1>2. OTP!UsesBounded => UsesBounded
  BY SameCardinality DEF OTP!UsesBounded, UsesBounded
<1> QED
  BY <1>1, <1>2, ChallengesAreOneTime, SameAbstraction, PTL DEF OneTimeChallenges
=============================================================================
