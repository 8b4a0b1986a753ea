-------------------------- MODULE LoginFlow_proofs --------------------------
(***************************************************************************)
(* LoginFlow is type correct, every authorization code is backed by a      *)
(* factor its user passed in the login it belongs to, a revoked client     *)
(* gets no code, and requests that overlap share a nonce, or a verified    *)
(* session, no more often than there are workers.                          *)
(***************************************************************************)
EXTENDS LoginHistory, FiniteSetTheorems, TLAPS

(* CodeBacked is not inductive: a code takes its login and its user from a  *)
(* session that has been in a cookie and in requests under way, each a copy *)
(* that may be out of date.  What makes it true is that every copy, however *)
(* old, is backed by the history in this sense.                             *)
Backed(s, a, p) ==
  s.req # None =>
    /\ s.req.login \in DOMAIN a
    /\ a[s.req.login] = s.req.query
    /\ s.user = s.req.query.user
    /\ s.verified => [login |-> s.req.login, user |-> s.user] \in p

JarBacked == \A b \in Browsers : Backed(jar[b], asked, proved)

FlightBacked ==
  \A w \in Workers :
    /\ Backed(flight[w].sess, asked, proved)
    /\ flight[w].at # "idle" => flight[w].browser \in Browsers
    /\ flight[w].at \in {"issue", "save"} =>
         /\ flight[w].query \in Query
         /\ Continues(flight[w].sess, flight[w].query)

IInv == TypeOK /\ JarBacked /\ FlightBacked /\ CodeBacked

-----------------------------------------------------------------------------
(* What Next's actions do to sessions keeps them sessions.                  *)
LEMMA EmptyIsSession == EmptySession \in Session /\ Idle \in Flight
BY DEF EmptySession, Session, Idle, Flight

LEMMA SessionTypes ==
  ASSUME NEW s \in Session
  PROVE  /\ ErrorSession(s) \in Session
         /\ IssuedSession(s) \in Session
         /\ VerifiedSession(s) \in Session
         /\ [s EXCEPT !.backup = None] \in Session
BY DEF Session, ErrorSession, IssuedSession, VerifiedSession

LEMMA EnrolledSessionType ==
  ASSUME NEW s \in Session, HasSession(s)
  PROVE  /\ s.user \in Users
         /\ s.req \in OidcRequest
         /\ s.req.login \in Nat
         /\ [VerifiedSession(s) EXCEPT !.backup = s.user] \in Session
BY DEF Session, HasSession, VerifiedSession, OidcRequest

LEMMA StartedSessionType ==
  ASSUME NEW s \in Session, NEW q \in Query, asked \in Seq(Query)
  PROVE  StartedSession(s, q) \in Session
<1>1. Len(asked) + 1 \in Nat
  OBVIOUS
<1>2. [login |-> Len(asked) + 1, query |-> q] \in OidcRequest
  BY <1>1 DEF OidcRequest
<1>3. q.user \in Users
  BY DEF Query
<1> QED
  BY <1>2, <1>3 DEF StartedSession, Session

(* An answer is a flight at "reply" that carries a session.                 *)
LEMMA AnswerType ==
  ASSUME flight \in [Workers -> Flight], NEW w \in Workers,
         NEW b \in Browsers \cup {None}, NEW s \in Session, Answer(w, b, s)
  PROVE  flight' \in [Workers -> Flight]
BY DEF Answer, Flight

LEMMA AnswerOnlyType ==
  ASSUME flight \in [Workers -> Flight], NEW w \in Workers, NEW b \in Browsers,
         AnswerOnly(w, b)
  PROVE  flight' \in [Workers -> Flight]
BY EmptyIsSession DEF AnswerOnly, Flight, Idle

-----------------------------------------------------------------------------
(* Init is spelled out with every set of factors it allows.                 *)
LEMMA InitTypeOK == Init => TypeOK
<1> SUFFICES ASSUME Init PROVE TypeOK
  OBVIOUS
<1>1. jar \in [Browsers -> Session] /\ flight \in [Workers -> Flight]
  BY EmptyIsSession DEF Init
<1>2. enrolled \in [Users -> SUBSET Methods]
  BY DEF Init, Methods
<1>3. active \subseteq Clients /\ proved \subseteq Proof
  BY DEF Init
<1>4. codes \in Seq(Code) /\ asked \in Seq(Query)
  BY DEF Init
<1> QED
  BY <1>1, <1>2, <1>3, <1>4 DEF TypeOK

(* The actions in which a worker answers without touching the database.     *)
LEMMA FlightOnlyTypeOK ==
  ASSUME TypeOK, flight' \in [Workers -> Flight],
         UNCHANGED <<jar, active, enrolled, codes, asked, proved>>
  PROVE  TypeOK'
BY DEF TypeOK

LEMMA AuthorizeTypeOK ==
  ASSUME TypeOK, NEW w \in Workers, NEW b \in Browsers, NEW q \in Query,
         AuthorizePhase1(w, b, q) \/ AuthorizePhase2(w, b, q)
  PROVE  TypeOK'
<1>1. jar[b] \in Session
  BY DEF TypeOK
<1>2. CASE AuthorizePhase1(w, b, q) /\ q.client \in active
  <2>1. StartedSession(jar[b], q) \in Session
    BY <1>1, StartedSessionType DEF TypeOK
  <2>2. flight' \in [Workers -> Flight]
    BY <1>2, <2>1, AnswerType DEF AuthorizePhase1, TypeOK
  <2>3. asked' \in Seq(Query)
    <3>1. asked' = Append(asked, q)
      BY <1>2 DEF AuthorizePhase1
    <3>2. asked \in Seq(Query)
      BY DEF TypeOK
    <3> QED
      BY <3>1, <3>2
  <2> QED
    BY <1>2, <2>2, <2>3 DEF AuthorizePhase1, TypeOK
<1>3. CASE AuthorizePhase1(w, b, q) /\ q.client \notin active
  <2>1. flight' \in [Workers -> Flight]
    BY <1>3, AnswerOnlyType DEF AuthorizePhase1, TypeOK
  <2> QED
    BY <1>3, <2>1, FlightOnlyTypeOK DEF AuthorizePhase1
<1>4. CASE AuthorizePhase2(w, b, q)
  <2>1. flight' \in [Workers -> Flight]
    BY <1>1, <1>4 DEF AuthorizePhase2, TypeOK, Flight
  <2> QED
    BY <1>4, <2>1, FlightOnlyTypeOK DEF AuthorizePhase2
<1> QED
  BY <1>2, <1>3, <1>4

LEMMA FactorPassTypeOK ==
  ASSUME TypeOK, NEW w \in Workers, NEW b \in Browsers, NEW m \in Methods,
         FactorPass(w, b, m)
  PROVE  TypeOK'
<1> DEFINE s == jar[b]
<1>1. s \in Session /\ HasSession(s)
  BY DEF TypeOK, FactorPass
<1>2. flight' \in [Workers -> Flight]
  BY <1>1, SessionTypes, AnswerType DEF FactorPass, TypeOK
<1>3. enrolled' \in [Users -> SUBSET Methods]
  <2>1. CASE enrolled' = enrolled
    BY <2>1 DEF TypeOK
  <2>2. CASE enrolled' = [enrolled EXCEPT ![s.user] = @ \ {"backup"}]
    BY <2>2 DEF TypeOK
  <2> QED
    BY <2>1, <2>2 DEF FactorPass
<1>4. proved' \subseteq Proof
  <2>1. s.user \in Users /\ s.req.login \in Nat
    BY <1>1, EnrolledSessionType
  <2>2. [login |-> s.req.login, user |-> s.user] \in Proof
    BY <2>1 DEF Proof
  <2> QED
    BY <2>2 DEF FactorPass, TypeOK
<1> QED
  BY <1>2, <1>3, <1>4 DEF FactorPass, TypeOK

LEMMA EnrolPassTypeOK ==
  ASSUME TypeOK, NEW w \in Workers, NEW b \in Browsers, NEW m \in Methods,
         EnrolPass(w, b, m)
  PROVE  TypeOK'
<1> DEFINE s == jar[b]
<1>1. s \in Session /\ HasSession(s)
  BY DEF TypeOK, EnrolPass
<1>2. flight' \in [Workers -> Flight]
  BY <1>1, EnrolledSessionType, AnswerType DEF EnrolPass, TypeOK
<1>3. enrolled' \in [Users -> SUBSET Methods]
  <2>1. {m, "backup"} \subseteq Methods
    BY DEF Methods
  <2> QED
    BY <2>1 DEF EnrolPass, TypeOK
<1>4. proved' \subseteq Proof
  <2>1. s.user \in Users /\ s.req.login \in Nat
    BY <1>1, EnrolledSessionType
  <2>2. [login |-> s.req.login, user |-> s.user] \in Proof
    BY <2>1 DEF Proof
  <2> QED
    BY <2>2 DEF EnrolPass, TypeOK
<1> QED
  BY <1>2, <1>3, <1>4 DEF EnrolPass, TypeOK

(* The pages that only render, refuse, or drop keys of the session.         *)
LEMMA PageTypeOK ==
  ASSUME TypeOK, NEW w \in Workers, NEW b \in Browsers,
         \/ NoSession(w, b)
         \/ FactorFail(w, b)
         \/ TotpSetupGet(w, b)
         \/ AccessDenied(w, b)
         \/ SetupDone(w, b)
  PROVE  TypeOK'
<1>1. jar[b] \in Session
  BY DEF TypeOK
<1>2. CASE NoSession(w, b)
  BY <1>2, AnswerOnlyType, FlightOnlyTypeOK DEF NoSession, TypeOK
<1>3. CASE FactorFail(w, b)
  BY <1>3, AnswerOnlyType, FlightOnlyTypeOK DEF FactorFail, TypeOK
<1>4. CASE TotpSetupGet(w, b)
  <2>1. flight' \in [Workers -> Flight]
    BY <1>4, AnswerOnlyType DEF TotpSetupGet, TypeOK
  <2>2. enrolled' \in [Users -> SUBSET Methods]
    BY <1>4 DEF TotpSetupGet, TypeOK
  <2> QED
    BY <1>4, <2>1, <2>2 DEF TotpSetupGet, TypeOK
<1>5. CASE AccessDenied(w, b)
  <2>1. flight' \in [Workers -> Flight]
    BY <1>1, <1>5, SessionTypes, AnswerType DEF AccessDenied, TypeOK
  <2> QED
    BY <1>5, <2>1, FlightOnlyTypeOK DEF AccessDenied
<1>6. CASE SetupDone(w, b)
  <2>1. flight' \in [Workers -> Flight]
    BY <1>1, <1>6, SessionTypes, AnswerType, AnswerOnlyType DEF SetupDone, TypeOK
  <2> QED
    BY <1>6, <2>1, FlightOnlyTypeOK DEF SetupDone
<1> QED
  BY <1>2, <1>3, <1>4, <1>5, <1>6

-----------------------------------------------------------------------------
(* The history only grows, so what was backed stays backed.                 *)
Grows(a, p, a2, p2) == /\ DOMAIN a \subseteq DOMAIN a2
                       /\ \A i \in DOMAIN a : a2[i] = a[i]
                       /\ p \subseteq p2

LEMMA BackedGrows ==
  ASSUME NEW s, NEW a, NEW p, NEW a2, NEW p2, Grows(a, p, a2, p2), Backed(s, a, p)
  PROVE  Backed(s, a2, p2)
BY DEF Grows, Backed

LEMMA NoRequestBacked ==
  ASSUME NEW s \in Session, NEW a, NEW p
  PROVE  Backed(ErrorSession(s), a, p) /\ Backed(IssuedSession(s), a, p)
BY DEF Session, ErrorSession, IssuedSession, Backed

LEMMA ShownCodesBacked ==
  ASSUME NEW s \in Session, NEW a, NEW p, NEW u, Backed(s, a, p)
  PROVE  Backed([s EXCEPT !.backup = u], a, p)
BY DEF Session, Backed

LEMMA VerifiedBacked ==
  ASSUME NEW s \in Session, HasSession(s), NEW a, NEW p, Backed(s, a, p)
  PROVE  Backed(VerifiedSession(s), a, p \cup {[login |-> s.req.login, user |-> s.user]})
BY DEF Session, HasSession, VerifiedSession, Backed

LEMMA StartedBacked ==
  ASSUME NEW s \in Session, NEW q \in Query, NEW p, asked \in Seq(Query)
  PROVE  /\ Backed(StartedSession(s, q), Append(asked, q), p)
         /\ Grows(asked, p, Append(asked, q), p)
<1> DEFINE a2 == Append(asked, q)
           n == Len(asked) + 1
           t == StartedSession(s, q)
<1>1. /\ n \in DOMAIN a2
      /\ a2[n] = q
  OBVIOUS
<1>2. Grows(asked, p, a2, p)
  <2>1. DOMAIN asked = 1 .. Len(asked) /\ DOMAIN a2 = 1 .. n /\ Len(asked) \in Nat
    OBVIOUS
  <2>2. \A i \in 1 .. Len(asked) : a2[i] = asked[i]
    OBVIOUS
  <2> QED
    BY <2>1, <2>2 DEF Grows
<1>3. /\ t.req = [login |-> n, query |-> q]
      /\ t.user = q.user
      /\ t.verified = FALSE
  BY DEF StartedSession, Session
<1>4. Backed(t, a2, p)
  BY <1>1, <1>3 DEF Backed
<1> QED
  BY <1>2, <1>4

(* The invariant of the history, of every copy of a session and of the      *)
(* codes, after a step that leaves cookies and codes alone and gives the    *)
(* worker a flight that is backed.                                          *)
BackedAll == JarBacked /\ FlightBacked /\ CodeBacked

LEMMA FlightStepBacked ==
  ASSUME BackedAll, TypeOK, NEW w \in Workers, NEW f \in Flight,
         flight' = [flight EXCEPT ![w] = f],
         jar' = jar, codes' = codes,
         Grows(asked, proved, asked', proved'),
         Backed(f.sess, asked', proved'),
         f.at # "idle" => f.browser \in Browsers,
         f.at \in {"issue", "save"} => f.query \in Query /\ Continues(f.sess, f.query)
  PROVE  BackedAll'
<1>1. JarBacked'
  BY BackedGrows DEF BackedAll, JarBacked
<1>2. FlightBacked'
  <2> SUFFICES ASSUME NEW v \in Workers
      PROVE  /\ Backed(flight'[v].sess, asked', proved')
             /\ flight'[v].at # "idle" => flight'[v].browser \in Browsers
             /\ flight'[v].at \in {"issue", "save"} =>
                  /\ flight'[v].query \in Query
                  /\ Continues(flight'[v].sess, flight'[v].query)
    BY DEF FlightBacked
  <2>1. CASE v = w
    BY <2>1 DEF TypeOK
  <2>2. CASE v # w
    <3>1. flight'[v] = flight[v]
      BY <2>2 DEF TypeOK
    <3>2. Backed(flight[v].sess, asked', proved')
      BY BackedGrows DEF BackedAll, FlightBacked
    <3> QED
      BY <3>1, <3>2 DEF BackedAll, FlightBacked
  <2> QED
    BY <2>1, <2>2
<1>3. CodeBacked'
  BY DEF BackedAll, CodeBacked, Grows
<1> QED
  BY <1>1, <1>2, <1>3 DEF BackedAll

(* The two forms of a step in which a worker gets its answer.               *)
LEMMA AnswerBacked ==
  ASSUME BackedAll, TypeOK, NEW w \in Workers, NEW b \in Browsers,
         NEW s \in Session, Answer(w, b, s),
         jar' = jar, codes' = codes,
         Grows(asked, proved, asked', proved'),
         Backed(s, asked', proved')
  PROVE  BackedAll'
<1> DEFINE f == [at |-> "reply", browser |-> b, sess |-> s,
                 query |-> None, cookie |-> TRUE]
<1>1. f \in Flight
  BY DEF Flight
<1>2. flight' = [flight EXCEPT ![w] = f]
  BY DEF Answer
<1>3. /\ f.sess = s
      /\ f.browser \in Browsers
      /\ f.at \notin {"issue", "save"}
  OBVIOUS
<1> HIDE DEF f
<1> QED
  BY <1>1, <1>2, <1>3, FlightStepBacked

LEMMA AnswerOnlyBacked ==
  ASSUME BackedAll, TypeOK, NEW w \in Workers, NEW b \in Browsers,
         AnswerOnly(w, b), jar' = jar, codes' = codes,
         Grows(asked, proved, asked', proved')
  PROVE  BackedAll'
<1> DEFINE f == [Idle EXCEPT !.at = "reply", !.browser = b]
<1>1. f \in Flight
  BY EmptyIsSession DEF Flight, Idle
<1>2. flight' = [flight EXCEPT ![w] = f]
  BY DEF AnswerOnly
<1>3. /\ f.sess = EmptySession
      /\ f.browser \in Browsers
      /\ f.at \notin {"issue", "save"}
  BY DEF Idle
<1>4. Backed(EmptySession, asked', proved')
  BY DEF EmptySession, Backed
<1> HIDE DEF f
<1> QED
  BY <1>1, <1>2, <1>3, <1>4, FlightStepBacked

LEMMA GrowsRefl ==
  ASSUME NEW a, NEW p, NEW p2, p \subseteq p2
  PROVE  Grows(a, p, a, p2)
BY DEF Grows

LEMMA InitBacked == Init => BackedAll
<1> SUFFICES ASSUME Init PROVE BackedAll
  OBVIOUS
<1>1. Backed(EmptySession, asked, proved)
  BY DEF EmptySession, Backed
<1>2. JarBacked
  BY <1>1 DEF Init, JarBacked
<1>3. FlightBacked
  BY <1>1 DEF Init, FlightBacked, Idle
<1>4. CodeBacked
  BY DEF Init, CodeBacked
<1> QED
  BY <1>2, <1>3, <1>4 DEF BackedAll

-----------------------------------------------------------------------------
(* One lemma per group of actions: the history and every copy of a session  *)
(* still agree after the step.                                              *)
LEMMA AuthorizeBacked ==
  ASSUME BackedAll, TypeOK, NEW w \in Workers, NEW b \in Browsers, NEW q \in Query,
         AuthorizePhase1(w, b, q) \/ AuthorizePhase2(w, b, q)
  PROVE  BackedAll'
<1>1. jar[b] \in Session /\ Backed(jar[b], asked, proved) /\ asked \in Seq(Query)
  BY DEF TypeOK, BackedAll, JarBacked
<1>2. CASE AuthorizePhase1(w, b, q) /\ q.client \in active
  <2> DEFINE t == StartedSession(jar[b], q)
  <2>1. asked' = Append(asked, q) /\ Answer(w, b, t)
    BY <1>2 DEF AuthorizePhase1
  <2>2. jar' = jar /\ codes' = codes /\ proved' = proved
    BY <1>2 DEF AuthorizePhase1
  <2>3. t \in Session
    BY <1>1, StartedSessionType
  <2>4. Backed(t, asked', proved') /\ Grows(asked, proved, asked', proved')
    BY <1>1, <2>1, <2>2, StartedBacked
  <2> HIDE DEF t
  <2> QED
    BY <2>1, <2>2, <2>3, <2>4, AnswerBacked
<1>3. CASE AuthorizePhase1(w, b, q) /\ q.client \notin active
  BY <1>3, GrowsRefl, AnswerOnlyBacked DEF AuthorizePhase1
<1>4. CASE AuthorizePhase2(w, b, q)
  <2> DEFINE f == [at |-> "issue", browser |-> b, sess |-> jar[b],
                   query |-> q, cookie |-> FALSE]
  <2>1. f \in Flight
    BY <1>1 DEF Flight
  <2>2. /\ f.sess = jar[b]
        /\ f.browser = b
        /\ f.query = q
    OBVIOUS
  <2>3. /\ flight' = [flight EXCEPT ![w] = f]
        /\ Continues(jar[b], q)
        /\ jar' = jar /\ codes' = codes /\ asked' = asked /\ proved' = proved
    BY <1>4 DEF AuthorizePhase2
  <2>4. Grows(asked, proved, asked', proved')
    BY <2>3, GrowsRefl
  <2> HIDE DEF f
  <2>5. Backed(f.sess, asked', proved') /\ Continues(f.sess, f.query)
    BY <1>1, <2>2, <2>3
  <2> QED
    BY <2>1, <2>2, <2>3, <2>4, <2>5, FlightStepBacked
<1> QED
  BY <1>2, <1>3, <1>4

LEMMA FactorBacked ==
  ASSUME BackedAll, TypeOK, NEW w \in Workers, NEW b \in Browsers, NEW m \in Methods,
         FactorPass(w, b, m) \/ EnrolPass(w, b, m)
  PROVE  BackedAll'
<1> DEFINE s == jar[b]
           p == proved \cup {[login |-> s.req.login, user |-> s.user]}
           t == [VerifiedSession(s) EXCEPT !.backup = s.user]
<1>1. s \in Session /\ Backed(s, asked, proved) /\ HasSession(s)
  BY DEF TypeOK, BackedAll, JarBacked, FactorPass, EnrolPass
<1>2. jar' = jar /\ codes' = codes /\ asked' = asked /\ proved' = p
  BY DEF FactorPass, EnrolPass
<1>3. Grows(asked, proved, asked', proved')
  BY <1>2, GrowsRefl
<1>4. VerifiedSession(s) \in Session /\ t \in Session
  BY <1>1, SessionTypes, EnrolledSessionType
<1>5. Backed(VerifiedSession(s), asked', proved')
  BY <1>1, <1>2, VerifiedBacked
<1>6. Backed(t, asked', proved')
  BY <1>4, <1>5, ShownCodesBacked
<1>7. Answer(w, b, VerifiedSession(s)) \/ Answer(w, b, t)
  BY DEF FactorPass, EnrolPass
<1> QED
  BY <1>2, <1>3, <1>4, <1>5, <1>6, <1>7, AnswerBacked

LEMMA PageBacked ==
  ASSUME BackedAll, TypeOK, NEW w \in Workers, NEW b \in Browsers,
         \/ NoSession(w, b)
         \/ FactorFail(w, b)
         \/ TotpSetupGet(w, b)
         \/ AccessDenied(w, b)
         \/ SetupDone(w, b)
  PROVE  BackedAll'
<1> DEFINE s == jar[b]
           t == [s EXCEPT !.backup = None]
<1>1. s \in Session /\ Backed(s, asked, proved)
  BY DEF TypeOK, BackedAll, JarBacked
<1>2. jar' = jar /\ codes' = codes /\ asked' = asked /\ proved' = proved
  BY DEF NoSession, FactorFail, TotpSetupGet, AccessDenied, SetupDone
<1>3. Grows(asked, proved, asked', proved')
  BY <1>2, GrowsRefl
<1>4. /\ ErrorSession(s) \in Session /\ Backed(ErrorSession(s), asked', proved')
      /\ t \in Session /\ Backed(t, asked', proved')
  BY <1>1, <1>2, SessionTypes, NoRequestBacked, ShownCodesBacked
<1>5. \/ AnswerOnly(w, b)
      \/ Answer(w, b, ErrorSession(s))
      \/ Answer(w, b, t)
  BY DEF NoSession, FactorFail, TotpSetupGet, AccessDenied, SetupDone
<1> QED
  BY <1>2, <1>3, <1>4, <1>5, AnswerBacked, AnswerOnlyBacked

(* Phase 2 after the redirect.  The session of a request in it is verified  *)
(* for the client of its query, so the code it saves is backed.             *)
LEMMA ValidatePreserves ==
  ASSUME BackedAll, TypeOK, NEW w \in Workers, ValidateRequest(w)
  PROVE  TypeOK' /\ BackedAll'
<1> DEFINE f == flight[w]
<1>1. f \in Flight /\ f.sess \in Session
  BY DEF TypeOK, Flight
<1>2. f.at = "issue" /\ f.browser \in Browsers /\ f.query \in Query
      /\ Continues(f.sess, f.query) /\ Backed(f.sess, asked, proved)
  BY DEF ValidateRequest, BackedAll, FlightBacked
<1>3. UNCHANGED <<jar, active, enrolled, codes, asked, proved>>
  BY DEF ValidateRequest
<1>4. Grows(asked, proved, asked', proved')
  BY <1>3, GrowsRefl
<1>5. CASE flight' = [flight EXCEPT ![w].at = "save"]
  <2> DEFINE g == [f EXCEPT !.at = "save"]
  <2>1. g \in Flight
    BY <1>1 DEF Flight
  <2>2. /\ g.sess = f.sess
        /\ g.query = f.query
        /\ g.browser = f.browser
    BY <1>1 DEF Flight
  <2>3. flight' = [flight EXCEPT ![w] = g]
    BY <1>5
  <2>4. TypeOK'
    <3>1. flight' \in [Workers -> Flight]
      BY <2>1, <2>3 DEF TypeOK
    <3> QED
      BY <1>3, <3>1, FlightOnlyTypeOK
  <2> HIDE DEF g
  <2>5. BackedAll'
    BY <1>2, <1>3, <1>4, <2>1, <2>2, <2>3, FlightStepBacked
  <2> QED
    BY <2>4, <2>5
<1>6. CASE Answer(w, f.browser, IssuedSession(f.sess))
  <2>1. IssuedSession(f.sess) \in Session
    BY <1>1, SessionTypes
  <2>2. flight' \in [Workers -> Flight]
    BY <1>2, <1>6, <2>1, AnswerType DEF TypeOK
  <2>3. TypeOK'
    BY <1>3, <2>2, FlightOnlyTypeOK
  <2>4. Backed(IssuedSession(f.sess), asked', proved')
    BY <1>1, NoRequestBacked
  <2>5. BackedAll'
    BY <1>2, <1>3, <1>4, <1>6, <2>1, <2>4, AnswerBacked
  <2> QED
    BY <2>3, <2>5
<1> QED
  BY <1>5, <1>6 DEF ValidateRequest

LEMMA SavePreserves ==
  ASSUME BackedAll, TypeOK, NEW w \in Workers, SaveAuthorizationCode(w)
  PROVE  TypeOK' /\ BackedAll'
<1> DEFINE f == flight[w]
           r == f.sess.req
           c == [login |-> r.login, client |-> f.query.client,
                 user |-> f.sess.user, nonce |-> f.query.nonce]
<1>1. f \in Flight /\ f.sess \in Session
  BY DEF TypeOK, Flight
<1>2. f.at = "save" /\ f.browser \in Browsers /\ f.query \in Query
      /\ Continues(f.sess, f.query) /\ Backed(f.sess, asked, proved)
  BY DEF SaveAuthorizationCode, BackedAll, FlightBacked
<1>3. UNCHANGED <<jar, active, enrolled, asked, proved>>
  BY DEF SaveAuthorizationCode
<1>4. codes' = Append(codes, c) /\ Answer(w, f.browser, IssuedSession(f.sess))
  BY DEF SaveAuthorizationCode
<1>5. r \in OidcRequest /\ f.sess.verified /\ f.query.client = r.query.client
  BY <1>1, <1>2 DEF Continues, Session
<1>6. /\ r.login \in DOMAIN asked /\ asked[r.login] = r.query
      /\ f.sess.user = r.query.user
      /\ [login |-> r.login, user |-> f.sess.user] \in proved
  BY <1>2, <1>5 DEF Continues, Backed
<1>7. c \in Code
  BY <1>2, <1>5, <1>6 DEF Code, OidcRequest, Query
<1>8. IssuedSession(f.sess) \in Session
  BY <1>1, SessionTypes
<1>9. TypeOK'
  <2>1. flight' \in [Workers -> Flight]
    BY <1>2, <1>4, <1>8, AnswerType DEF TypeOK
  <2>2. codes' \in Seq(Code)
    <3>1. codes \in Seq(Code)
      BY DEF TypeOK
    <3> QED
      BY <1>4, <1>7, <3>1
  <2> QED
    BY <1>3, <2>1, <2>2 DEF TypeOK
<1>10. BackedAll'
  <2>1. Grows(asked, proved, asked', proved')
    BY <1>3, GrowsRefl
  <2> DEFINE g == [at |-> "reply", browser |-> f.browser,
                   sess |-> IssuedSession(f.sess), query |-> None, cookie |-> TRUE]
  <2>2. JarBacked'
    BY <1>3 DEF BackedAll, JarBacked
  <2>3. FlightBacked'
    <3>1. Backed(IssuedSession(f.sess), asked', proved')
      BY <1>1, NoRequestBacked
    <3> SUFFICES ASSUME NEW v \in Workers
        PROVE  /\ Backed(flight'[v].sess, asked', proved')
               /\ flight'[v].at # "idle" => flight'[v].browser \in Browsers
               /\ flight'[v].at \in {"issue", "save"} =>
                    /\ flight'[v].query \in Query
                    /\ Continues(flight'[v].sess, flight'[v].query)
      BY DEF FlightBacked
    <3>2. CASE v = w
      <4>1. flight'[v] = g
        BY <1>4, <3>2 DEF Answer, TypeOK
      <4> QED
        BY <1>2, <3>1, <4>1
    <3>3. CASE v # w
      <4>1. flight'[v] = flight[v]
        BY <1>4, <3>3 DEF Answer, TypeOK
      <4> QED
        BY <1>3, <4>1 DEF BackedAll, FlightBacked
    <3> QED
      BY <3>2, <3>3
  <2>4. CodeBacked'
    <3> DEFINE n == Len(codes)
    <3>1. codes \in Seq(Code) /\ n \in Nat
      BY DEF TypeOK
    <3>2. DOMAIN codes = 1 .. n /\ DOMAIN codes' = 1 .. (n + 1)
      BY <1>4, <1>7, <3>1
    <3>3. codes'[n + 1] = c
      BY <1>4, <1>7, <3>1
    <3>4. \A i \in 1 .. n : codes'[i] = codes[i]
      BY <1>4, <1>7, <3>1
    <3> SUFFICES ASSUME NEW i \in DOMAIN codes'
        PROVE  /\ [login |-> codes'[i].login, user |-> codes'[i].user] \in proved'
               /\ codes'[i].login \in DOMAIN asked'
               /\ asked'[codes'[i].login].user = codes'[i].user
               /\ asked'[codes'[i].login].client = codes'[i].client
      BY DEF CodeBacked
    <3>5. CASE i = n + 1
      <4>1. /\ c.login = r.login
            /\ c.user = f.sess.user
            /\ c.client = f.query.client
        OBVIOUS
      <4> HIDE DEF c
      <4> QED
        BY <1>3, <1>5, <1>6, <3>3, <3>5, <4>1
    <3>6. CASE i \in 1 .. n
      BY <1>3, <3>2, <3>4, <3>6 DEF BackedAll, CodeBacked
    <3> QED
      BY <3>1, <3>2, <3>5, <3>6
  <2> QED
    BY <2>2, <2>3, <2>4 DEF BackedAll
<1> QED
  BY <1>9, <1>10

(* The flight ends: a cookie reaches its browser's jar, or is lost.         *)
LEMMA ReplyPreserves ==
  ASSUME BackedAll, TypeOK, NEW w \in Workers, Reply(w) \/ Drop(w)
  PROVE  TypeOK' /\ BackedAll'
<1> DEFINE f == flight[w]
<1>1. f \in Flight /\ f.sess \in Session /\ Backed(f.sess, asked, proved)
  BY DEF TypeOK, Flight, BackedAll, FlightBacked
<1>2. UNCHANGED <<active, enrolled, codes, asked, proved>>
  BY DEF Reply, Drop
<1>3. flight' = [flight EXCEPT ![w] = Idle]
  BY DEF Reply, Drop
<1>4. jar' = jar \/ jar' = [jar EXCEPT ![f.browser] = f.sess]
  BY DEF Reply, Drop
<1>5. TypeOK'
  <2>1. jar' \in [Browsers -> Session] /\ flight' \in [Workers -> Flight]
    BY <1>1, <1>3, <1>4, EmptyIsSession DEF TypeOK
  <2> QED
    BY <1>2, <2>1 DEF TypeOK
<1>6. JarBacked'
  <2> SUFFICES ASSUME NEW b \in Browsers PROVE Backed(jar'[b], asked, proved)
    BY <1>2 DEF JarBacked
  <2>1. jar'[b] = jar[b] \/ jar'[b] = f.sess
    BY <1>4 DEF TypeOK
  <2> QED
    BY <1>1, <2>1 DEF BackedAll, JarBacked
<1>7. FlightBacked'
  <2> SUFFICES ASSUME NEW v \in Workers
      PROVE  /\ Backed(flight'[v].sess, asked, proved)
             /\ flight'[v].at # "idle" => flight'[v].browser \in Browsers
             /\ flight'[v].at \in {"issue", "save"} =>
                  /\ flight'[v].query \in Query
                  /\ Continues(flight'[v].sess, flight'[v].query)
    BY <1>2 DEF FlightBacked
  <2>1. CASE v = w
    <3>1. flight'[v] = Idle
      BY <1>3, <2>1 DEF TypeOK
    <3>2. Backed(EmptySession, asked, proved)
      BY DEF EmptySession, Backed
    <3> QED
      BY <3>1, <3>2 DEF Idle
  <2>2. CASE v # w
    <3>1. flight'[v] = flight[v]
      BY <1>3, <2>2 DEF TypeOK
    <3> QED
      BY <3>1 DEF BackedAll, FlightBacked
  <2> QED
    BY <2>1, <2>2
<1>8. CodeBacked'
  BY <1>2 DEF BackedAll, CodeBacked
<1> QED
  BY <1>5, <1>6, <1>7, <1>8 DEF BackedAll

LEMMA RevokePreserves ==
  ASSUME BackedAll, TypeOK, NEW c \in Clients, RevokeClient(c)
  PROVE  TypeOK' /\ BackedAll'
<1>1. TypeOK'
  BY DEF TypeOK, RevokeClient
<1>2. BackedAll'
  BY DEF RevokeClient, BackedAll, JarBacked, FlightBacked, CodeBacked
<1> QED
  BY <1>1, <1>2

LEMMA StutterPreserves ==
  ASSUME BackedAll, TypeOK, UNCHANGED vars
  PROVE  TypeOK' /\ BackedAll'
<1>1. TypeOK'
  BY DEF TypeOK, vars
<1>2. BackedAll'
  BY DEF vars, BackedAll, JarBacked, FlightBacked, CodeBacked
<1> QED
  BY <1>1, <1>2

-----------------------------------------------------------------------------
LEMMA NextPreserves ==
  ASSUME IInv, [Next]_vars
  PROVE  IInv'
<1>1. TypeOK /\ BackedAll
  BY DEF IInv, BackedAll
<1>2. ASSUME NEW w \in Workers, NEW b \in Browsers, NEW q \in Query,
             AuthorizePhase1(w, b, q) \/ AuthorizePhase2(w, b, q)
      PROVE  TypeOK' /\ BackedAll'
  BY <1>1, <1>2, AuthorizeTypeOK, AuthorizeBacked
<1>3. ASSUME NEW w \in Workers, NEW b \in Browsers, NEW m \in Methods,
             FactorPass(w, b, m)
      PROVE  TypeOK' /\ BackedAll'
  BY <1>1, <1>3, FactorPassTypeOK, FactorBacked
<1>4. ASSUME NEW w \in Workers, NEW b \in Browsers, NEW m \in Methods,
             EnrolPass(w, b, m)
      PROVE  TypeOK' /\ BackedAll'
  BY <1>1, <1>4, EnrolPassTypeOK, FactorBacked
<1>5. ASSUME NEW w \in Workers, NEW b \in Browsers,
             \/ NoSession(w, b)
             \/ FactorFail(w, b)
             \/ TotpSetupGet(w, b)
             \/ AccessDenied(w, b)
             \/ SetupDone(w, b)
      PROVE  TypeOK' /\ BackedAll'
  BY <1>1, <1>5, PageTypeOK, PageBacked
<1>6. ASSUME NEW w \in Workers, ValidateRequest(w)
      PROVE  TypeOK' /\ BackedAll'
  BY <1>1, <1>6, ValidatePreserves
<1>7. ASSUME NEW w \in Workers, SaveAuthorizationCode(w)
      PROVE  TypeOK' /\ BackedAll'
  BY <1>1, <1>7, SavePreserves
<1>8. ASSUME NEW w \in Workers, Reply(w) \/ Drop(w)
      PROVE  TypeOK' /\ BackedAll'
  BY <1>1, <1>8, ReplyPreserves
<1>9. ASSUME NEW c \in Clients, RevokeClient(c)
      PROVE  TypeOK' /\ BackedAll'
  BY <1>1, <1>9, RevokePreserves
<1>10. CASE UNCHANGED vars
  BY <1>1, <1>10, StutterPreserves DEF IInv, BackedAll
<1>11. CASE Next
  <2>1. TypeOK' /\ BackedAll'
    BY <1>2, <1>3, <1>4, <1>5, <1>6, <1>7, <1>8, <1>9, <1>11 DEF Next
  <2> QED
    BY <2>1 DEF IInv, BackedAll
<1> QED
  BY <1>10, <1>11

LEMMA InitIInv == Init => IInv
BY InitTypeOK, InitBacked DEF IInv, BackedAll

THEOREM Inductive == Spec => []IInv
<1>1. Init => IInv
  BY InitIInv
<1>2. IInv /\ [Next]_vars => IInv'
  BY NextPreserves
<1> QED
  BY <1>1, <1>2, PTL DEF Spec

(* Every variable keeps its shape, for any number of browsers, users,       *)
(* clients and workers and any bounds.                                      *)
THEOREM TypeCorrect == Spec => []TypeOK
<1>1. IInv => TypeOK
  BY DEF IInv
<1> QED
  BY <1>1, Inductive, PTL

(* Every authorization code stands for a login whose user passed a factor,  *)
(* however many requests overlap and whichever replies are lost.            *)
THEOREM CodesAreBacked == Spec => []CodeBacked
<1>1. IInv => CodeBacked
  BY DEF IInv
<1> QED
  BY <1>1, Inductive, PTL

-----------------------------------------------------------------------------
(* A step that neither sends a request of c to "save" nor stores a code     *)
(* keeps c drained.                                                         *)
LEMMA DrainedStep ==
  ASSUME flight \in [Workers -> Flight], NEW c \in Clients, Drained(c),
         NEW w \in Workers, NEW f, flight' = [flight EXCEPT ![w] = f],
         f.at # "save" \/ f.query.client \in active,
         active' = active, codes' = codes
  PROVE  Drained(c)' /\ CodesOf(c)' = CodesOf(c)
<1>1. CodesOf(c)' = CodesOf(c)
  BY DEF CodesOf
<1>2. c \notin active'
  BY DEF Drained
<1>3. ASSUME NEW v \in Workers
      PROVE  ~(flight'[v].at = "save" /\ flight'[v].query.client = c)
  <2>1. CASE v = w
    BY <1>2, <2>1
  <2>2. CASE v # w
    BY <2>2 DEF Drained
  <2> QED
    BY <2>1, <2>2
<1> QED
  BY <1>1, <1>2, <1>3 DEF Drained

(* The code that is saved is one of another client: no request for c is     *)
(* at "save".                                                               *)
LEMMA DrainedSave ==
  ASSUME TypeOK, NEW c \in Clients, Drained(c),
         NEW w \in Workers, SaveAuthorizationCode(w), flight[w].query \in Query
  PROVE  Drained(c)' /\ CodesOf(c)' = CodesOf(c)
<1> DEFINE q == flight[w].query
           d == [login |-> flight[w].sess.req.login, client |-> q.client,
                 user |-> flight[w].sess.user, nonce |-> q.nonce]
           n == Len(codes)
<1>1. codes' = Append(codes, d) /\ active' = active /\ flight[w].at = "save"
  BY DEF SaveAuthorizationCode
<1>2. d.client # c
  BY <1>1 DEF Drained
<1>3. codes \in Seq(Code) /\ n \in Nat
  BY DEF TypeOK
<1> HIDE DEF d
<1>4. DOMAIN codes = 1 .. n /\ DOMAIN codes' = 1 .. (n + 1)
  BY <1>1, <1>3
<1>5. codes'[n + 1] = d /\ \A i \in 1 .. n : codes'[i] = codes[i]
  BY <1>1, <1>3
<1>6. CodesOf(c)' = CodesOf(c)
  <2>1. ASSUME NEW i \in 1 .. (n + 1)
        PROVE  codes'[i].client = c <=> (i \in 1 .. n /\ codes[i].client = c)
    <3>1. CASE i = n + 1
      BY <1>2, <1>3, <1>5, <3>1
    <3>2. CASE i \in 1 .. n
      BY <1>5, <3>2
    <3> QED
      BY <1>3, <3>1, <3>2
  <2>2. 1 .. n \subseteq 1 .. (n + 1)
    BY <1>3
  <2> QED
    BY <1>4, <2>1, <2>2 DEF CodesOf
<1>7. Drained(c)'
  <2>1. \A v \in Workers : v # w => flight'[v] = flight[v]
    BY DEF SaveAuthorizationCode, Answer, TypeOK
  <2>2. flight'[w].at = "reply"
    BY DEF SaveAuthorizationCode, Answer, TypeOK
  <2> QED
    BY <1>1, <2>1, <2>2 DEF Drained
<1> QED
  BY <1>6, <1>7

LEMMA NextKeepsDrained ==
  ASSUME IInv, [Next]_vars, NEW c \in Clients, Drained(c)
  PROVE  Drained(c)' /\ CodesOf(c)' = CodesOf(c)
<1>1. TypeOK /\ flight \in [Workers -> Flight]
  BY DEF IInv, TypeOK
<1>2. ASSUME NEW w \in Workers, NEW b, NEW s, Answer(w, b, s),
             active' = active, codes' = codes
      PROVE  Drained(c)' /\ CodesOf(c)' = CodesOf(c)
  <2> DEFINE f == [at |-> "reply", browser |-> b, sess |-> s,
                   query |-> None, cookie |-> TRUE]
  <2>1. flight' = [flight EXCEPT ![w] = f] /\ f.at # "save"
    BY <1>2 DEF Answer
  <2> HIDE DEF f
  <2> QED
    BY <1>1, <1>2, <2>1, DrainedStep
<1>3. ASSUME NEW w \in Workers, NEW b, AnswerOnly(w, b),
             active' = active, codes' = codes
      PROVE  Drained(c)' /\ CodesOf(c)' = CodesOf(c)
  <2> DEFINE f == [Idle EXCEPT !.at = "reply", !.browser = b]
  <2>1. flight' = [flight EXCEPT ![w] = f]
    BY <1>3 DEF AnswerOnly
  <2>2. f.at # "save"
    BY DEF Idle
  <2> HIDE DEF f
  <2> QED
    BY <1>1, <1>3, <2>1, <2>2, DrainedStep
<1>4. ASSUME NEW w \in Workers, NEW b \in Browsers, NEW q \in Query,
             AuthorizePhase1(w, b, q)
      PROVE  Drained(c)' /\ CodesOf(c)' = CodesOf(c)
  BY <1>2, <1>3, <1>4 DEF AuthorizePhase1
<1>5. ASSUME NEW w \in Workers, NEW b \in Browsers, NEW q \in Query,
             AuthorizePhase2(w, b, q)
      PROVE  Drained(c)' /\ CodesOf(c)' = CodesOf(c)
  <2> DEFINE f == [at |-> "issue", browser |-> b, sess |-> jar[b],
                   query |-> q, cookie |-> FALSE]
  <2>1. flight' = [flight EXCEPT ![w] = f] /\ f.at # "save"
        /\ active' = active /\ codes' = codes
    BY <1>5 DEF AuthorizePhase2
  <2> HIDE DEF f
  <2> QED
    BY <1>1, <2>1, DrainedStep
<1>6. ASSUME NEW w \in Workers, NEW b \in Browsers, NEW m \in Methods,
             FactorPass(w, b, m) \/ EnrolPass(w, b, m)
      PROVE  Drained(c)' /\ CodesOf(c)' = CodesOf(c)
  BY <1>2, <1>6 DEF FactorPass, EnrolPass
<1>7. ASSUME NEW w \in Workers, NEW b \in Browsers,
             \/ NoSession(w, b)
             \/ FactorFail(w, b)
             \/ TotpSetupGet(w, b)
             \/ AccessDenied(w, b)
             \/ SetupDone(w, b)
      PROVE  Drained(c)' /\ CodesOf(c)' = CodesOf(c)
  BY <1>2, <1>3, <1>7
     DEF NoSession, FactorFail, TotpSetupGet, AccessDenied, SetupDone
<1>8. ASSUME NEW w \in Workers, ValidateRequest(w)
      PROVE  Drained(c)' /\ CodesOf(c)' = CodesOf(c)
  <2>1. CASE /\ flight[w].query.client \in active
             /\ flight' = [flight EXCEPT ![w].at = "save"]
    <3> DEFINE f == [flight[w] EXCEPT !.at = "save"]
    <3>1. flight[w] \in Flight
      BY <1>1
    <3>2. f.query = flight[w].query
      BY <3>1 DEF Flight
    <3>3. flight' = [flight EXCEPT ![w] = f] /\ active' = active /\ codes' = codes
      BY <1>8, <2>1 DEF ValidateRequest
    <3> HIDE DEF f
    <3> QED
      BY <1>1, <2>1, <3>2, <3>3, DrainedStep
  <2>2. CASE Answer(w, flight[w].browser, IssuedSession(flight[w].sess))
    BY <1>2, <1>8, <2>2 DEF ValidateRequest
  <2> QED
    BY <1>8, <2>1, <2>2 DEF ValidateRequest, QueryClient
<1>9. ASSUME NEW w \in Workers, SaveAuthorizationCode(w)
      PROVE  Drained(c)' /\ CodesOf(c)' = CodesOf(c)
  <2>1. flight[w].query \in Query
    BY <1>9 DEF IInv, FlightBacked, SaveAuthorizationCode
  <2> QED
    BY <1>1, <1>9, <2>1, DrainedSave
<1>10. ASSUME NEW w \in Workers, Reply(w) \/ Drop(w)
       PROVE  Drained(c)' /\ CodesOf(c)' = CodesOf(c)
  <2>1. flight' = [flight EXCEPT ![w] = Idle] /\ active' = active /\ codes' = codes
    BY <1>10 DEF Reply, Drop
  <2>2. Idle.at # "save"
    BY DEF Idle
  <2> QED
    BY <1>1, <2>1, <2>2, DrainedStep
<1>11. ASSUME NEW d \in Clients, RevokeClient(d)
       PROVE  Drained(c)' /\ CodesOf(c)' = CodesOf(c)
  BY <1>11 DEF RevokeClient, Drained, CodesOf
<1>12. CASE UNCHANGED vars
  BY <1>12 DEF vars, Drained, CodesOf
<1>13. CASE Next
  BY <1>4, <1>5, <1>6, <1>7, <1>8, <1>9, <1>10, <1>11, <1>13 DEF Next
<1> QED
  BY <1>12, <1>13

(* Once a client is revoked and no request of it is past Authlib's          *)
(* validation, it gets no code any more.                                    *)
THEOREM RevocationIsFinal == Spec => RevocationHolds
<1>1. IInv /\ [Next]_vars =>
        [\A c \in Clients : Drained(c) => (Drained(c)' /\ CodesOf(c)' = CodesOf(c))]_vars
  BY NextKeepsDrained
<1> QED
  BY <1>1, Inductive, PTL DEF Spec, RevocationHolds

-----------------------------------------------------------------------------
(* NonceBounded is not inductive either: the requests that found a nonce    *)
(* unused and have not stored their code yet count as well.                 *)
NonceCodes(n) == {i \in DOMAIN codes : codes[i].nonce = n}

Savers(n) == {w \in Workers : flight[w].at = "save" /\ flight[w].query.nonce = n}

NonceBudget ==
  \A n \in Nonces :
    Cardinality(NonceCodes(n)) + Cardinality(Savers(n)) <= Cardinality(Workers)

LEMMA NonceSetsFinite ==
  ASSUME TypeOK, NEW n
  PROVE  /\ IsFiniteSet(NonceCodes(n)) /\ Cardinality(NonceCodes(n)) \in Nat
         /\ IsFiniteSet(Savers(n)) /\ Cardinality(Savers(n)) \in Nat
         /\ Cardinality(Savers(n)) <= Cardinality(Workers)
         /\ Cardinality(Workers) \in Nat
<1>1. codes \in Seq(Code)
  BY DEF TypeOK
<1>2. Len(codes) \in Nat /\ DOMAIN codes = 1 .. Len(codes)
  BY <1>1
<1>3. IsFiniteSet(1 .. Len(codes))
  BY <1>2, FS_Interval
<1>4. NonceCodes(n) \in SUBSET (1 .. Len(codes))
  BY <1>2 DEF NonceCodes
<1>5. IsFiniteSet(NonceCodes(n))
  BY <1>3, <1>4, FS_Subset
<1>6. Savers(n) \in SUBSET Workers
  BY DEF Savers
<1>7. IsFiniteSet(Savers(n)) /\ Cardinality(Savers(n)) <= Cardinality(Workers)
  BY <1>6, FS_Subset, WorkersAssumption
<1> QED
  BY <1>5, <1>7, FS_CardinalityType, WorkersAssumption

(* Nearly every step stores no code and brings no request to "save".        *)
NoNewSaver ==
  /\ codes' = codes
  /\ \A v \in Workers : flight'[v].at = "save" => flight'[v] = flight[v]

LEMMA NoNewSaverBudget ==
  ASSUME TypeOK, NonceBudget, NoNewSaver
  PROVE  NonceBudget'
<1> SUFFICES ASSUME NEW n \in Nonces
    PROVE  Cardinality(NonceCodes(n)') + Cardinality(Savers(n)') <= Cardinality(Workers)
  BY DEF NonceBudget
<1>1. NonceCodes(n)' = NonceCodes(n)
  BY DEF NoNewSaver, NonceCodes
<1>2. Savers(n)' \in SUBSET Savers(n)
  BY DEF NoNewSaver, Savers
<1>3. IsFiniteSet(Savers(n)') /\ Cardinality(Savers(n)') <= Cardinality(Savers(n))
  BY <1>2, NonceSetsFinite, FS_Subset
<1>4. Cardinality(Savers(n)') \in Nat
  BY <1>3, FS_CardinalityType
<1>5. Cardinality(NonceCodes(n)) + Cardinality(Savers(n)) <= Cardinality(Workers)
  BY DEF NonceBudget
<1> QED
  BY <1>1, <1>3, <1>4, <1>5, NonceSetsFinite

(* A request comes to "save" only if no code has its nonce yet.             *)
LEMMA ValidatedBudget ==
  ASSUME TypeOK, TypeOK', NonceBudget, NEW w \in Workers,
         ~ExistsNonce(flight[w].query.nonce),
         flight' = [flight EXCEPT ![w].at = "save"], codes' = codes
  PROVE  NonceBudget'
<1> SUFFICES ASSUME NEW n \in Nonces
    PROVE  Cardinality(NonceCodes(n)') + Cardinality(Savers(n)') <= Cardinality(Workers)
  BY DEF NonceBudget
<1>1. NonceCodes(n)' = NonceCodes(n)
  BY DEF NonceCodes
<1>2. Cardinality(NonceCodes(n)) + Cardinality(Savers(n)) <= Cardinality(Workers)
  BY DEF NonceBudget
<1>3. CASE flight[w].query.nonce = n
  <2>1. n # None
    BY NoneAssumption
  <2>2. NonceCodes(n) = {}
    BY <1>3, <2>1 DEF ExistsNonce, NonceCodes
  <2>3. Cardinality(NonceCodes(n)) = 0
    BY <2>2, FS_EmptySet
  <2>4. Cardinality(Savers(n)') <= Cardinality(Workers) /\ Cardinality(Savers(n)') \in Nat
    <3>1. Savers(n)' \in SUBSET Workers
      BY DEF Savers
    <3>2. IsFiniteSet(Savers(n)') /\ Cardinality(Savers(n)') <= Cardinality(Workers)
      BY <3>1, FS_Subset, WorkersAssumption
    <3> QED
      BY <3>2, FS_CardinalityType
  <2> QED
    BY <1>1, <2>3, <2>4, NonceSetsFinite
<1>4. CASE flight[w].query.nonce # n
  <2>1. flight'[w].query.nonce # n
    BY <1>4 DEF TypeOK, Flight
  <2>2. \A v \in Workers : v # w => flight'[v] = flight[v]
    BY DEF TypeOK
  <2>3. Savers(n)' = Savers(n)
    BY <1>4, <2>1, <2>2 DEF Savers
  <2> QED
    BY <1>1, <1>2, <2>3
<1> QED
  BY <1>3, <1>4

(* The code that is stored takes the place of the request that stores it.   *)
LEMMA SavedBudget ==
  ASSUME TypeOK, NonceBudget, NEW w \in Workers, SaveAuthorizationCode(w)
  PROVE  NonceBudget'
<1> DEFINE q == flight[w].query
           d == [login |-> flight[w].sess.req.login, client |-> q.client,
                 user |-> flight[w].sess.user, nonce |-> q.nonce]
           k == Len(codes)
<1>1. codes' = Append(codes, d) /\ flight[w].at = "save"
  BY DEF SaveAuthorizationCode
<1>2. d.nonce = q.nonce
  OBVIOUS
<1>3. codes \in Seq(Code) /\ k \in Nat
  BY DEF TypeOK
<1> HIDE DEF d
<1>4. DOMAIN codes = 1 .. k /\ DOMAIN codes' = 1 .. (k + 1)
  BY <1>1, <1>3
<1>5. codes'[k + 1] = d /\ \A i \in 1 .. k : codes'[i] = codes[i]
  BY <1>1, <1>3
<1>6. \A v \in Workers : v # w => flight'[v] = flight[v]
  BY DEF SaveAuthorizationCode, Answer, TypeOK
<1>7. flight'[w].at = "reply"
  BY DEF SaveAuthorizationCode, Answer, TypeOK
<1>8. 1 .. (k + 1) = (1 .. k) \cup {k + 1} /\ k + 1 \notin 1 .. k
  BY <1>3
<1> SUFFICES ASSUME NEW n \in Nonces
    PROVE  Cardinality(NonceCodes(n)') + Cardinality(Savers(n)') <= Cardinality(Workers)
  BY DEF NonceBudget
<1>9. Cardinality(NonceCodes(n)) + Cardinality(Savers(n)) <= Cardinality(Workers)
  BY DEF NonceBudget
<1>10. CASE q.nonce = n
  <2>1. NonceCodes(n)' = NonceCodes(n) \cup {k + 1}
    BY <1>2, <1>4, <1>5, <1>8, <1>10 DEF NonceCodes
  <2>2. k + 1 \notin NonceCodes(n)
    BY <1>4, <1>8 DEF NonceCodes
  <2>3. Savers(n)' = Savers(n) \ {w}
    BY <1>6, <1>7 DEF Savers
  <2>4. w \in Savers(n)
    BY <1>1, <1>10 DEF Savers
  <2>5. Cardinality(NonceCodes(n)') = Cardinality(NonceCodes(n)) + 1
    BY <2>1, <2>2, NonceSetsFinite, FS_AddElement
  <2>6. Cardinality(Savers(n)') = Cardinality(Savers(n)) - 1
    BY <2>3, <2>4, NonceSetsFinite, FS_RemoveElement
  <2> QED
    BY <1>9, <2>5, <2>6, NonceSetsFinite
<1>11. CASE q.nonce # n
  <2>1. NonceCodes(n)' = NonceCodes(n)
    BY <1>2, <1>4, <1>5, <1>8, <1>11 DEF NonceCodes
  <2>2. Savers(n)' = Savers(n)
    BY <1>6, <1>7, <1>11 DEF Savers
  <2> QED
    BY <1>9, <2>1, <2>2
<1> QED
  BY <1>10, <1>11

LEMMA NextKeepsBudget ==
  ASSUME IInv, IInv', NonceBudget, [Next]_vars
  PROVE  NonceBudget'
<1>1. TypeOK /\ TypeOK' /\ flight \in [Workers -> Flight]
  BY DEF IInv, TypeOK
<1>2. ASSUME NEW w \in Workers, NEW b, NEW s, Answer(w, b, s), codes' = codes
      PROVE  NoNewSaver
  BY <1>1, <1>2 DEF Answer, NoNewSaver
<1>3. ASSUME NEW w \in Workers, NEW b, AnswerOnly(w, b), codes' = codes
      PROVE  NoNewSaver
  BY <1>1, <1>3 DEF AnswerOnly, Idle, NoNewSaver
<1>4. ASSUME NEW w \in Workers, NEW b \in Browsers, NEW q \in Query,
             AuthorizePhase1(w, b, q)
      PROVE  NoNewSaver
  BY <1>2, <1>3, <1>4 DEF AuthorizePhase1
<1>5. ASSUME NEW w \in Workers, NEW b \in Browsers, NEW q \in Query,
             AuthorizePhase2(w, b, q)
      PROVE  NoNewSaver
  BY <1>1, <1>5 DEF AuthorizePhase2, NoNewSaver
<1>6. ASSUME NEW w \in Workers, NEW b \in Browsers, NEW m \in Methods,
             FactorPass(w, b, m) \/ EnrolPass(w, b, m)
      PROVE  NoNewSaver
  BY <1>2, <1>6 DEF FactorPass, EnrolPass
<1>7. ASSUME NEW w \in Workers, NEW b \in Browsers,
             \/ NoSession(w, b)
             \/ FactorFail(w, b)
             \/ TotpSetupGet(w, b)
             \/ AccessDenied(w, b)
             \/ SetupDone(w, b)
      PROVE  NoNewSaver
  BY <1>2, <1>3, <1>7
     DEF NoSession, FactorFail, TotpSetupGet, AccessDenied, SetupDone
<1>8. ASSUME NEW w \in Workers, ValidateRequest(w)
      PROVE  NonceBudget'
  <2>1. codes' = codes
    BY <1>8 DEF ValidateRequest
  <2>2. CASE /\ ~ExistsNonce(flight[w].query.nonce)
             /\ flight' = [flight EXCEPT ![w].at = "save"]
    BY <1>1, <2>1, <2>2, ValidatedBudget
  <2>3. CASE Answer(w, flight[w].browser, IssuedSession(flight[w].sess))
    BY <1>1, <1>2, <2>1, <2>3, NoNewSaverBudget
  <2> QED
    BY <1>8, <2>2, <2>3 DEF ValidateRequest
<1>9. ASSUME NEW w \in Workers, SaveAuthorizationCode(w)
      PROVE  NonceBudget'
  BY <1>1, <1>9, SavedBudget
<1>10. ASSUME NEW w \in Workers, Reply(w) \/ Drop(w)
       PROVE  NoNewSaver
  BY <1>1, <1>10 DEF Reply, Drop, Idle, NoNewSaver
<1>11. ASSUME NEW c \in Clients, RevokeClient(c)
       PROVE  NoNewSaver
  BY <1>11 DEF RevokeClient, NoNewSaver
<1>12. CASE UNCHANGED vars
  BY <1>1, <1>12, NoNewSaverBudget DEF vars, NoNewSaver
<1>13. CASE Next
  BY <1>1, <1>4, <1>5, <1>6, <1>7, <1>8, <1>9, <1>10, <1>11, <1>13, NoNewSaverBudget
     DEF Next
<1> QED
  BY <1>12, <1>13

LEMMA InitBudget == Init => NonceBudget
<1> SUFFICES ASSUME Init, NEW n \in Nonces
    PROVE  Cardinality(NonceCodes(n)) + Cardinality(Savers(n)) <= Cardinality(Workers)
  BY DEF NonceBudget
<1>1. NonceCodes(n) = {} /\ Savers(n) = {}
  BY DEF Init, Idle, NonceCodes, Savers
<1> QED
  BY <1>1, FS_EmptySet, FS_CardinalityType, WorkersAssumption

(* However requests overlap, no more codes share a nonce than there are     *)
(* workers; with one worker, grants.py:96 is right about replays.           *)
THEOREM NonceReuseBounded == Spec => []NonceBounded
<1>1. Init => IInv /\ NonceBudget
  BY InitIInv, InitBudget
<1>2. IInv /\ NonceBudget /\ [Next]_vars => (IInv /\ NonceBudget)'
  BY NextPreserves, NextKeepsBudget
<1>3. IInv /\ NonceBudget => NonceBounded
  <2> SUFFICES ASSUME IInv, NonceBudget, NEW n \in Nonces
      PROVE  Cardinality(NonceCodes(n)) <= Cardinality(Workers)
    BY DEF NonceBounded, NonceCodes
  <2>1. Cardinality(NonceCodes(n)) + Cardinality(Savers(n)) <= Cardinality(Workers)
    BY DEF NonceBudget
  <2> QED
    BY <2>1, NonceSetsFinite DEF IInv
<1> QED
  BY <1>1, <1>2, <1>3, PTL DEF Spec

(* With one worker no nonce is ever reused: what grants.py:96 says fails    *)
(* only when requests overlap.                                              *)
THEOREM OneWorkerNonceUnique ==
  ASSUME Cardinality(Workers) <= 1
  PROVE  Spec => []NonceUnique
<1>1. TypeOK /\ NonceBounded => NonceUnique
  <2> SUFFICES ASSUME TypeOK, NonceBounded,
                      NEW i \in DOMAIN codes, NEW j \in DOMAIN codes,
                      codes[i].nonce # None, codes[i].nonce = codes[j].nonce, i # j
      PROVE  FALSE
    BY DEF NonceUnique
  <2> DEFINE n == codes[i].nonce
  <2>1. n \in Nonces
    <3>1. codes[i] \in Code
      BY DEF TypeOK
    <3> QED
      BY <3>1 DEF Code
  <2>2. Cardinality(NonceCodes(n)) <= Cardinality(Workers)
    BY <2>1 DEF NonceBounded, NonceCodes
  <2>3. {i} \cup {j} \in SUBSET NonceCodes(n)
    BY DEF NonceCodes
  <2>4. Cardinality({i} \cup {j}) = 2
    <3>1. IsFiniteSet({i}) /\ Cardinality({i}) = 1 /\ j \notin {i}
      BY FS_Singleton
    <3>2. Cardinality({i} \cup {j}) = Cardinality({i}) + 1
      BY <3>1, FS_AddElement
    <3> QED
      BY <3>1, <3>2
  <2>5. Cardinality({i} \cup {j}) <= Cardinality(NonceCodes(n))
    BY <2>3, NonceSetsFinite, FS_Subset
  <2> HIDE DEF n
  <2> QED
    BY <2>2, <2>4, <2>5, NonceSetsFinite
<1> QED
  BY <1>1, TypeCorrect, NonceReuseBounded, PTL

-----------------------------------------------------------------------------
(* LoginHistory only watches LoginFlow, so that all of the above holds of   *)
(* it too.                                                                  *)
LEMMA HistoryStep == [HistoryNext]_<<vars, historyVars>> => [Next]_vars
<1> SUFFICES ASSUME [HistoryNext]_<<vars, historyVars>> PROVE [Next]_vars
  OBVIOUS
<1>1. ASSUME NEW w \in Workers, SaveCode(w) \/ Arrive(w) \/ Lose(w)
      PROVE  Next
  BY <1>1 DEF SaveCode, Arrive, Lose, Next
<1>2. CASE OtherStep
  BY <1>2 DEF OtherStep, Next
<1>3. CASE UNCHANGED <<vars, historyVars>>
  BY <1>3
<1> QED
  BY <1>1, <1>2, <1>3 DEF HistoryNext

THEOREM HistoryImplementsFlow == HistorySpec => Spec
<1>1. HistoryInit => Init
  BY DEF HistoryInit
<1> QED
  BY <1>1, HistoryStep, PTL DEF HistorySpec, Spec

(* A code under way to a browser, or a request that may still get one out   *)
(* of a session it was sent by that browser.                                *)
Pending(b) == {w \in Workers : /\ flight[w].browser = b
                               /\ flight[w].at \in {"issue", "save"} \/ carrying[w]}

(* Once codes have reached a browser, its cookie is not verified until a    *)
(* verified session is sent to it, and then the count starts again; until   *)
(* then only the requests that were already pending can add to it.          *)
Spent ==
  \A b \in Browsers :
    /\ since[b] > 0 => ~jar[b].verified
    /\ since[b] + Cardinality(Pending(b)) <= Cardinality(Workers)

(* The reply that carries a code also clears the session.                   *)
CarryingClears ==
  \A w \in Workers :
    carrying[w] => /\ flight[w].at = "reply"
                   /\ flight[w].cookie
                   /\ ~flight[w].sess.verified

HistoryTypeOK == /\ carrying \in [Workers -> BOOLEAN]
                 /\ since \in [Browsers -> Nat]

HInv == HistoryTypeOK /\ CarryingClears /\ Spent

LEMMA PendingFinite ==
  ASSUME NEW b
  PROVE  /\ IsFiniteSet(Pending(b)) /\ Cardinality(Pending(b)) \in Nat
         /\ Cardinality(Pending(b)) <= Cardinality(Workers)
         /\ Cardinality(Workers) \in Nat
<1>1. Pending(b) \in SUBSET Workers
  BY DEF Pending
<1>2. IsFiniteSet(Pending(b)) /\ Cardinality(Pending(b)) <= Cardinality(Workers)
  BY <1>1, FS_Subset, WorkersAssumption
<1> QED
  BY <1>2, FS_CardinalityType, WorkersAssumption

LEMMA PendingShrinks ==
  ASSUME NEW b, Pending(b)' \in SUBSET Pending(b)
  PROVE  /\ Cardinality(Pending(b)') \in Nat
         /\ Cardinality(Pending(b)') <= Cardinality(Pending(b))
<1>1. IsFiniteSet(Pending(b)') /\ Cardinality(Pending(b)') <= Cardinality(Pending(b))
  BY PendingFinite, FS_Subset
<1> QED
  BY <1>1, FS_CardinalityType

(* The steps of OtherStep leave the cookies alone.  The worker that takes   *)
(* the step carries no code, and a request that comes to "issue" or "save"  *)
(* was already pending or has just come with a verified cookie.             *)
QuietStep ==
  /\ jar' = jar
  /\ \A v \in Workers :
       \/ flight'[v] = flight[v]
       \/ /\ flight[v].at \in {"idle", "issue"}
          /\ \/ flight'[v].at = "reply"
             \/ /\ flight[v].at = "issue"
                /\ flight'[v].browser = flight[v].browser
             \/ jar[flight'[v].browser].verified

LEMMA OtherIsQuiet ==
  ASSUME IInv, OtherStep
  PROVE  QuietStep
<1>1. flight \in [Workers -> Flight]
  BY DEF IInv, TypeOK
<1>2. ASSUME NEW w \in Workers, NEW b, NEW s, Answer(w, b, s), jar' = jar,
             flight[w].at \in {"idle", "issue"}
      PROVE  QuietStep
  BY <1>1, <1>2 DEF Answer, QuietStep
<1>3. ASSUME NEW w \in Workers, NEW b, AnswerOnly(w, b), jar' = jar,
             flight[w].at \in {"idle", "issue"}
      PROVE  QuietStep
  BY <1>1, <1>3 DEF AnswerOnly, Idle, QuietStep
<1>4. Idle.at \in {"idle", "issue"}
  BY DEF Idle
<1>5. ASSUME NEW w \in Workers, NEW b \in Browsers, NEW q \in Query,
             AuthorizePhase1(w, b, q)
      PROVE  QuietStep
  BY <1>2, <1>3, <1>4, <1>5 DEF AuthorizePhase1
<1>6. ASSUME NEW w \in Workers, NEW b \in Browsers, NEW q \in Query,
             AuthorizePhase2(w, b, q)
      PROVE  QuietStep
  <2>1. jar[b].verified /\ jar' = jar /\ flight[w] = Idle
    BY <1>6 DEF AuthorizePhase2, Continues
  <2>2. flight'[w].browser = b
    BY <1>1, <1>6 DEF AuthorizePhase2
  <2>3. \A v \in Workers : v # w => flight'[v] = flight[v]
    BY <1>1, <1>6 DEF AuthorizePhase2
  <2> QED
    BY <1>4, <2>1, <2>2, <2>3 DEF QuietStep
<1>7. ASSUME NEW w \in Workers, NEW b \in Browsers, NEW m \in Methods,
             FactorPass(w, b, m) \/ EnrolPass(w, b, m)
      PROVE  QuietStep
  BY <1>2, <1>4, <1>7 DEF FactorPass, EnrolPass
<1>8. ASSUME NEW w \in Workers, NEW b \in Browsers,
             \/ NoSession(w, b)
             \/ FactorFail(w, b)
             \/ TotpSetupGet(w, b)
             \/ AccessDenied(w, b)
             \/ SetupDone(w, b)
      PROVE  QuietStep
  BY <1>2, <1>3, <1>4, <1>8
     DEF NoSession, FactorFail, TotpSetupGet, AccessDenied, SetupDone
<1>9. ASSUME NEW w \in Workers, ValidateRequest(w)
      PROVE  QuietStep
  <2>1. jar' = jar /\ flight[w].at = "issue"
    BY <1>9 DEF ValidateRequest
  <2>2. CASE flight' = [flight EXCEPT ![w].at = "save"]
    <3>1. flight[w] \in Flight
      BY <1>1
    <3>2. flight'[w].browser = flight[w].browser
      BY <1>1, <2>2, <3>1 DEF Flight
    <3>3. \A v \in Workers : v # w => flight'[v] = flight[v]
      BY <1>1, <2>2
    <3> QED
      BY <2>1, <3>2, <3>3 DEF QuietStep
  <2>3. CASE Answer(w, flight[w].browser, IssuedSession(flight[w].sess))
    BY <1>2, <2>1, <2>3
  <2> QED
    BY <1>9, <2>2, <2>3 DEF ValidateRequest
<1>10. ASSUME NEW c \in Clients, RevokeClient(c)
       PROVE  QuietStep
  BY <1>10 DEF RevokeClient, QuietStep
<1> QED
  BY <1>5, <1>6, <1>7, <1>8, <1>9, <1>10 DEF OtherStep

LEMMA QuietKeepsHInv ==
  ASSUME HInv, QuietStep, UNCHANGED historyVars
  PROVE  HInv'
<1>1. carrying' = carrying /\ since' = since /\ jar' = jar
  BY DEF historyVars, QuietStep
<1>2. HistoryTypeOK'
  BY <1>1 DEF HInv, HistoryTypeOK
<1>3. \A v \in Workers : carrying[v] => flight'[v] = flight[v]
  BY DEF HInv, CarryingClears, QuietStep
<1>4. CarryingClears'
  BY <1>1, <1>3 DEF HInv, CarryingClears
<1>5. ASSUME NEW b \in Browsers
      PROVE  since[b] + Cardinality(Pending(b)') <= Cardinality(Workers)
  <2>1. since[b] \in Nat
    BY DEF HInv, HistoryTypeOK
  <2>2. CASE jar[b].verified
    <3>1. since[b] = 0
      BY <2>1, <2>2 DEF HInv, Spent
    <3>2. Pending(b)' \in SUBSET Workers
      BY DEF Pending
    <3>3. IsFiniteSet(Pending(b)') /\ Cardinality(Pending(b)') <= Cardinality(Workers)
      BY <3>2, FS_Subset, WorkersAssumption
    <3>4. Cardinality(Pending(b)') \in Nat
      BY <3>3, FS_CardinalityType
    <3> QED
      BY <3>1, <3>3, <3>4
  <2>3. CASE ~jar[b].verified
    <3>1. ASSUME NEW v \in Pending(b)'
          PROVE  v \in Pending(b)
      <4>1. v \in Workers /\ flight'[v].browser = b
            /\ (flight'[v].at \in {"issue", "save"} \/ carrying[v])
        BY <1>1, <3>1 DEF Pending
      <4>2. CASE flight'[v] = flight[v]
        BY <4>1, <4>2 DEF Pending
      <4>3. CASE flight'[v] # flight[v]
        <5>1. flight'[v].at # "reply"
          BY <1>3, <4>1, <4>3
        <5>2. flight[v].at = "issue" /\ flight[v].browser = b
          BY <2>3, <4>1, <4>3, <5>1 DEF QuietStep
        <5> QED
          BY <4>1, <5>2 DEF Pending
      <4> QED
        BY <4>2, <4>3
    <3>2. Cardinality(Pending(b)') \in Nat
          /\ Cardinality(Pending(b)') <= Cardinality(Pending(b))
      BY <3>1, PendingShrinks
    <3>3. since[b] + Cardinality(Pending(b)) <= Cardinality(Workers)
      BY DEF HInv, Spent
    <3> QED
      BY <2>1, <3>2, <3>3, PendingFinite
  <2> QED
    BY <2>2, <2>3
<1>6. Spent'
  BY <1>1, <1>5 DEF HInv, Spent
<1> QED
  BY <1>2, <1>4, <1>6 DEF HInv

LEMMA SaveKeepsHInv ==
  ASSUME IInv, HInv, NEW w \in Workers, SaveCode(w)
  PROVE  HInv'
<1>1. flight \in [Workers -> Flight] /\ flight[w].at = "save"
  BY DEF IInv, TypeOK, SaveCode, SaveAuthorizationCode
<1>2. flight[w].sess \in Session
  BY <1>1 DEF Flight
<1>3. jar' = jar /\ since' = since /\ carrying' = [carrying EXCEPT ![w] = TRUE]
  BY DEF SaveCode, SaveAuthorizationCode
<1>4. Answer(w, flight[w].browser, IssuedSession(flight[w].sess))
  BY DEF SaveCode, SaveAuthorizationCode
<1>5. /\ flight'[w].at = "reply" /\ flight'[w].cookie
      /\ flight'[w].browser = flight[w].browser
      /\ flight'[w].sess = IssuedSession(flight[w].sess)
  BY <1>1, <1>4 DEF Answer
<1>6. \A v \in Workers : v # w => flight'[v] = flight[v]
  BY <1>1, <1>4 DEF Answer
<1>7. ~IssuedSession(flight[w].sess).verified
  BY <1>2 DEF IssuedSession, Session
<1>8. carrying \in [Workers -> BOOLEAN] /\ HistoryTypeOK'
  BY <1>3 DEF HInv, HistoryTypeOK
<1>9. CarryingClears'
  BY <1>3, <1>5, <1>6, <1>7, <1>8 DEF HInv, CarryingClears
<1>10. ASSUME NEW b \in Browsers
       PROVE  Pending(b)' \in SUBSET Pending(b)
  BY <1>1, <1>3, <1>5, <1>6, <1>8 DEF Pending
<1>11. Spent'
  <2> SUFFICES ASSUME NEW b \in Browsers
      PROVE  since[b] + Cardinality(Pending(b)') <= Cardinality(Workers)
    BY <1>3 DEF HInv, Spent
  <2>1. since[b] \in Nat /\ since[b] + Cardinality(Pending(b)) <= Cardinality(Workers)
    BY DEF HInv, HistoryTypeOK, Spent
  <2> QED
    BY <1>10, <2>1, PendingFinite, PendingShrinks
<1> QED
  BY <1>8, <1>9, <1>11 DEF HInv

(* A worker is free again: nothing it had was lost from sight but a code    *)
(* that has arrived or never will.                                          *)
LEMMA FreedWorker ==
  ASSUME IInv, HInv, NEW w \in Workers, Reply(w) \/ Drop(w),
         carrying' = [carrying EXCEPT ![w] = FALSE]
  PROVE  /\ CarryingClears'
         /\ \A b \in Browsers : Pending(b)' \in SUBSET (Pending(b) \ {w})
<1>1. flight \in [Workers -> Flight] /\ carrying \in [Workers -> BOOLEAN]
  BY DEF IInv, TypeOK, HInv, HistoryTypeOK
<1>2. flight'[w] = Idle /\ \A v \in Workers : v # w => flight'[v] = flight[v]
  BY <1>1 DEF Reply, Drop
<1>3. ~carrying'[w] /\ \A v \in Workers : v # w => carrying'[v] = carrying[v]
  BY <1>1
<1>4. CarryingClears'
  BY <1>2, <1>3 DEF HInv, CarryingClears
<1>5. ASSUME NEW b \in Browsers
      PROVE  Pending(b)' \in SUBSET (Pending(b) \ {w})
  BY <1>2, <1>3 DEF Pending, Idle
<1> QED
  BY <1>4, <1>5

LEMMA LoseKeepsHInv ==
  ASSUME IInv, HInv, NEW w \in Workers, Lose(w)
  PROVE  HInv'
<1>1. jar' = jar /\ since' = since /\ carrying' = [carrying EXCEPT ![w] = FALSE]
  BY DEF Lose, Drop
<1>2. /\ CarryingClears'
      /\ \A b \in Browsers : Pending(b)' \in SUBSET (Pending(b) \ {w})
  BY <1>1, FreedWorker DEF Lose
<1>3. HistoryTypeOK'
  BY <1>1 DEF HInv, HistoryTypeOK
<1>4. Spent'
  <2> SUFFICES ASSUME NEW b \in Browsers
      PROVE  since[b] + Cardinality(Pending(b)') <= Cardinality(Workers)
    BY <1>1 DEF HInv, Spent
  <2>1. since[b] \in Nat /\ since[b] + Cardinality(Pending(b)) <= Cardinality(Workers)
    BY DEF HInv, HistoryTypeOK, Spent
  <2>2. Pending(b)' \in SUBSET Pending(b)
    BY <1>2
  <2> QED
    BY <2>1, <2>2, PendingFinite, PendingShrinks
<1> QED
  BY <1>2, <1>3, <1>4 DEF HInv

LEMMA ArriveKeepsHInv ==
  ASSUME IInv, HInv, NEW w \in Workers, Arrive(w)
  PROVE  HInv'
<1> DEFINE f == flight[w]
<1>1. f \in Flight /\ f.at = "reply" /\ f.browser \in Browsers
  <2>1. f \in Flight /\ f.at = "reply"
    BY DEF IInv, TypeOK, Arrive, Reply
  <2> QED
    BY <2>1 DEF IInv, FlightBacked
<1>d. PICK d \in Browsers : d = f.browser
  BY <1>1
<1>2. Reply(w) /\ carrying' = [carrying EXCEPT ![w] = FALSE]
  BY DEF Arrive
<1>3. /\ CarryingClears'
      /\ \A b \in Browsers : Pending(b)' \in SUBSET (Pending(b) \ {w})
  BY <1>2, FreedWorker
<1>4. jar \in [Browsers -> Session] /\ since \in [Browsers -> Nat]
      /\ carrying \in [Workers -> BOOLEAN]
  BY DEF IInv, TypeOK, HInv, HistoryTypeOK
<1>5. \A b \in Browsers : b # d => jar'[b] = jar[b] /\ since'[b] = since[b]
  BY <1>d, <1>1, <1>4 DEF Arrive, Reply
<1>6. jar'[d] = IF f.cookie THEN f.sess ELSE jar[d]
  BY <1>d, <1>1, <1>4 DEF Arrive, Reply
<1>7. since'[d] = CASE carrying[w] -> since[d] + 1
                    [] ~carrying[w] /\ f.cookie /\ f.sess.verified -> 0
                    [] OTHER -> since[d]
  BY <1>d, <1>1, <1>4 DEF Arrive
<1>8. \A b \in Browsers : since[b] \in Nat
  BY <1>4
<1>9. f.cookie \in BOOLEAN /\ f.sess \in Session
  BY <1>1 DEF Flight
<1>10. HistoryTypeOK'
  <2>1. since'[d] \in Nat
    BY <1>1, <1>7, <1>8
  <2>2. since' \in [Browsers -> Nat]
    <3>1. DOMAIN since' = Browsers /\ \E x : since' = [since EXCEPT ![d] = x]
      BY <1>d, <1>4 DEF Arrive
    <3> QED
      BY <1>4, <1>1, <2>1, <3>1
  <2>3. carrying' \in [Workers -> BOOLEAN]
    BY <1>2, <1>4
  <2> QED
    BY <2>2, <2>3 DEF HistoryTypeOK
<1> HIDE DEF f
<1>11. ASSUME NEW b \in Browsers, b # d
       PROVE  /\ since'[b] > 0 => ~jar'[b].verified
              /\ since'[b] + Cardinality(Pending(b)') <= Cardinality(Workers)
  <2>1. since[b] + Cardinality(Pending(b)) <= Cardinality(Workers)
        /\ (since[b] > 0 => ~jar[b].verified)
    BY DEF HInv, Spent
  <2>2. Pending(b)' \in SUBSET Pending(b)
    BY <1>3
  <2> QED
    BY <1>5, <1>8, <1>11, <2>1, <2>2, PendingFinite, PendingShrinks
<1>12. /\ since'[d] > 0 => ~jar'[d].verified
       /\ since'[d] + Cardinality(Pending(d)') <= Cardinality(Workers)
  <2>1. since[d] \in Nat /\ since[d] + Cardinality(Pending(d)) <= Cardinality(Workers)
        /\ (since[d] > 0 => ~jar[d].verified)
    BY <1>1, <1>8 DEF HInv, Spent
  <2>2. Cardinality(Pending(d)') \in Nat
        /\ Cardinality(Pending(d)') <= Cardinality(Pending(d))
    BY <1>1, <1>3, PendingShrinks
  <2>3. CASE carrying[w]
    <3>1. f.cookie /\ ~f.sess.verified
      BY <2>3 DEF HInv, CarryingClears, f
    <3>2. ~jar'[d].verified
      BY <1>6, <3>1
    <3>3. since'[d] = since[d] + 1
      BY <1>7, <2>3
    <3>4. w \in Pending(d)
      BY <1>d, <2>3 DEF Pending, f
    <3>5. IsFiniteSet(Pending(d) \ {w})
          /\ Cardinality(Pending(d) \ {w}) = Cardinality(Pending(d)) - 1
      BY <3>4, PendingFinite, FS_RemoveElement
    <3>6. Cardinality(Pending(d)') <= Cardinality(Pending(d)) - 1
      BY <1>1, <1>3, <3>5, FS_Subset
    <3> QED
      BY <2>1, <2>2, <3>2, <3>3, <3>6, PendingFinite
  <2>4. CASE ~carrying[w] /\ f.cookie /\ f.sess.verified
    <3>1. since'[d] = 0
      BY <1>7, <2>4
    <3> QED
      BY <2>2, <3>1, PendingFinite
  <2>5. CASE ~carrying[w] /\ ~(f.cookie /\ f.sess.verified)
    <3>1. since'[d] = since[d]
      BY <1>7, <2>5
    <3>2. jar'[d] = jar[d] \/ ~jar'[d].verified
      BY <1>6, <2>5
    <3> QED
      BY <2>1, <2>2, <3>1, <3>2, PendingFinite
  <2> QED
    BY <2>3, <2>4, <2>5
<1>13. Spent'
  BY <1>11, <1>12 DEF Spent
<1> QED
  BY <1>3, <1>10, <1>13 DEF HInv

LEMMA NextKeepsHInv ==
  ASSUME IInv, HInv, [HistoryNext]_<<vars, historyVars>>
  PROVE  HInv'
<1>1. CASE OtherStep /\ UNCHANGED historyVars
  BY <1>1, OtherIsQuiet, QuietKeepsHInv
<1>2. ASSUME NEW w \in Workers, SaveCode(w) \/ Arrive(w) \/ Lose(w)
      PROVE  HInv'
  BY <1>2, SaveKeepsHInv, ArriveKeepsHInv, LoseKeepsHInv
<1>3. CASE UNCHANGED <<vars, historyVars>>
  <2>1. QuietStep /\ UNCHANGED historyVars
    BY <1>3 DEF vars, QuietStep
  <2> QED
    BY <2>1, QuietKeepsHInv
<1> QED
  BY <1>1, <1>2, <1>3 DEF HistoryNext

LEMMA InitHInv == HistoryInit => HInv
<1> SUFFICES ASSUME HistoryInit PROVE HInv
  OBVIOUS
<1>1. HistoryTypeOK /\ CarryingClears
  BY DEF HistoryInit, HistoryTypeOK, CarryingClears
<1>2. ASSUME NEW b \in Browsers
      PROVE  since[b] = 0 /\ Cardinality(Pending(b)) = 0
  <2>1. Pending(b) = {}
    BY DEF HistoryInit, Init, Idle, Pending
  <2> QED
    BY <2>1, FS_EmptySet DEF HistoryInit
<1>3. Cardinality(Workers) \in Nat
  BY FS_CardinalityType, WorkersAssumption
<1>4. Spent
  BY <1>2, <1>3 DEF Spent
<1> QED
  BY <1>1, <1>4 DEF HInv

(* A browser that was sent a verified session gets no more codes out of it  *)
(* than there are workers, whichever replies are lost or overtake each      *)
(* other.                                                                   *)
THEOREM CodesPerVerificationBounded == HistorySpec => []CodesPerVerification
<1>1. HistorySpec => []IInv
  BY HistoryImplementsFlow, Inductive, PTL
<1>2. HistoryInit => HInv
  BY InitHInv
<1>3. IInv /\ HInv /\ [HistoryNext]_<<vars, historyVars>> => HInv'
  BY NextKeepsHInv
<1>4. HInv => CodesPerVerification
  <2> SUFFICES ASSUME HInv, NEW b \in Browsers
      PROVE  since[b] <= Cardinality(Workers)
    BY DEF CodesPerVerification
  <2>1. since[b] \in Nat /\ since[b] + Cardinality(Pending(b)) <= Cardinality(Workers)
    BY DEF HInv, HistoryTypeOK, Spent
  <2> QED
    BY <2>1, PendingFinite
<1> QED
  BY <1>1, <1>2, <1>3, <1>4, PTL DEF HistorySpec
=============================================================================
