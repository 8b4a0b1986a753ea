------------------------- MODULE TokenEndpoint_proofs -------------------------
(***************************************************************************)
(* What holds of the token endpoint for any number of workers, clients,    *)
(* codes and keys, and any lifetimes that satisfy RetentionAssumption.     *)
(*                                                                         *)
(* The argument is about time.  A request finds its code at most CodeTTL   *)
(* old and lives no longer than Timeout, so the code is at most            *)
(* CodeTTL + Timeout old when the ID token is signed; cleanup-codes leaves *)
(* a row alone for CodeTTL + Retention.                                    *)
(***************************************************************************)
EXTENDS TokenEndpoint, TLAPS

(* Worker w is past query_authorization_code, which found the row.         *)
Past(w) == work[w] # None /\ "query" \notin work[w].todo

(* The row is still there, the same client's, no older than the request    *)
(* allows, and marked as soon as the request has marked it.                *)
Backed(w) == LET c == work[w].code IN
  /\ HasRow(c)
  /\ code[c].client = work[w].client
  /\ code[c].age <= CodeTTL + work[w].age
  /\ "spend" \notin work[w].todo => code[c].used

RequestsBacked == \A w \in Workers : Past(w) => Backed(w)

(* Nothing is done for a request before its code is queried.               *)
QueryFirst == \A w \in Workers :
  (work[w] # None /\ "query" \in work[w].todo) => work[w].todo = {"query"}

(* What cleanup-codes has read stays old until it is deleted.              *)
OldRowsOld == \A c \in old : HasRow(c) /\ code[c].age > CodeTTL + Retention

(* No code is issued again once its row is removed.                        *)
RemovedForGood == \A c \in removed : ~HasRow(c)

(* An ID token that has not expired has a row that is hardly older.        *)
OnRecord(t) == t.age <= TokenTTL =>
                 HasRow(t.code) /\ code[t.code].age <= CodeTTL + Timeout + t.age

TokensOnRecord == \A t \in tokens : OnRecord(t)

IInv == /\ TypeOK
        /\ QueryFirst
        /\ RequestsBacked
        /\ OldRowsOld
        /\ RemovedForGood
        /\ TokensOnRecord

-----------------------------------------------------------------------------
(* The limits are natural numbers, and the rows are no None.               *)
LEMMA Limits ==
  /\ CodeTTL \in Nat /\ TokenTTL \in Nat /\ Retention \in Nat /\ Timeout \in Nat
  /\ MaxAge \in Nat /\ MaxAge = CodeTTL + Retention + 1
  /\ Retention >= TokenTTL + Timeout
  /\ None \notin CodeRow /\ None \notin Work
BY NatAssumption, RetentionAssumption, NoRowAssumption DEF MaxAge

(* Time never takes an age past its limit, back, or by more than one.      *)
LEMMA OlderBounds ==
  ASSUME NEW limit \in Nat, NEW a \in 0 .. limit
  PROVE  /\ Older(a, limit) \in 0 .. limit
         /\ a <= Older(a, limit) /\ Older(a, limit) <= a + 1
         /\ a < limit => Older(a, limit) = a + 1
BY DEF Older

(* What a tick does to a row, to a request and to an ID token.             *)
LEMMA TickRow ==
  ASSUME TypeOK, Tick, NEW c \in Codes
  PROVE  /\ HasRow(c) =>
              /\ code[c] \in CodeRow /\ code'[c] \in CodeRow
              /\ code'[c].client = code[c].client
              /\ code'[c].used = code[c].used
              /\ code'[c].age = Older(code[c].age, MaxAge)
         /\ ~HasRow(c) => code'[c] = None
<1>1. CASE HasRow(c)
  <2>1. code[c] \in CodeRow
    BY <1>1 DEF TypeOK, HasRow
  <2>2. code'[c] = [code[c] EXCEPT !.age = Older(@, MaxAge)]
    BY <1>1 DEF Tick
  <2>3. code'[c] = [client |-> code[c].client, used |-> code[c].used,
                    age |-> Older(code[c].age, MaxAge)]
    BY <2>1, <2>2 DEF CodeRow
  <2>4. Older(code[c].age, MaxAge) \in 0 .. MaxAge
    BY <2>1, OlderBounds, Limits DEF CodeRow
  <2> QED
    BY <1>1, <2>1, <2>3, <2>4 DEF CodeRow
<1>2. CASE ~HasRow(c)
  BY <1>2 DEF Tick, HasRow
<1> QED
  BY <1>1, <1>2

LEMMA TickWork ==
  ASSUME TypeOK, Tick, NEW w \in Workers
  PROVE  /\ work[w] # None =>
              /\ work[w] \in Work /\ work'[w] \in Work
              /\ work'[w].todo = work[w].todo
              /\ work'[w].client = work[w].client
              /\ work'[w].code = work[w].code
              /\ work'[w].age = work[w].age + 1
         /\ work[w] = None => work'[w] = None
<1>1. CASE work[w] # None
  <2>1. work[w] \in Work
    BY <1>1 DEF TypeOK
  <2>2. work'[w] = [work[w] EXCEPT !.age = @ + 1] /\ work[w].age < Timeout
    BY <1>1 DEF Tick
  <2>3. work'[w] = [todo |-> work[w].todo, client |-> work[w].client,
                    code |-> work[w].code, age |-> work[w].age + 1]
    BY <2>1, <2>2 DEF Work
  <2>4. work[w].age + 1 \in 0 .. Timeout
    BY <2>1, <2>2, Limits DEF Work
  <2> QED
    BY <1>1, <2>1, <2>3, <2>4 DEF Work
<1>2. CASE work[w] = None
  BY <1>2 DEF Tick
<1> QED
  BY <1>1, <1>2

LEMMA TickToken ==
  ASSUME TypeOK, Tick, NEW x \in tokens'
  PROVE  \E t \in tokens : /\ t \in IdToken
                           /\ x = [code |-> t.code, key |-> t.key,
                                   age |-> Older(t.age, TokenTTL + 1)]
                           /\ x \in IdToken
<1>1. PICK t \in tokens : x = [t EXCEPT !.age = Older(@, TokenTTL + 1)]
  BY DEF Tick
<1>2. t \in IdToken
  BY DEF TypeOK
<1>3. x = [code |-> t.code, key |-> t.key, age |-> Older(t.age, TokenTTL + 1)]
  BY <1>1, <1>2 DEF IdToken
<1>4. Older(t.age, TokenTTL + 1) \in 0 .. TokenTTL + 1
  BY <1>2, OlderBounds, Limits DEF IdToken
<1> QED
  BY <1>2, <1>3, <1>4 DEF IdToken

(* Two ways a handler changes its own request, and nobody else's.          *)
LEMMA DoneWork ==
  ASSUME TypeOK, NEW w \in Workers, NEW step, work[w] # None, Done(w, step)
  PROVE  /\ work[w] \in Work /\ work'[w] \in Work
         /\ work'[w].todo = work[w].todo \ {step}
         /\ work'[w].client = work[w].client
         /\ work'[w].code = work[w].code
         /\ work'[w].age = work[w].age
         /\ \A v \in Workers \ {w} : work'[v] = work[v]
         /\ work' \in [Workers -> Work \cup {None}]
<1>1. work[w] \in Work
  BY DEF TypeOK
<1>2. work'[w] = [work[w] EXCEPT !.todo = @ \ {step}]
  BY DEF Done, TypeOK
<1>3. work'[w] = [todo |-> work[w].todo \ {step}, client |-> work[w].client,
                  code |-> work[w].code, age |-> work[w].age]
  BY <1>1, <1>2 DEF Work
<1>4. work'[w] \in Work
  BY <1>1, <1>3 DEF Work
<1> QED
  BY <1>1, <1>3, <1>4 DEF Done, TypeOK

LEMMA FinishWork ==
  ASSUME TypeOK, NEW w \in Workers, Finish(w)
  PROVE  /\ work'[w] = None
         /\ \A v \in Workers \ {w} : work'[v] = work[v]
         /\ work' \in [Workers -> Work \cup {None}]
BY DEF Finish, TypeOK

-----------------------------------------------------------------------------
LEMMA InitIInv == Init => IInv
<1> SUFFICES ASSUME Init PROVE IInv
  OBVIOUS
<1>1. TypeOK
  BY DEF Init, TypeOK
<1> QED
  BY <1>1 DEF Init, IInv, QueryFirst, RequestsBacked, Past, OldRowsOld, RemovedForGood,
              TokensOnRecord

LEMMA NextTypeOK == TypeOK /\ [Next]_vars => TypeOK'
<1> SUFFICES ASSUME TypeOK, [Next]_vars PROVE TypeOK'
  OBVIOUS
<1> USE Limits
<1>1. ASSUME NEW c \in Codes, NEW cl \in Clients, SaveAuthorizationCode(c, cl)
      PROVE  TypeOK'
  <2>1. [client |-> cl, used |-> FALSE, age |-> 0] \in CodeRow
    BY DEF CodeRow
  <2> QED
    BY <1>1, <2>1 DEF SaveAuthorizationCode, TypeOK
<1>2. ASSUME NEW w \in Workers, NEW c \in Codes, NEW cl \in Clients,
             AuthenticateClient(w, cl, c)
      PROVE  TypeOK'
  <2>1. [todo |-> {"query"}, client |-> cl, code |-> c, age |-> 0] \in Work
    BY DEF Work
  <2> QED
    BY <1>2, <2>1 DEF AuthenticateClient, TypeOK
<1>3. ASSUME NEW w \in Workers, QueryCode(w) PROVE TypeOK'
  <2>1. CASE Finish(w)
    BY <1>3, <2>1, FinishWork DEF QueryCode, TypeOK
  <2>2. CASE work' = [work EXCEPT ![w].todo = {"spend", "sign"}]
    <3>1. work[w] \in Work
      BY <1>3 DEF QueryCode, ToDo, TypeOK
    <3>2. [work[w] EXCEPT !.todo = {"spend", "sign"}] \in Work
      BY <3>1 DEF Work
    <3> QED
      BY <1>3, <2>2, <3>2 DEF QueryCode, TypeOK
  <2> QED
    BY <1>3, <2>1, <2>2 DEF QueryCode
<1>4. ASSUME NEW w \in Workers, SpendCode(w) PROVE TypeOK'
  <2>1. CASE HasRow(work[w].code)
    <3>1. work' \in [Workers -> Work \cup {None}] /\ work[w] \in Work
      BY <1>4, <2>1, DoneWork DEF SpendCode, ToDo
    <3>2. code[work[w].code] \in CodeRow
      BY <2>1, <3>1 DEF HasRow, TypeOK, Work
    <3>3. [code[work[w].code] EXCEPT !.used = TRUE] \in CodeRow
      BY <3>2 DEF CodeRow
    <3>4. code' \in [Codes -> CodeRow \cup {None}]
      BY <1>4, <2>1, <3>1, <3>3 DEF SpendCode, TypeOK, Work
    <3> QED
      BY <1>4, <3>1, <3>4 DEF SpendCode, TypeOK
  <2>2. CASE ~HasRow(work[w].code)
    BY <1>4, <2>2, FinishWork DEF SpendCode, TypeOK
  <2> QED
    BY <2>1, <2>2
<1>5. ASSUME NEW w \in Workers, SignIdToken(w) PROVE TypeOK'
  <2>1. work[w] \in Work /\ work[w] # None
    BY <1>5 DEF SignIdToken, ToDo, TypeOK
  <2>2. work' \in [Workers -> Work \cup {None}]
    BY <1>5, <2>1, DoneWork, FinishWork DEF SignIdToken
  <2>3. \A k \in Keys : [code |-> work[w].code, key |-> k, age |-> 0] \in IdToken
    BY <2>1 DEF IdToken, Work
  <2>4. tokens' \subseteq IdToken
    BY <1>5, <2>3 DEF SignIdToken, TypeOK
  <2> QED
    BY <1>5, <2>2, <2>4 DEF SignIdToken, TypeOK
<1>6. ASSUME NEW w \in Workers, Answer(w) PROVE TypeOK'
  <2>1. work[w].code \in Codes
    BY <1>6 DEF Answer, TypeOK, Work
  <2> QED
    BY <1>6, <2>1, FinishWork DEF Answer, TypeOK
<1>7. ASSUME NEW w \in Workers, Crash(w) PROVE TypeOK'
  BY <1>7, FinishWork DEF Crash, TypeOK
<1>8. CASE CleanupReads
  BY <1>8 DEF CleanupReads, TypeOK
<1>9. CASE CleanupDeletes
  BY <1>9 DEF CleanupDeletes, TypeOK
<1>10. ASSUME NEW k \in Keys, InitKeys(k) PROVE TypeOK'
  BY <1>10 DEF InitKeys, TypeOK
<1>11. ASSUME NEW cl \in Clients, RevokeClient(cl) PROVE TypeOK'
  BY <1>11 DEF RevokeClient, TypeOK
<1>12. CASE Tick
  <2>1. \A c \in Codes : code'[c] \in CodeRow \cup {None}
    BY <1>12, TickRow
  <2>2. \A w \in Workers : work'[w] \in Work \cup {None}
    BY <1>12, TickWork
  <2>3. tokens' \subseteq IdToken
    BY <1>12, TickToken
  <2>4. code' \in [Codes -> CodeRow \cup {None}] /\ work' \in [Workers -> Work \cup {None}]
    BY <1>12, <2>1, <2>2 DEF Tick
  <2> QED
    BY <1>12, <2>3, <2>4 DEF Tick, TypeOK
<1>13. CASE UNCHANGED vars
  BY <1>13 DEF vars, TypeOK
<1> QED
  BY <1>1, <1>2, <1>3, <1>4, <1>5, <1>6, <1>7, <1>8, <1>9, <1>10, <1>11, <1>12, <1>13
     DEF Next

-----------------------------------------------------------------------------
(* A row some request is backed by, and the row of an ID token that has    *)
(* not expired, are not among those cleanup-codes has read.                *)
LEMMA BackedIsNotOld ==
  ASSUME IInv, NEW w \in Workers, Past(w)
  PROVE  /\ work[w] \in Work
         /\ work[w].code \in Codes \ old
         /\ HasRow(work[w].code)
         /\ code[work[w].code] \in CodeRow
<1>1. work[w] \in Work
  BY DEF IInv, TypeOK, Past
<1>2. HasRow(work[w].code) /\ code[work[w].code].age <= CodeTTL + work[w].age
  BY DEF IInv, RequestsBacked, Backed
<1>3. code[work[w].code] \in CodeRow
  BY <1>1, <1>2 DEF IInv, TypeOK, HasRow, Work
<1>4. /\ work[w].age \in Nat /\ work[w].age <= Timeout
      /\ code[work[w].code].age \in Nat
  BY <1>1, <1>3, Limits DEF Work, CodeRow
<1>5. ~(code[work[w].code].age > CodeTTL + Retention)
  BY <1>2, <1>4, Limits
<1> QED
  BY <1>1, <1>2, <1>3, <1>5 DEF IInv, OldRowsOld, Work

LEMMA OnRecordIsNotOld ==
  ASSUME IInv, NEW t \in tokens, t.age <= TokenTTL
  PROVE  /\ t \in IdToken
         /\ t.code \in Codes \ old
         /\ HasRow(t.code)
         /\ code[t.code] \in CodeRow
<1>1. t \in IdToken
  BY DEF IInv, TypeOK
<1>2. HasRow(t.code) /\ code[t.code].age <= CodeTTL + Timeout + t.age
  BY DEF IInv, TokensOnRecord, OnRecord
<1>3. code[t.code] \in CodeRow
  BY <1>1, <1>2 DEF IInv, TypeOK, HasRow, IdToken
<1>4. t.age \in Nat /\ code[t.code].age \in Nat
  BY <1>1, <1>3, Limits DEF IdToken, CodeRow
<1>5. ~(code[t.code].age > CodeTTL + Retention)
  BY <1>2, <1>4, Limits
<1> QED
  BY <1>1, <1>2, <1>3, <1>5 DEF IInv, OldRowsOld, IdToken

LEMMA NextRequestsBacked == IInv /\ [Next]_vars => RequestsBacked'
<1> SUFFICES ASSUME IInv, [Next]_vars, NEW x \in Workers, Past(x)'
             PROVE  Backed(x)'
  BY DEF RequestsBacked
<1>t. TypeOK /\ (Past(x) => Backed(x))
  BY DEF IInv, RequestsBacked
(* A step that leaves the request and its row alone.                       *)
<1>k. ASSUME work'[x] = work[x], code'[work[x].code] = code[work[x].code]
      PROVE  Backed(x)'
  BY <1>k, <1>t DEF Past, Backed, HasRow
<1>1. ASSUME NEW c \in Codes, NEW cl \in Clients, SaveAuthorizationCode(c, cl)
      PROVE  Backed(x)'
  <2>1. Past(x) /\ work'[x] = work[x]
    BY <1>1 DEF SaveAuthorizationCode, Past
  <2>2. work[x].code # c
    BY <1>1, <2>1, BackedIsNotOld DEF SaveAuthorizationCode, HasRow
  <2>3. code'[work[x].code] = code[work[x].code]
    BY <1>1, <1>t, <2>2, <2>1, BackedIsNotOld DEF SaveAuthorizationCode, TypeOK
  <2> QED
    BY <2>1, <2>3, <1>k
<1>2. ASSUME NEW w \in Workers, NEW c \in Codes, NEW cl \in Clients,
             AuthenticateClient(w, cl, c)
      PROVE  Backed(x)'
  <2>1. x # w
    BY <1>2, <1>t DEF AuthenticateClient, Past, TypeOK
  <2> QED
    BY <1>2, <2>1, <1>k, <1>t DEF AuthenticateClient, TypeOK
<1>3. ASSUME NEW w \in Workers, QueryCode(w) PROVE Backed(x)'
  <2>1. CASE x # w
    BY <1>3, <2>1, <1>k, <1>t DEF QueryCode, Finish, TypeOK
  <2>2. CASE x = w
    <3>1. /\ Valid(work[w].code, work[w].client)
          /\ work'[w] = [work[w] EXCEPT !.todo = {"spend", "sign"}]
      BY <1>3, <2>2, <1>t DEF QueryCode, Finish, Past, TypeOK
    <3>2. work[w] \in Work
      BY <1>3, <1>t DEF QueryCode, ToDo, TypeOK
    <3>3. /\ work'[w].code = work[w].code /\ work'[w].client = work[w].client
          /\ work'[w].age = work[w].age /\ work'[w].todo = {"spend", "sign"}
      BY <3>1, <3>2 DEF Work
    <3>4. code[work[w].code] \in CodeRow
      BY <3>1, <3>2, <1>t DEF Valid, HasRow, TypeOK, Work
    <3>5. code[work[w].code].age \in Nat /\ work[w].age \in Nat
      BY <3>2, <3>4, Limits DEF CodeRow, Work
    <3>6. code[work[w].code].age <= CodeTTL + work[w].age
      BY <3>1, <3>5, Limits DEF Valid, IsExpired
    <3> QED
      BY <1>3, <2>2, <3>1, <3>3, <3>6 DEF QueryCode, Valid, Backed, HasRow
  <2> QED
    BY <2>1, <2>2
<1>4. ASSUME NEW w \in Workers, SpendCode(w) PROVE Backed(x)'
  <2> DEFINE c == work[w].code
  <2>1. work[w] \in Work /\ work[w] # None
    BY <1>4, <1>t DEF SpendCode, ToDo, TypeOK
  <2>2. CASE HasRow(c)
    <3>1. code[c] \in CodeRow
      BY <2>1, <2>2, <1>t DEF HasRow, TypeOK, Work
    <3>2. /\ code'[c] = [code[c] EXCEPT !.used = TRUE]
          /\ \A d \in Codes \ {c} : code'[d] = code[d]
      BY <1>4, <2>1, <2>2, <1>t DEF SpendCode, TypeOK, Work
    <3>3. /\ code'[c] \in CodeRow /\ code'[c].used
          /\ code'[c].client = code[c].client /\ code'[c].age = code[c].age
      BY <3>1, <3>2 DEF CodeRow
    <3>4. /\ work'[w].todo = work[w].todo \ {"spend"}
          /\ work'[w].code = c /\ work'[w].client = work[w].client
          /\ work'[w].age = work[w].age
          /\ \A v \in Workers \ {w} : work'[v] = work[v]
      BY <1>4, <1>t, <2>1, <2>2, DoneWork DEF SpendCode
    <3>5. Past(x)
      BY <2>1, <3>4 DEF Past
    <3>6. /\ work[x].code \in Codes
          /\ work'[x].code = work[x].code /\ work'[x].client = work[x].client
          /\ work'[x].age = work[x].age
      BY <3>4, <3>5, BackedIsNotOld
    <3>7. CASE work[x].code = c
      BY <1>t, <3>3, <3>5, <3>6, <3>7, Limits DEF Backed, HasRow
    <3>8. CASE work[x].code # c
      BY <1>t, <3>2, <3>4, <3>5, <3>6, <3>8 DEF Backed, HasRow
    <3> QED
      BY <3>7, <3>8
  <2>3. CASE ~HasRow(c)
    BY <1>4, <2>3, <1>k, <1>t, FinishWork DEF SpendCode, Past
  <2> QED
    BY <2>2, <2>3
<1>5. ASSUME NEW w \in Workers, SignIdToken(w) PROVE Backed(x)'
  <2>1. work[w] # None
    BY <1>5 DEF SignIdToken, ToDo
  <2>2. CASE Done(w, "sign")
    BY <1>5, <2>1, <2>2, <1>t, DoneWork DEF SignIdToken, Backed, Past, HasRow
  <2>3. CASE Finish(w)
    BY <1>5, <2>3, <1>k, <1>t, FinishWork DEF SignIdToken, Past
  <2> QED
    BY <1>5, <2>2, <2>3 DEF SignIdToken
<1>6. ASSUME NEW w \in Workers, Answer(w) PROVE Backed(x)'
  BY <1>6, <1>k, <1>t, FinishWork DEF Answer, Past
<1>7. ASSUME NEW w \in Workers, Crash(w) PROVE Backed(x)'
  BY <1>7, <1>k, <1>t, FinishWork DEF Crash, Past
<1>8. CASE CleanupReads
  BY <1>8, <1>k DEF CleanupReads
<1>9. CASE CleanupDeletes
  BY <1>9, <1>k, BackedIsNotOld DEF CleanupDeletes, Past
<1>10. ASSUME NEW k \in Keys, InitKeys(k) PROVE Backed(x)'
  BY <1>10, <1>k DEF InitKeys
<1>11. ASSUME NEW cl \in Clients, RevokeClient(cl) PROVE Backed(x)'
  BY <1>11, <1>k DEF RevokeClient
<1>12. CASE Tick
  <2> DEFINE c == work[x].code
  <2>1. Past(x) /\ work'[x].todo = work[x].todo
    BY <1>12, <1>t, TickWork DEF Past
  <2>2. /\ work[x] \in Work /\ c \in Codes /\ HasRow(c)
        /\ code[c] \in CodeRow
    BY <2>1, BackedIsNotOld
  <2>3. /\ work'[x].code = c /\ work'[x].client = work[x].client
        /\ work'[x].age = work[x].age + 1
    BY <1>12, <1>t, <2>1, TickWork DEF Past
  <2>4. /\ code'[c] \in CodeRow
        /\ code'[c].client = code[c].client /\ code'[c].used = code[c].used
        /\ code'[c].age = Older(code[c].age, MaxAge)
    BY <1>12, <1>t, <2>2, TickRow
  <2>5. code'[c].age <= code[c].age + 1
    BY <2>2, <2>4, OlderBounds, Limits DEF CodeRow
  <2>6. code[c].age \in Nat /\ code'[c].age \in Nat /\ work[x].age \in Nat
    BY <2>2, <2>4, Limits DEF CodeRow, Work
  <2>7. code'[c].age <= CodeTTL + work'[x].age
    BY <1>t, <2>1, <2>3, <2>5, <2>6, Limits DEF Backed
  <2> QED
    BY <1>t, <2>1, <2>3, <2>4, <2>7, Limits DEF Backed, HasRow
<1>13. CASE UNCHANGED vars
  BY <1>13, <1>k DEF vars
<1> QED
  BY <1>1, <1>2, <1>3, <1>4, <1>5, <1>6, <1>7, <1>8, <1>9, <1>10, <1>11, <1>12, <1>13
     DEF Next

LEMMA NextQueryFirst == IInv /\ [Next]_vars => QueryFirst'
<1> SUFFICES ASSUME IInv, [Next]_vars, NEW x \in Workers,
                    work'[x] # None, "query" \in work'[x].todo
             PROVE  work'[x].todo = {"query"}
  BY DEF QueryFirst
<1>t. TypeOK /\ QueryFirst
  BY DEF IInv
<1>k. ASSUME work'[x] = work[x] PROVE work'[x].todo = {"query"}
  BY <1>k, <1>t DEF QueryFirst
<1>1. ASSUME NEW w \in Workers, NEW c \in Codes, NEW cl \in Clients,
             AuthenticateClient(w, cl, c)
      PROVE  work'[x].todo = {"query"}
  BY <1>1, <1>k, <1>t DEF AuthenticateClient, TypeOK
<1>2. ASSUME NEW w \in Workers, QueryCode(w) PROVE work'[x].todo = {"query"}
  <2>1. CASE work' = [work EXCEPT ![w].todo = {"spend", "sign"}]
    <3>1. work[w] \in Work
      BY <1>2, <1>t DEF QueryCode, ToDo, TypeOK
    <3>2. x # w
      BY <2>1, <3>1, <1>t DEF Work, TypeOK
    <3> QED
      BY <2>1, <3>2, <1>k, <1>t DEF TypeOK
  <2>2. CASE Finish(w)
    BY <2>2, <1>k, <1>t, FinishWork
  <2> QED
    BY <1>2, <2>1, <2>2 DEF QueryCode
<1>3. ASSUME NEW w \in Workers, NEW step, work[w] # None, Done(w, step)
      PROVE  work'[x].todo = {"query"}
  <2>1. CASE x = w
    BY <1>3, <2>1, <1>t, DoneWork DEF QueryFirst
  <2>2. CASE x # w
    BY <1>3, <2>2, <1>k, <1>t, DoneWork
  <2> QED
    BY <2>1, <2>2
<1>4. ASSUME NEW w \in Workers, Finish(w) PROVE work'[x].todo = {"query"}
  BY <1>4, <1>k, <1>t, FinishWork
<1>5. CASE Tick
  BY <1>5, <1>t, TickWork DEF QueryFirst
<1> QED
  BY <1>1, <1>2, <1>3, <1>4, <1>5, <1>k
     DEF Next, SaveAuthorizationCode, SpendCode, SignIdToken, ToDo, Answer, Crash,
         CleanupReads, CleanupDeletes, InitKeys, RevokeClient, vars

LEMMA NextOldRowsOld == IInv /\ [Next]_vars => OldRowsOld'
<1> SUFFICES ASSUME IInv, [Next]_vars, NEW x \in old'
             PROVE  HasRow(x)' /\ code'[x].age > CodeTTL + Retention
  BY DEF OldRowsOld
<1> DEFINE Kept == HasRow(x)' /\ code'[x].age > CodeTTL + Retention
<1>t. TypeOK /\ OldRowsOld
  BY DEF IInv
<1>k. ASSUME x \in old, code'[x] = code[x] PROVE Kept
  BY <1>k, <1>t DEF OldRowsOld, HasRow
<1>1. ASSUME NEW c \in Codes, NEW cl \in Clients, SaveAuthorizationCode(c, cl)
      PROVE  Kept
  <2>1. x \in old /\ x # c
    BY <1>1, <1>t DEF SaveAuthorizationCode, OldRowsOld, HasRow
  <2> QED
    BY <1>1, <1>k, <1>t, <2>1 DEF SaveAuthorizationCode, TypeOK
<1>2. ASSUME NEW w \in Workers, SpendCode(w) PROVE Kept
  <2>1. x \in old /\ x \in Codes /\ HasRow(x)
    BY <1>2, <1>t DEF SpendCode, OldRowsOld, TypeOK
  <2>2. code[x] \in CodeRow
    BY <2>1, <1>t DEF HasRow, TypeOK
  <2>3. CASE code'[x] = code[x]
    BY <1>k, <2>1, <2>3
  <2>4. CASE code'[x] # code[x]
    <3>1. code'[x] = [code[x] EXCEPT !.used = TRUE]
      BY <1>2, <1>t, <2>1, <2>4 DEF SpendCode, TypeOK
    <3>2. code'[x].age = code[x].age /\ code'[x] \in CodeRow
      BY <3>1, <2>2 DEF CodeRow
    <3> QED
      BY <3>2, <2>1, <1>t, Limits DEF OldRowsOld, HasRow
  <2> QED
    BY <2>3, <2>4
<1>3. CASE CleanupReads
  BY <1>3 DEF CleanupReads, HasRow
<1>4. CASE CleanupDeletes
  BY <1>4 DEF CleanupDeletes
<1>5. CASE Tick
  <2>1. x \in old /\ x \in Codes /\ HasRow(x) /\ code[x].age > CodeTTL + Retention
    BY <1>5, <1>t DEF Tick, OldRowsOld, TypeOK
  <2>2. /\ code[x] \in CodeRow /\ code'[x] \in CodeRow
        /\ code'[x].age = Older(code[x].age, MaxAge)
    BY <1>5, <1>t, <2>1, TickRow
  <2>3. code[x].age <= code'[x].age
    BY <2>2, OlderBounds, Limits DEF CodeRow
  <2>4. code[x].age \in Nat /\ code'[x].age \in Nat
    BY <2>2, Limits DEF CodeRow
  <2> QED
    BY <2>1, <2>2, <2>3, <2>4, Limits DEF HasRow
<1>6. CASE /\ code' = code /\ old' = old
  BY <1>6, <1>k
<1> QED
  BY <1>1, <1>2, <1>3, <1>4, <1>5, <1>6
     DEF Next, AuthenticateClient, QueryCode, SignIdToken, Answer, Crash,
         InitKeys, RevokeClient, vars

LEMMA NextRemovedForGood == IInv /\ [Next]_vars => RemovedForGood'
<1> SUFFICES ASSUME IInv, [Next]_vars, NEW x \in removed'
             PROVE  ~HasRow(x)'
  BY DEF RemovedForGood
<1>t. TypeOK /\ RemovedForGood
  BY DEF IInv
<1>1. ASSUME NEW c \in Codes, NEW cl \in Clients, SaveAuthorizationCode(c, cl)
      PROVE  ~HasRow(x)'
  BY <1>1, <1>t DEF SaveAuthorizationCode, RemovedForGood, HasRow, TypeOK
<1>2. ASSUME NEW w \in Workers, SpendCode(w) PROVE ~HasRow(x)'
  BY <1>2, <1>t DEF SpendCode, RemovedForGood, HasRow, TypeOK
<1>3. CASE CleanupDeletes
  BY <1>3, <1>t DEF CleanupDeletes, RemovedForGood, HasRow, TypeOK
<1>4. CASE Tick
  BY <1>4, <1>t, TickRow DEF Tick, RemovedForGood, HasRow, TypeOK
<1>5. CASE code' = code /\ removed' = removed
  BY <1>5, <1>t DEF RemovedForGood, HasRow
<1> QED
  BY <1>1, <1>2, <1>3, <1>4, <1>5
     DEF Next, AuthenticateClient, QueryCode, SignIdToken, Answer, Crash,
         CleanupReads, InitKeys, RevokeClient, vars

LEMMA NextTokensOnRecord == IInv /\ [Next]_vars => TokensOnRecord'
<1> SUFFICES ASSUME IInv, [Next]_vars, NEW x \in tokens'
             PROVE  OnRecord(x)'
  BY DEF TokensOnRecord
<1>t. TypeOK /\ TokensOnRecord
  BY DEF IInv
(* A step that leaves the token and the row alone.                         *)
<1>k. ASSUME x \in tokens, x.age <= TokenTTL => code'[x.code] = code[x.code]
      PROVE  OnRecord(x)'
  BY <1>k, <1>t DEF TokensOnRecord, OnRecord, HasRow
<1>1. ASSUME NEW c \in Codes, NEW cl \in Clients, SaveAuthorizationCode(c, cl)
      PROVE  OnRecord(x)'
  <2>1. x \in tokens /\ (x.age <= TokenTTL => x.code # c /\ x.code \in Codes)
    BY <1>1, OnRecordIsNotOld DEF SaveAuthorizationCode, HasRow
  <2> QED
    BY <1>1, <1>k, <1>t, <2>1 DEF SaveAuthorizationCode, TypeOK
<1>2. ASSUME NEW w \in Workers, SpendCode(w) PROVE OnRecord(x)'
  <2> SUFFICES ASSUME x.age <= TokenTTL
               PROVE  HasRow(x.code)' /\ code'[x.code].age <= CodeTTL + Timeout + x.age
    BY DEF OnRecord
  <2> DEFINE c == x.code
  <2>1. x \in tokens
    BY <1>2 DEF SpendCode
  <2>2. c \in Codes /\ HasRow(c) /\ code[c] \in CodeRow
    BY <2>1, OnRecordIsNotOld
  <2>3. CASE code'[c] = code[c]
    BY <1>k, <2>1, <2>3 DEF OnRecord
  <2>4. CASE code'[c] # code[c]
    <3>1. code'[c] = [code[c] EXCEPT !.used = TRUE]
      BY <1>2, <1>t, <2>2, <2>4 DEF SpendCode, TypeOK
    <3>2. code'[c].age = code[c].age /\ code'[c] \in CodeRow
      BY <3>1, <2>2 DEF CodeRow
    <3> QED
      BY <3>2, <2>1, <1>t, Limits DEF TokensOnRecord, OnRecord, HasRow
  <2> QED
    BY <2>3, <2>4
<1>3. ASSUME NEW w \in Workers, SignIdToken(w) PROVE OnRecord(x)'
  <2>1. CASE x \in tokens
    BY <1>3, <1>k, <2>1 DEF SignIdToken
  <2>2. CASE x \notin tokens
    <3>1. PICK k \in Keys : x = [code |-> work[w].code, key |-> k, age |-> 0]
      BY <1>3, <2>2 DEF SignIdToken
    <3>2. Past(w)
      BY <1>3 DEF SignIdToken, ToDo, Past, IInv, QueryFirst
    <3>3. /\ work[w] \in Work /\ code[work[w].code] \in CodeRow
          /\ HasRow(work[w].code) /\ code[work[w].code].age <= CodeTTL + work[w].age
      BY <3>2, BackedIsNotOld DEF IInv, RequestsBacked, Backed
    <3>4. /\ work[w].age \in Nat /\ work[w].age <= Timeout
          /\ code[work[w].code].age \in Nat
      BY <3>3, Limits DEF Work, CodeRow
    <3>5. code[work[w].code].age <= CodeTTL + Timeout + 0
      BY <3>3, <3>4, Limits
    <3>6. /\ x.code = work[w].code /\ x.age = 0
          /\ code' = code
      BY <1>3, <3>1 DEF SignIdToken
    <3> QED
      BY <3>3, <3>5, <3>6 DEF OnRecord, HasRow
  <2> QED
    BY <2>1, <2>2
<1>4. CASE CleanupDeletes
  BY <1>4, <1>k, OnRecordIsNotOld DEF CleanupDeletes
<1>5. CASE Tick
  <2> SUFFICES ASSUME x.age <= TokenTTL
               PROVE  HasRow(x.code)' /\ code'[x.code].age <= CodeTTL + Timeout + x.age
    BY DEF OnRecord
  <2>1. PICK t \in tokens : /\ t \in IdToken
                            /\ x = [code |-> t.code, key |-> t.key,
                                    age |-> Older(t.age, TokenTTL + 1)]
    BY <1>5, <1>t, TickToken
  <2>2. /\ x.code = t.code
        /\ t.age \in Nat /\ t.age <= TokenTTL + 1 /\ t.age <= x.age
        /\ x.age = t.age + 1
    BY <2>1, OlderBounds, Limits DEF IdToken, Older
  <2>3. t.age <= TokenTTL
    BY <2>2, Limits
  <2>4. /\ t.code \in Codes /\ HasRow(t.code) /\ code[t.code] \in CodeRow
        /\ code[t.code].age <= CodeTTL + Timeout + t.age
    BY <2>3, <1>t, OnRecordIsNotOld DEF TokensOnRecord, OnRecord
  <2>5. /\ code'[t.code] \in CodeRow
        /\ code'[t.code].age = Older(code[t.code].age, MaxAge)
    BY <1>5, <1>t, <2>4, TickRow
  <2>6. code'[t.code].age <= code[t.code].age + 1
    BY <2>4, <2>5, OlderBounds, Limits DEF CodeRow
  <2>7. code'[t.code].age \in Nat /\ code[t.code].age \in Nat
    BY <2>4, <2>5, Limits DEF CodeRow
  <2>8. code'[t.code].age <= CodeTTL + Timeout + x.age
    BY <2>2, <2>4, <2>6, <2>7, Limits
  <2> QED
    BY <2>2, <2>5, <2>8, Limits DEF HasRow
<1>6. CASE code' = code /\ tokens' = tokens
  BY <1>6, <1>k
<1> QED
  BY <1>1, <1>2, <1>3, <1>4, <1>5, <1>6
     DEF Next, AuthenticateClient, QueryCode, Answer, Crash,
         CleanupReads, InitKeys, RevokeClient, vars

LEMMA NextIInv == IInv /\ [Next]_vars => IInv'
BY NextTypeOK, NextQueryFirst, NextRequestsBacked, NextOldRowsOld,
   NextRemovedForGood, NextTokensOnRecord DEF IInv

LEMMA Invariance == Spec => []IInv
BY InitIInv, NextIInv, PTL DEF Spec

-----------------------------------------------------------------------------
(* The tables, the tokens and the requests keep their shape; in particular  *)
(* no request outlives gunicorn's timeout (grants.py:43-98, cli.py:144,     *)
(* cli.py:327).                                                             *)
THEOREM TypeCorrect == Spec => []TypeOK
<1>1. IInv => TypeOK
  BY DEF IInv
<1> QED
  BY <1>1, Invariance, PTL

(* The row that exists_nonce looks for outlives the ID token that carries   *)
(* its nonce, whichever of signing and marking comes first and however      *)
(* cleanup-codes falls between (cli.py:334).                                *)
THEOREM NonceIsKept == Spec => []NonceKept
<1>1. IInv => NonceKept
  BY DEF IInv, TokensOnRecord, OnRecord, NonceKept
<1> QED
  BY <1>1, Invariance, PTL

LEMMA NextKeepsDrained ==
  ASSUME IInv, [Next]_vars, NEW cl \in Clients, Drained(cl)
  PROVE  Drained(cl)'
<1>t. TypeOK
  BY DEF IInv
<1>1. active' \subseteq active
  BY DEF Next, SaveAuthorizationCode, AuthenticateClient, QueryCode, SpendCode,
         SignIdToken, Answer, Crash, CleanupReads, CleanupDeletes, InitKeys,
         RevokeClient, Tick, vars
<1>2. SUFFICES ASSUME NEW x \in Workers, work'[x] # None
               PROVE  work'[x].client # cl
  BY <1>1 DEF Drained
<1>k. ASSUME work'[x] = work[x] PROVE work'[x].client # cl
  BY <1>k, <1>2 DEF Drained
<1>3. ASSUME NEW w \in Workers, NEW c \in Codes, NEW d \in Clients,
             AuthenticateClient(w, d, c)
      PROVE  work'[x].client # cl
  <2>1. CASE x = w
    BY <1>3, <2>1, <1>t DEF AuthenticateClient, Drained, TypeOK
  <2>2. CASE x # w
    BY <1>3, <2>2, <1>k, <1>t DEF AuthenticateClient, TypeOK
  <2> QED
    BY <2>1, <2>2
<1>4. ASSUME NEW w \in Workers, QueryCode(w) PROVE work'[x].client # cl
  <2>1. CASE work' = [work EXCEPT ![w].todo = {"spend", "sign"}]
    <3>1. work[w] \in Work /\ work[w] # None
      BY <1>4, <1>t DEF QueryCode, ToDo, TypeOK
    <3>2. work'[w].client = work[w].client
      BY <2>1, <3>1, <1>t DEF Work, TypeOK
    <3>3. CASE x = w
      BY <3>1, <3>2, <3>3 DEF Drained
    <3>4. CASE x # w
      BY <2>1, <3>4, <1>k, <1>t DEF TypeOK
    <3> QED
      BY <3>3, <3>4
  <2>2. CASE Finish(w)
    BY <2>2, <1>2, <1>k, <1>t, FinishWork
  <2> QED
    BY <1>4, <2>1, <2>2 DEF QueryCode
<1>5. ASSUME NEW w \in Workers, NEW step, work[w] # None, Done(w, step)
      PROVE  work'[x].client # cl
  <2>1. CASE x = w
    BY <1>5, <2>1, <1>t, DoneWork DEF Drained
  <2>2. CASE x # w
    BY <1>5, <2>2, <1>k, <1>t, DoneWork
  <2> QED
    BY <2>1, <2>2
<1>6. ASSUME NEW w \in Workers, Finish(w) PROVE work'[x].client # cl
  BY <1>6, <1>2, <1>k, <1>t, FinishWork
<1>7. CASE Tick
  BY <1>7, <1>2, <1>t, TickWork DEF Drained
<1> QED
  BY <1>3, <1>4, <1>5, <1>6, <1>7, <1>k
     DEF Next, SaveAuthorizationCode, SpendCode, SignIdToken, ToDo, Answer, Crash,
         CleanupReads, CleanupDeletes, InitKeys, RevokeClient, vars

(* Only an answer counts as a use, and the code it is for is the client's   *)
(* own.                                                                     *)
LEMMA NextGivesNothing ==
  ASSUME IInv, [Next]_vars, NEW cl \in Clients, Drained(cl), NEW c \in CodesOf(cl)
  PROVE  uses'[c] = uses[c]
<1>1. ASSUME NEW w \in Workers, Answer(w) PROVE uses'[c] = uses[c]
  <2>1. Past(w) /\ work[w].client # cl
    BY <1>1 DEF Answer, Past, Drained
  <2>2. code[work[w].code].client # cl
    BY <2>1 DEF IInv, RequestsBacked, Backed
  <2>3. c # work[w].code
    BY <2>2 DEF CodesOf
  <2> QED
    BY <1>1, <2>3 DEF Answer, IInv, TypeOK, CodesOf
<1>2. CASE uses' = uses
  BY <1>2
<1> QED
  BY <1>1, <1>2
     DEF Next, SaveAuthorizationCode, AuthenticateClient, QueryCode, SpendCode,
         SignIdToken, Crash, CleanupReads, CleanupDeletes, InitKeys, RevokeClient,
         Tick, vars

(* A revoked client with no request past authentication gets no token for   *)
(* the codes it still holds, nor ever will (grants.py:106, cli.py:503).     *)
THEOREM RevokedGetsNothingEver == Spec => RevokedGetsNothing
<1> DEFINE Step == \A cl \in Clients : Drained(cl) =>
                     /\ Drained(cl)'
                     /\ \A c \in CodesOf(cl) : uses'[c] = uses[c]
<1>1. IInv /\ [Next]_vars => [Step]_vars
  BY NextKeepsDrained, NextGivesNothing
<1> QED
  BY <1>1, Invariance, PTL DEF Spec, RevokedGetsNothing

-----------------------------------------------------------------------------
(* The token endpoint implements OneTime.  What the mapping shows of a step *)
(* depends on the statuses and the holders before and after.               *)
statuses == [c \in Codes |-> Status(c)]
holding == [c \in Codes |-> HoldersOf(c)]

LEMMA SameStatus ==
  ASSUME code' = code, removed' = removed
  PROVE  statuses' = statuses
BY DEF statuses, Status, HasRow, IsExpired

LEMMA SameHolders ==
  ASSUME \A v \in Workers : /\ Past(v)' <=> Past(v)
                            /\ Past(v) => work'[v].code = work[v].code
  PROVE  holding' = holding
<1>1. \A c \in Codes : HoldersOf(c)' = HoldersOf(c)
  BY DEF HoldersOf, Past
<1> QED
  BY <1>1 DEF holding

(* A request that ends lets go of the code it holds, if it holds one.      *)
LEMMA FinishReleases ==
  ASSUME TypeOK, NEW w \in Workers, work[w] # None, Finish(w)
  PROVE  IF Past(w)
           THEN holding' = [holding EXCEPT ![work[w].code] = @ \ {w}]
           ELSE holding' = holding
<1>1. CASE Past(w)
  <2> DEFINE d == work[w].code
  <2>1. \A c \in Codes : HoldersOf(c)' = IF c = d THEN HoldersOf(c) \ {w} ELSE HoldersOf(c)
    BY FinishWork DEF HoldersOf
  <2>2. holding' = [c \in Codes |-> IF c = d THEN HoldersOf(c) \ {w} ELSE HoldersOf(c)]
    BY <2>1 DEF holding
  <2>3. [holding EXCEPT ![d] = @ \ {w}]
           = [c \in Codes |-> IF c = d THEN HoldersOf(c) \ {w} ELSE HoldersOf(c)]
    BY DEF holding
  <2> QED
    BY <1>1, <2>2, <2>3
<1>2. CASE ~Past(w)
  BY <1>2, FinishWork, SameHolders DEF Past
<1> QED
  BY <1>1, <1>2

LEMMA InitRefines == Init => OT!Init
<1> SUFFICES ASSUME Init PROVE OT!Init
  OBVIOUS
<1>1. \A c \in Codes : Status(c) = "absent"
  BY DEF Init, Status, HasRow
<1>2. \A c \in Codes : HoldersOf(c) = {}
  BY DEF Init, HoldersOf
<1> QED
  BY <1>1, <1>2 DEF Init, OT!Init

LEMMA Stutters ==
  ASSUME statuses' = statuses, holding' = holding, uses' = uses
  PROVE  UNCHANGED OT!vars
BY DEF OT!vars, statuses, holding

LEMMA FinishRefines ==
  ASSUME TypeOK, NEW w \in Workers, work[w] # None, Finish(w),
         statuses' = statuses, uses' = uses
  PROVE  [OT!Next]_(OT!vars)
<1>1. CASE Past(w)
  <2>1. work[w].code \in Codes
    BY DEF TypeOK, Work
  <2>2. OT!Release(w, work[w].code)
    BY <1>1, FinishReleases DEF OT!Release, statuses, holding
  <2> QED
    BY <2>1, <2>2 DEF OT!Next
<1>2. CASE ~Past(w)
  BY <1>2, FinishReleases, Stutters
<1> QED
  BY <1>1, <1>2

LEMMA SaveRefines ==
  ASSUME IInv, NEW c \in Codes, NEW cl \in Clients, SaveAuthorizationCode(c, cl)
  PROVE  OT!Next
<1> DEFINE row == [client |-> cl, used |-> FALSE, age |-> 0]
<1>1. row \in CodeRow
  BY Limits DEF CodeRow
<1>2. code'[c] = row /\ \A d \in Codes \ {c} : code'[d] = code[d]
  BY DEF SaveAuthorizationCode, IInv, TypeOK
<1>3. Status(c)' = "live"
  <2>1. code'[c].used = FALSE /\ code'[c].age = 0
    BY <1>2
  <2>2. row # None
    BY <1>1, Limits
  <2> QED
    BY <2>1, <2>2, <1>2, Limits DEF Status, HasRow, IsExpired
<1>4. \A d \in Codes \ {c} : Status(d)' = Status(d)
  BY <1>2 DEF SaveAuthorizationCode, Status, HasRow, IsExpired
<1>5. Status(c) = "absent"
  BY DEF SaveAuthorizationCode, Status, HasRow
<1>6. holding' = holding /\ uses' = uses
  BY SameHolders DEF SaveAuthorizationCode, Past
<1>7. OT!Issue({c})
  BY <1>3, <1>4, <1>5, <1>6 DEF OT!Issue, holding
<1> QED
  BY <1>7 DEF OT!Next

LEMMA AuthenticateRefines ==
  ASSUME IInv, NEW w \in Workers, NEW c \in Codes, NEW cl \in Clients,
         AuthenticateClient(w, cl, c)
  PROVE  UNCHANGED OT!vars
<1>1. \A v \in Workers : /\ Past(v)' <=> Past(v)
                         /\ Past(v) => work'[v].code = work[v].code
  <2>1. ~Past(w) /\ ~Past(w)'
    BY DEF AuthenticateClient, Past, IInv, TypeOK
  <2>2. \A v \in Workers \ {w} : work'[v] = work[v]
    BY DEF AuthenticateClient, IInv, TypeOK
  <2> QED
    BY <2>1, <2>2 DEF Past
<1> QED
  BY <1>1, SameHolders, SameStatus, Stutters DEF AuthenticateClient

(* A row that passes the query is live, and so is its code.                *)
LEMMA QueryRefines ==
  ASSUME IInv, NEW w \in Workers, QueryCode(w)
  PROVE  [OT!Next]_(OT!vars)
<1> DEFINE d == work[w].code
<1>t. TypeOK
  BY DEF IInv
<1>1. work[w] # None /\ work[w] \in Work /\ ~Past(w) /\ d \in Codes
  BY <1>t DEF QueryCode, ToDo, Past, TypeOK, Work
<1>2. statuses' = statuses /\ uses' = uses
  BY SameStatus DEF QueryCode
<1>3. CASE Finish(w)
  BY <1>1, <1>2, <1>3, <1>t, FinishRefines
<1>4. CASE /\ Valid(d, work[w].client)
           /\ work' = [work EXCEPT ![w].todo = {"spend", "sign"}]
  <2>1. Status(d) = "live"
    BY <1>4 DEF Valid, Status
  <2>2. work'[w] = [work[w] EXCEPT !.todo = {"spend", "sign"}]
    BY <1>4, <1>t DEF TypeOK
  <2>3. /\ work'[w].code = d /\ work'[w].todo = {"spend", "sign"}
        /\ work'[w] \in Work /\ work'[w] # None
    BY <2>2, <1>1, Limits DEF Work
  <2>4. \A v \in Workers \ {w} : work'[v] = work[v]
    BY <1>4, <1>t DEF TypeOK
  <2>5. \A c \in Codes :
          HoldersOf(c)' = IF c = d THEN HoldersOf(c) \cup {w} ELSE HoldersOf(c)
    BY <1>1, <2>3, <2>4 DEF HoldersOf, Past
  <2>6. holding' = [holding EXCEPT ![d] = @ \cup {w}]
    <3>1. holding' = [c \in Codes |-> IF c = d THEN HoldersOf(c) \cup {w} ELSE HoldersOf(c)]
      BY <2>5 DEF holding
    <3>2. [holding EXCEPT ![d] = @ \cup {w}]
             = [c \in Codes |-> IF c = d THEN HoldersOf(c) \cup {w} ELSE HoldersOf(c)]
      BY DEF holding
    <3> QED
      BY <3>1, <3>2
  <2>7. OT!Hold(w, d)
    BY <1>1, <1>2, <2>1, <2>6 DEF OT!Hold, statuses, holding
  <2> QED
    BY <1>1, <2>7 DEF OT!Next
<1> QED
  BY <1>3, <1>4 DEF QueryCode

(* The row is there, so it is marked, by this request or again.            *)
LEMMA SpendRefines ==
  ASSUME IInv, NEW w \in Workers, SpendCode(w)
  PROVE  [OT!Next]_(OT!vars)
<1>t. TypeOK
  BY DEF IInv
<1>1. work[w] # None /\ Past(w)
  BY DEF SpendCode, ToDo, Past, IInv, QueryFirst
<1>c. PICK d \in Codes : d = work[w].code
  BY <1>1, BackedIsNotOld
<1>2. HasRow(d) /\ code[d] \in CodeRow
  BY <1>1, <1>c, BackedIsNotOld
<1>3. /\ code' = [code EXCEPT ![d].used = TRUE]
      /\ Done(w, "spend")
      /\ UNCHANGED <<removed, uses>>
  BY <1>2, <1>c DEF SpendCode
<1>4. /\ code'[d] = [code[d] EXCEPT !.used = TRUE]
      /\ \A c \in Codes \ {d} : code'[c] = code[c]
  BY <1>2, <1>3, <1>t DEF TypeOK
<1>5. code'[d] \in CodeRow /\ code'[d].used
  BY <1>2, <1>4 DEF CodeRow
<1>6. Status(d)' = "gone" /\ Status(d) \in {"live", "gone"}
  BY <1>2, <1>5, Limits DEF Status, HasRow
<1>7. \A c \in Codes \ {d} : Status(c)' = Status(c)
  BY <1>3, <1>4 DEF Status, HasRow, IsExpired
<1>8. holding' = holding
  <2>1. \A v \in Workers : /\ Past(v)' <=> Past(v)
                           /\ Past(v) => work'[v].code = work[v].code
    BY <1>1, <1>3, <1>t, DoneWork, Limits DEF Past
  <2> QED
    BY <2>1, SameHolders
<1>9. CASE Status(d) = "live"
  <2>1. OT!End({d})
    BY <1>3, <1>6, <1>7, <1>8, <1>9 DEF OT!End, holding
  <2> QED
    BY <1>2, <2>1 DEF OT!Next
<1>10. CASE Status(d) = "gone"
  <2>1. statuses' = statuses
    BY <1>6, <1>7, <1>10 DEF statuses
  <2> QED
    BY <2>1, <1>3, <1>8, Stutters
<1> QED
  BY <1>6, <1>9, <1>10

LEMMA SignRefines ==
  ASSUME IInv, NEW w \in Workers, SignIdToken(w)
  PROVE  [OT!Next]_(OT!vars)
<1>t. TypeOK
  BY DEF IInv
<1>1. work[w] # None /\ statuses' = statuses /\ uses' = uses
  BY SameStatus DEF SignIdToken, ToDo
<1>2. CASE Finish(w)
  BY <1>1, <1>2, <1>t, FinishRefines
<1>3. CASE Done(w, "sign")
  <2>1. \A v \in Workers : /\ Past(v)' <=> Past(v)
                           /\ Past(v) => work'[v].code = work[v].code
    BY <1>1, <1>3, <1>t, DoneWork, Limits DEF Past
  <2> QED
    BY <1>1, <2>1, SameHolders, Stutters
<1> QED
  BY <1>2, <1>3 DEF SignIdToken

(* An answer is only given once the row is marked.                         *)
LEMMA AnswerRefines ==
  ASSUME IInv, NEW w \in Workers, Answer(w)
  PROVE  OT!Next
<1> DEFINE d == work[w].code
<1>t. TypeOK
  BY DEF IInv
<1>1. Past(w)
  BY DEF Answer, Past
<1>2. d \in Codes /\ HasRow(d) /\ code[d].used
  BY <1>1, BackedIsNotOld DEF IInv, RequestsBacked, Backed, Answer
<1>3. Status(d) = "gone"
  BY <1>2 DEF Status
<1>4. statuses' = statuses
  BY SameStatus DEF Answer
<1>5. holding' = [holding EXCEPT ![d] = @ \ {w}]
  BY <1>1, <1>t, FinishReleases DEF Answer
<1>6. w \in HoldersOf(d)
  BY <1>1 DEF HoldersOf, Past
<1>7. OT!Redeem(w, d)
  BY <1>2, <1>3, <1>4, <1>5, <1>6 DEF OT!Redeem, Answer, statuses, holding
<1> QED
  BY <1>2, <1>7 DEF OT!Next

(* Rows are deleted long after they have expired.                          *)
LEMMA CleanupRefines ==
  ASSUME IInv, CleanupDeletes
  PROVE  UNCHANGED OT!vars
<1>1. \A c \in Codes : Status(c)' = Status(c)
  <2> SUFFICES ASSUME NEW c \in Codes PROVE Status(c)' = Status(c)
    OBVIOUS
  <2>1. CASE c \in old
    <3>1. HasRow(c) /\ code[c].age > CodeTTL + Retention
      BY <2>1 DEF IInv, OldRowsOld
    <3>2. code[c] \in CodeRow
      BY <3>1 DEF IInv, TypeOK, HasRow
    <3>3. Status(c) = "gone"
      BY <3>1, <3>2, Limits DEF Status, IsExpired, CodeRow
    <3> QED
      BY <2>1, <3>3 DEF CleanupDeletes, Status, HasRow
  <2>2. CASE c \notin old
    BY <2>2 DEF CleanupDeletes, Status, HasRow, IsExpired
  <2> QED
    BY <2>1, <2>2
<1>2. statuses' = statuses
  BY <1>1 DEF statuses
<1> QED
  BY <1>2, SameHolders, Stutters DEF CleanupDeletes, Past

(* Every code whose lifetime ends with this tick ends, all at once.        *)
LEMMA TickRefines ==
  ASSUME IInv, Tick
  PROVE  OT!Next
<1> DEFINE S == {c \in Codes : Status(c) = "live" /\ Status(c)' = "gone"}
<1>t. TypeOK
  BY DEF IInv
<1>1. \A c \in Codes \ S : Status(c)' = Status(c)
  <2> SUFFICES ASSUME NEW c \in Codes
               PROVE  Status(c)' = Status(c) \/ c \in S
    OBVIOUS
  <2>1. CASE HasRow(c)
    <3>1. /\ code[c] \in CodeRow /\ code'[c] \in CodeRow
          /\ code'[c].used = code[c].used
          /\ code'[c].age = Older(code[c].age, MaxAge)
      BY <2>1, <1>t, TickRow
    <3>2. code[c].age <= code'[c].age
      BY <3>1, OlderBounds, Limits DEF CodeRow
    <3>3. IsExpired(c) => IsExpired(c)'
      BY <3>1, <3>2, Limits DEF IsExpired, CodeRow
    <3> QED
      BY <2>1, <3>1, <3>3, Limits DEF Status, HasRow
  <2>2. CASE ~HasRow(c)
    BY <2>2, <1>t, TickRow DEF Tick, Status, HasRow
  <2> QED
    BY <2>1, <2>2
<1>2. statuses' = [c \in Codes |-> IF c \in S THEN "gone" ELSE statuses[c]]
  BY <1>1 DEF statuses
<1>3. \A v \in Workers : /\ Past(v)' <=> Past(v)
                         /\ Past(v) => work'[v].code = work[v].code
  BY <1>t, TickWork, Limits DEF Past
<1>4. holding' = holding /\ uses' = uses
  BY <1>3, SameHolders DEF Tick
<1>5. OT!End(S)
  BY <1>2, <1>4 DEF OT!End, statuses, holding
<1>6. S \in SUBSET Codes
  OBVIOUS
<1> QED
  BY <1>5, <1>6 DEF OT!Next

LEMMA NextRefines == IInv /\ [Next]_vars => [OT!Next]_(OT!vars)
<1> SUFFICES ASSUME IInv, [Next]_vars PROVE [OT!Next]_(OT!vars)
  OBVIOUS
<1>1. ASSUME NEW w \in Workers, Crash(w) PROVE [OT!Next]_(OT!vars)
  BY <1>1, FinishRefines, SameStatus DEF Crash, IInv
<1>2. CASE UNCHANGED <<code, work, removed, uses>>
  BY <1>2, SameStatus, SameHolders, Stutters DEF Past
<1> QED
  BY <1>1, <1>2, SaveRefines, AuthenticateRefines, QueryRefines, SpendRefines,
     SignRefines, AnswerRefines, CleanupRefines, TickRefines
     DEF Next, CleanupReads, InitKeys, RevokeClient, vars

(* An authorization code is a one-time token: whatever order a request      *)
(* signs and marks in, and whenever cleanup-codes runs, a request that      *)
(* queries the code after it was marked, expired or removed gets no token   *)
(* (grants.py:53-74).                                                       *)
THEOREM CodesAreOneTime == Spec => OneTimeCodes
BY Invariance, InitRefines, NextRefines, PTL DEF Spec, OneTimeCodes, OT!Spec

-----------------------------------------------------------------------------
(* What OneTime_proofs shows of the abstract token, instantiated as the    *)
(* mapping instantiates OneTime.                                           *)
OTP == INSTANCE OneTime_proofs WITH Tokens <- Codes,
                                    status <- [c \in Codes |-> Status(c)],
                                    holders <- [c \in Codes |-> HoldersOf(c)],
                                    uses <- uses

LEMMA SameAbstraction == OT!Spec => OTP!Spec
<1>1. OT!Init => OTP!Init
  BY DEF OT!Init, OTP!Init
<1>2. [OT!Next]_(OT!vars) => [OTP!Next]_(OTP!vars)
  BY DEF OT!vars, OT!Next, OT!Issue, OT!Hold, OT!End, OT!Redeem, OT!Release,
         OTP!vars, OTP!Next, OTP!Issue, OTP!Hold, OTP!End, OTP!Redeem, OTP!Release
<1> QED
  BY <1>1, <1>2, PTL DEF OT!Spec, OTP!Spec

LEMMA SameCardinality ==
  /\ OTP!IsFiniteSet(Workers)
  /\ OTP!Cardinality(Workers) = Cardinality(Workers)
<1>1. OTP!IsFiniteSet(Workers)
  BY WorkersAssumption DEF IsFiniteSet, OTP!IsFiniteSet
<1>2. OTP!Cardinality(Workers) = Cardinality(Workers)
  BY DEF Cardinality, OTP!Cardinality
<1> QED
  BY <1>1, <1>2

(* A code that is posted again and again is answered with a token at most   *)
(* once per gunicorn worker, and with one worker, once (grants.py:73).      *)
UsesBounded == \A c \in Codes : uses[c] <= Cardinality(Workers)

THEOREM CodeUsesBounded == Spec => []UsesBounded
<1>1. OTP!Spec => []OTP!UsesBounded
  BY SameCardinality, OTP!BoundedUse
<1>2. OTP!UsesBounded => UsesBounded
  BY SameCardinality DEF OTP!UsesBounded, UsesBounded
<1> QED
  BY <1>1, <1>2, CodesAreOneTime, SameAbstraction, PTL DEF OneTimeCodes
=============================================================================
