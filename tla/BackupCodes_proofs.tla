------------------------- MODULE BackupCodes_proofs -------------------------
(***************************************************************************)
(* BackupCodes is type correct together with the rate limiter it extends;  *)
(* a backup code is a one-time token; and no login goes unaudited.         *)
(***************************************************************************)
EXTENDS BackupCodes, FiniteSetTheorems, FunctionTheorems, TLAPS

(* A request holds the code of a row that is there, and is past marking it  *)
(* only if the row is marked: nothing turns a row back.                     *)
RequestsBacked ==
  \A w \in Workers : work[w] # None =>
    /\ backup_code[work[w].code] # None
    /\ work[w].at # "mark" => backup_code[work[w].code] = "used"

(* LoginsAudited is not inductive: a request that has written its audit row *)
(* is still owed a login.                                                   *)
Answering(u) ==
  {w \in Workers : work[w] # None /\ work[w].at = "answer" /\ work[w].user = u}

AuditsCover == \A u \in Users : logins[u] + Cardinality(Answering(u)) <= audit[u]

IInv == TypeOK /\ RequestsBacked /\ AuditsCover

-----------------------------------------------------------------------------
LEMMA NoRow == None \notin Work /\ None \notin Counter /\ None # "unused" /\ None # "used"
BY NoRowAssumption

LEMMA WorkFields ==
  ASSUME TypeOK, NEW w \in Workers, work[w] # None
  PROVE  /\ work[w] \in Work
         /\ work[w].at \in {"mark", "audit", "answer"}
         /\ work[w].user \in Users
         /\ work[w].code \in Codes
BY DEF TypeOK, Work

LEMMA AnsweringFinite ==
  ASSUME NEW u
  PROVE  IsFiniteSet(Answering(u)) /\ Cardinality(Answering(u)) \in Nat
<1>1. Answering(u) \in SUBSET Workers
  BY DEF Answering
<1>2. IsFiniteSet(Answering(u))
  BY <1>1, FS_Subset, WorkersAssumption
<1> QED
  BY <1>2, FS_CardinalityType

LEMMA AdvanceWork ==
  ASSUME TypeOK, NEW w \in Workers, work[w] # None,
         NEW a \in {"audit", "answer"}, work' = [work EXCEPT ![w].at = a]
  PROVE  /\ work' \in [Workers -> Work \cup {None}]
         /\ work'[w] # None
         /\ work'[w].at = a
         /\ work'[w].user = work[w].user
         /\ work'[w].code = work[w].code
         /\ \A v \in Workers : v # w => work'[v] = work[v]
<1>1. work[w] \in Work
  BY WorkFields
<1>2. work'[w] = [work[w] EXCEPT !.at = a] /\ \A v \in Workers : v # w => work'[v] = work[v]
  BY DEF TypeOK
<1>3. work'[w] \in Work
  BY <1>1, <1>2 DEF Work
<1>4. work' \in [Workers -> Work \cup {None}]
  BY <1>1, <1>3 DEF TypeOK, Work
<1>5. /\ work'[w].at = a
      /\ work'[w].user = work[w].user
      /\ work'[w].code = work[w].code
  BY <1>1, <1>2 DEF Work
<1> QED
  BY <1>2, <1>3, <1>4, <1>5, NoRow

-----------------------------------------------------------------------------
(* The rate limiter: its counters stay within the limit, and age within     *)
(* their window.                                                            *)
LEMMA AdmitType ==
  ASSUME LimiterTypeOK, NEW w \in Workers, Admit(w)
  PROVE  /\ LimiterTypeOK'
         /\ Nth(w) \in 1 .. Limit
         /\ hits'[w] # None /\ hits'[w].count = Nth(w)
         /\ hits[w] = None => Nth(w) = 1 /\ hits'[w].age = 0
         /\ hits[w] # None => Nth(w) = hits[w].count + 1 /\ hits'[w].age = hits[w].age
         /\ \A v \in Workers : v # w => hits'[v] = hits[v]
<1> DEFINE age == IF hits[w] = None THEN 0 ELSE hits[w].age
           k == [count |-> Nth(w), age |-> age]
<1>1. Limit \in Nat /\ Limit >= 1 /\ Window \in Nat /\ Window >= 1 /\ MaxKills \in Nat
  BY LimitAssumption
<1>2. hits[w] # None => hits[w].count \in 1 .. Limit /\ hits[w].age \in 0 .. Window - 1
  BY DEF LimiterTypeOK, Counter
<1>3. Nth(w) \in 1 .. Limit
  BY <1>1, <1>2 DEF Nth, Admit, Below
<1>4. age \in 0 .. Window - 1
  BY <1>1, <1>2
<1> HIDE DEF age
<1>5. k \in Counter /\ k # None /\ k.count = Nth(w) /\ k.age = age
  BY <1>3, <1>4, NoRow DEF Counter
<1>6. hits' = [hits EXCEPT ![w] = k]
  BY DEF Admit, age
<1> HIDE DEF k
<1>7. /\ hits' \in [Workers -> Counter \cup {None}] /\ hits'[w] = k
      /\ \A v \in Workers : v # w => hits'[v] = hits[v]
  BY <1>5, <1>6 DEF LimiterTypeOK
<1>8. admitted' \subseteq Admission
  BY <1>1, <1>3 DEF Admit, LimiterTypeOK, Admission
<1>9. LimiterTypeOK'
  BY <1>7, <1>8 DEF Admit, LimiterTypeOK
<1> QED
  BY <1>3, <1>5, <1>7, <1>9 DEF Nth, age

LEMMA OlderType ==
  ASSUME LimiterTypeOK, NEW r \in admitted, r.age < Window - 1
  PROVE  /\ Older(r) \in Admission
         /\ Older(r).by = r.by /\ Older(r).nth = r.nth /\ Older(r).kill = r.kill
         /\ Older(r).age = r.age + 1
         /\ Older(r).window = IF Ends(r.by) THEN "over" ELSE r.window
<1> DEFINE age == r.age + 1
           over == IF Ends(r.by) THEN "over" ELSE r.window
<1>1. r \in Admission /\ Window \in Nat
  BY LimitAssumption DEF LimiterTypeOK
<1>2. age \in 0 .. Window - 1 /\ over \in {"open", "over"}
  BY <1>1 DEF Admission
<1>3. Older(r) = [r EXCEPT !.age = age, !.window = over]
  BY DEF Older
<1> HIDE DEF age, over
<1>4. /\ Older(r) \in Admission
      /\ Older(r).by = r.by /\ Older(r).nth = r.nth /\ Older(r).kill = r.kill
      /\ Older(r).age = age /\ Older(r).window = over
  BY <1>1, <1>2, <1>3 DEF Admission
<1> QED
  BY <1>4 DEF age, over

LEMMA ElapseType ==
  ASSUME LimiterTypeOK, Elapse
  PROVE  /\ LimiterTypeOK'
         /\ \A w \in Workers :
              /\ Ends(w) => hits'[w] = None
              /\ ~Ends(w) => /\ hits[w] # None /\ hits'[w] # None
                             /\ hits'[w].count = hits[w].count
                             /\ hits'[w].age = hits[w].age + 1
<1>1. Limit \in Nat /\ Limit >= 1 /\ Window \in Nat /\ Window >= 1
  BY LimitAssumption
<1>2. ASSUME NEW w \in Workers, ~Ends(w)
      PROVE  /\ hits[w] # None
             /\ [hits[w] EXCEPT !.age = @ + 1] \in Counter
             /\ [hits[w] EXCEPT !.age = @ + 1].count = hits[w].count
             /\ [hits[w] EXCEPT !.age = @ + 1].age = hits[w].age + 1
  <2>1. hits[w] \in Counter /\ hits[w] # None /\ hits[w].age # Window - 1
    BY <1>2 DEF LimiterTypeOK, Ends
  <2> QED
    BY <1>1, <2>1 DEF Counter
<1>3. \A w \in Workers :
        hits'[w] = IF Ends(w) THEN None ELSE [hits[w] EXCEPT !.age = @ + 1]
  BY DEF Elapse
<1>4. hits' \in [Workers -> Counter \cup {None}]
  BY <1>2 DEF Elapse
<1>5. admitted' \subseteq Admission
  BY OlderType DEF Elapse
<1>6. LimiterTypeOK'
  BY <1>4, <1>5 DEF Elapse, LimiterTypeOK
<1> QED
  BY <1>2, <1>3, <1>6, NoRow

LEMMA ForgetType ==
  ASSUME LimiterTypeOK, NEW w \in Workers, Forget(w)
  PROVE  LimiterTypeOK'
<1> MaxKills \in Nat /\ kills \in 0 .. MaxKills /\ kills < MaxKills /\ kills' = kills + 1
  BY LimitAssumption DEF Forget, LimiterTypeOK
<1>1. kills + 1 \in 0 .. MaxKills
  OBVIOUS
<1>2. \A r \in admitted : [r EXCEPT !.window = "over", !.kill = kills + 1] \in Admission
  BY <1>1 DEF LimiterTypeOK, Admission
<1>3. admitted' \subseteq Admission
  BY <1>2 DEF Forget, LimiterTypeOK
<1> QED
  BY <1>1, <1>3 DEF Forget, LimiterTypeOK

-----------------------------------------------------------------------------
LEMMA InitIInv == Init => IInv
<1> SUFFICES ASSUME Init PROVE IInv
  OBVIOUS
<1>1. LimiterTypeOK
  BY LimitAssumption DEF Init, LimiterInit, LimiterTypeOK
<1>2. TypeOK
  BY <1>1 DEF Init, TypeOK
<1>3. RequestsBacked
  BY DEF Init, RequestsBacked
<1>4. AuditsCover
  <2> SUFFICES ASSUME NEW u \in Users
      PROVE  logins[u] + Cardinality(Answering(u)) <= audit[u]
    BY DEF AuditsCover
  <2>1. Answering(u) = {}
    BY DEF Init, Answering
  <2> QED
    BY <2>1, FS_EmptySet DEF Init
<1> QED
  BY <1>2, <1>3, <1>4 DEF IInv

(* Steps that leave the counts alone and bring nobody to "answer".          *)
LEMMA CoverKept ==
  ASSUME TypeOK, AuditsCover, audit' = audit, logins' = logins,
         \A u \in Users : Answering(u)' \in SUBSET Answering(u)
  PROVE  AuditsCover'
<1> SUFFICES ASSUME NEW u \in Users
    PROVE  logins[u] + Cardinality(Answering(u)') <= audit[u]
  BY DEF AuditsCover
<1>1. logins[u] + Cardinality(Answering(u)) <= audit[u] /\ logins[u] \in Nat
      /\ audit[u] \in Nat
  BY DEF AuditsCover, TypeOK
<1>2. IsFiniteSet(Answering(u)')
      /\ Cardinality(Answering(u)') <= Cardinality(Answering(u))
  BY AnsweringFinite, FS_Subset
<1>3. Cardinality(Answering(u)') \in Nat
  BY <1>2, FS_CardinalityType
<1> QED
  BY <1>1, <1>2, <1>3, AnsweringFinite

LEMMA RegisterKeeps ==
  ASSUME IInv, NEW u \in Users, Register(u)
  PROVE  IInv'
<1>1. TypeOK'
  BY DEF Register, limiterVars, IInv, TypeOK, LimiterTypeOK
<1>2. RequestsBacked'
  <2>1. \A c \in Codes : backup_code[c] # None => backup_code'[c] = backup_code[c]
    BY DEF Register
  <2>2. \A w \in Workers : work[w] # None => work[w].code \in Codes
    BY WorkFields DEF IInv
  <2> QED
    BY <2>1, <2>2 DEF Register, IInv, RequestsBacked
<1>3. AuditsCover'
  <2>1. \A v \in Users : Answering(v)' \in SUBSET Answering(v)
    BY DEF Register, Answering
  <2> QED
    BY <2>1, CoverKept DEF Register, IInv
<1> QED
  BY <1>1, <1>2, <1>3 DEF IInv

LEMMA MatchKeeps ==
  ASSUME IInv, NEW w \in Workers, NEW u \in Users, NEW c \in Codes, Match(w, u, c)
  PROVE  IInv'
<1> DEFINE k == [at |-> "mark", user |-> u, code |-> c]
<1>1. k \in Work /\ k.at = "mark" /\ k.code = c
  BY DEF Work
<1>2. work' = [work EXCEPT ![w] = k] /\ backup_code[c] = "unused"
  BY DEF Match, ValidCodes
<1> HIDE DEF k
<1>3. work'[w] = k /\ \A v \in Workers : v # w => work'[v] = work[v]
  BY <1>2 DEF IInv, TypeOK
<1>4. TypeOK'
  BY <1>1, <1>2, AdmitType DEF Match, IInv, TypeOK
<1>5. RequestsBacked'
  BY <1>1, <1>2, <1>3, NoRow DEF Match, IInv, RequestsBacked
<1>6. AuditsCover'
  <2>1. \A v \in Users : Answering(v)' \in SUBSET Answering(v)
    BY <1>1, <1>3 DEF Answering
  <2> QED
    BY <2>1, CoverKept DEF Match, IInv
<1> QED
  BY <1>4, <1>5, <1>6 DEF IInv

LEMMA MarkKeeps ==
  ASSUME IInv, NEW w \in Workers, MarkUsed(w)
  PROVE  IInv'
<1>1. TypeOK /\ work[w] # None
  BY DEF IInv, MarkUsed
<1>2. PICK c \in Codes : c = work[w].code
  BY <1>1, WorkFields
<1>3. /\ work' \in [Workers -> Work \cup {None}]
      /\ work'[w].at = "audit"
      /\ work'[w].code = c
      /\ \A v \in Workers : v # w => work'[v] = work[v]
  BY <1>1, <1>2, AdvanceWork DEF MarkUsed
<1>4. backup_code' = [backup_code EXCEPT ![c] = "used"]
  BY <1>2 DEF MarkUsed
<1>5. backup_code'[c] = "used" /\ \A d \in Codes : d # c => backup_code'[d] = backup_code[d]
  BY <1>1, <1>4 DEF TypeOK
<1>6. TypeOK'
  <2>1. backup_code' \in [Codes -> {None, "unused", "used"}]
    BY <1>1, <1>4 DEF TypeOK
  <2> QED
    BY <1>1, <1>3, <2>1 DEF MarkUsed, limiterVars, TypeOK, LimiterTypeOK
<1>7. RequestsBacked'
  <2>1. \A v \in Workers : work[v] # None => work[v].code \in Codes
    BY <1>1, WorkFields
  <2> QED
    BY <1>3, <1>5, <2>1, NoRow DEF IInv, RequestsBacked
<1>8. AuditsCover'
  <2>1. \A u \in Users : Answering(u)' \in SUBSET Answering(u)
    BY <1>3 DEF Answering
  <2> QED
    BY <1>1, <2>1, CoverKept DEF MarkUsed, IInv
<1> QED
  BY <1>6, <1>7, <1>8 DEF IInv

LEMMA AuditKeeps ==
  ASSUME IInv, NEW w \in Workers, AuditVerify(w)
  PROVE  IInv'
<1>1. TypeOK /\ work[w] # None /\ work[w].at = "audit"
  BY DEF IInv, AuditVerify
<1>2. PICK u \in Users : u = work[w].user
  BY <1>1, WorkFields
<1>3. /\ work' \in [Workers -> Work \cup {None}]
      /\ work'[w] # None
      /\ work'[w].at = "answer"
      /\ work'[w].code = work[w].code
      /\ work'[w].user = u
      /\ \A v \in Workers : v # w => work'[v] = work[v]
  BY <1>1, <1>2, AdvanceWork DEF AuditVerify
<1>4. audit' = [audit EXCEPT ![u] = @ + 1] /\ logins' = logins
  BY <1>2 DEF AuditVerify
<1>5. TypeOK'
  <2>1. audit' \in [Users -> Nat]
    BY <1>1, <1>4 DEF TypeOK
  <2> QED
    BY <1>1, <1>3, <2>1 DEF AuditVerify, limiterVars, TypeOK, LimiterTypeOK
<1>6. RequestsBacked'
  BY <1>1, <1>3 DEF AuditVerify, IInv, RequestsBacked
<1>7. AuditsCover'
  <2> SUFFICES ASSUME NEW v \in Users
      PROVE  logins[v] + Cardinality(Answering(v)') <= audit'[v]
    BY <1>4 DEF AuditsCover
  <2>1. logins[v] \in Nat /\ audit[v] \in Nat
        /\ logins[v] + Cardinality(Answering(v)) <= audit[v]
    BY <1>1 DEF IInv, AuditsCover, TypeOK
  <2>2. CASE v = u
    <3>1. Answering(v)' = Answering(v) \cup {w} /\ w \notin Answering(v)
      BY <1>1, <1>3, <2>2 DEF Answering
    <3>2. Cardinality(Answering(v)') = Cardinality(Answering(v)) + 1
      BY <3>1, AnsweringFinite, FS_AddElement
    <3>3. audit'[v] = audit[v] + 1
      BY <1>1, <1>4, <2>2 DEF TypeOK
    <3> QED
      BY <2>1, <3>2, <3>3, AnsweringFinite
  <2>3. CASE v # u
    <3>1. Answering(v)' = Answering(v)
      BY <1>1, <1>2, <1>3, <2>3 DEF Answering
    <3>2. audit'[v] = audit[v]
      BY <1>1, <1>4, <2>3 DEF TypeOK
    <3> QED
      BY <2>1, <3>1, <3>2
  <2> QED
    BY <2>2, <2>3
<1> QED
  BY <1>5, <1>6, <1>7 DEF IInv

(* A request ends without a login.                                          *)
LEMMA EndKeeps ==
  ASSUME IInv, NEW w \in Workers, work' = [work EXCEPT ![w] = None], LimiterTypeOK',
         UNCHANGED <<backup_code, audit, uses, logins>>
  PROVE  IInv'
<1>1. work'[w] = None /\ \A v \in Workers : v # w => work'[v] = work[v]
  BY DEF IInv, TypeOK
<1>2. TypeOK'
  BY DEF IInv, TypeOK
<1>3. RequestsBacked'
  BY <1>1 DEF IInv, RequestsBacked
<1>4. AuditsCover'
  <2>1. \A u \in Users : Answering(u)' \in SUBSET Answering(u)
    BY <1>1 DEF Answering
  <2> QED
    BY <2>1, CoverKept DEF IInv
<1> QED
  BY <1>2, <1>3, <1>4 DEF IInv

LEMMA RedeemKeeps ==
  ASSUME IInv, NEW w \in Workers, Redeem(w)
  PROVE  IInv'
<1>1. TypeOK /\ work[w] # None /\ work[w].at = "answer"
  BY DEF IInv, Redeem
<1>2. PICK u \in Users : u = work[w].user
  BY <1>1, WorkFields
<1>3. work'[w] = None /\ \A v \in Workers : v # w => work'[v] = work[v]
  BY <1>1 DEF Redeem, TypeOK
<1>4. logins' = [logins EXCEPT ![u] = @ + 1] /\ audit' = audit
  BY <1>2 DEF Redeem
<1>5. TypeOK'
  <2>1. logins' \in [Users -> Nat]
    BY <1>1, <1>4 DEF TypeOK
  <2>2. uses' \in [Codes -> Nat] /\ work' \in [Workers -> Work \cup {None}]
    BY <1>1, WorkFields DEF Redeem, TypeOK
  <2> QED
    BY <1>1, <2>1, <2>2 DEF Redeem, limiterVars, TypeOK, LimiterTypeOK
<1>6. RequestsBacked'
  BY <1>3 DEF Redeem, IInv, RequestsBacked
<1>7. AuditsCover'
  <2> SUFFICES ASSUME NEW v \in Users
      PROVE  logins'[v] + Cardinality(Answering(v)') <= audit[v]
    BY <1>4 DEF AuditsCover
  <2>1. logins[v] \in Nat /\ audit[v] \in Nat
        /\ logins[v] + Cardinality(Answering(v)) <= audit[v]
    BY <1>1 DEF IInv, AuditsCover, TypeOK
  <2>2. CASE v = u
    <3>1. Answering(v)' = Answering(v) \ {w} /\ w \in Answering(v)
      BY <1>1, <1>2, <1>3, <2>2 DEF Answering
    <3>2. Cardinality(Answering(v)') = Cardinality(Answering(v)) - 1
      BY <3>1, AnsweringFinite, FS_RemoveElement
    <3>3. logins'[v] = logins[v] + 1
      BY <1>1, <1>4, <2>2 DEF TypeOK
    <3> QED
      BY <2>1, <3>2, <3>3, AnsweringFinite
  <2>3. CASE v # u
    <3>1. Answering(v)' = Answering(v)
      BY <1>1, <1>2, <1>3, <2>3 DEF Answering
    <3>2. logins'[v] = logins[v]
      BY <1>1, <1>4, <2>3 DEF TypeOK
    <3> QED
      BY <2>1, <3>1, <3>2
  <2> QED
    BY <2>2, <2>3
<1> QED
  BY <1>5, <1>6, <1>7 DEF IInv

(* A step of the limiter alone.                                             *)
LEMMA LimiterKeeps ==
  ASSUME IInv, LimiterTypeOK', UNCHANGED <<backup_code, work, audit, uses, logins>>
  PROVE  IInv'
<1>1. TypeOK'
  BY DEF IInv, TypeOK
<1>2. RequestsBacked'
  BY DEF IInv, RequestsBacked
<1>3. AuditsCover'
  BY DEF IInv, AuditsCover, Answering
<1> QED
  BY <1>1, <1>2, <1>3 DEF IInv

LEMMA NextIInv == IInv /\ [Next]_vars => IInv'
<1> SUFFICES ASSUME IInv, [Next]_vars PROVE IInv'
  OBVIOUS
<1>1. LimiterTypeOK
  BY DEF IInv, TypeOK
<1>2. CASE Time
  BY <1>1, <1>2, ElapseType, LimiterKeeps DEF Time
<1>3. ASSUME NEW w \in Workers, Crash(w) PROVE IInv'
  <2>1. LimiterTypeOK'
    BY <1>1, <1>3 DEF Crash, limiterVars, LimiterTypeOK
  <2> QED
    BY <1>3, <2>1, EndKeeps DEF Crash
<1>4. ASSUME NEW w \in Workers, Kill(w) PROVE IInv'
  BY <1>1, <1>4, ForgetType, EndKeeps DEF Kill
<1>5. ASSUME NEW w \in Workers, NoMatch(w) PROVE IInv'
  BY <1>1, <1>5, AdmitType, LimiterKeeps DEF NoMatch
<1>6. CASE UNCHANGED vars
  <2>1. LimiterTypeOK'
    BY <1>1, <1>6 DEF vars, limiterVars, LimiterTypeOK
  <2> QED
    BY <1>6, <2>1, LimiterKeeps DEF vars
<1>7. CASE Next
  BY <1>2, <1>3, <1>4, <1>5, <1>7, RegisterKeeps, MatchKeeps, MarkKeeps, AuditKeeps,
     RedeemKeeps DEF Next
<1> QED
  BY <1>6, <1>7

LEMMA Invariance == Spec => []IInv
BY InitIInv, NextIInv, PTL DEF Spec

(* Every variable keeps its shape, for any numbers of users, codes and      *)
(* workers; in particular no worker's counter passes the limit.             *)
THEOREM TypeCorrect == Spec => []TypeOK
<1>1. IInv => TypeOK
  BY DEF IInv
<1> QED
  BY <1>1, Invariance, PTL

(* With workers dying anywhere, and however many requests share a code, a   *)
(* user's logins never outnumber his audit rows.                            *)
THEOREM EveryLoginAudited == Spec => []LoginsAudited
<1>1. IInv => LoginsAudited
  <2> SUFFICES ASSUME IInv, NEW u \in Users
      PROVE  logins[u] <= audit[u]
    BY DEF LoginsAudited
  <2>1. logins[u] \in Nat /\ audit[u] \in Nat
        /\ logins[u] + Cardinality(Answering(u)) <= audit[u]
    BY DEF IInv, AuditsCover, TypeOK
  <2> QED
    BY <2>1, AnsweringFinite
<1> QED
  BY <1>1, Invariance, PTL

-----------------------------------------------------------------------------
(* What is let in during a stretch of one Window: an open window's requests *)
(* are counted by its worker, the first when it opened; what is left of one *)
(* that ran out lacks its first request and is older than the one after it; *)
(* a kill ends one window.                                                  *)
OpenWindows ==
  \A r \in admitted : r.window = "open" =>
    /\ r.kill = 0
    /\ hits[r.by] # None
    /\ r.nth <= hits[r.by].count /\ r.age <= hits[r.by].age
    /\ r.nth = 1 => r.age = hits[r.by].age

PastWindows ==
  \A r \in admitted : (r.window = "over" /\ r.kill = 0) =>
    /\ r.nth # 1 /\ r.age # 0
    /\ hits[r.by] # None => r.age > hits[r.by].age

LostWindows ==
  \A r, q \in admitted :
    /\ r.kill <= kills
    /\ (r.kill = q.kill /\ r.kill # 0) => r.by = q.by

SameWindow(r, q) == r.by = q.by /\ r.window = q.window /\ r.kill = q.kill

(* The records of a window are numbered, so counting them counts requests.  *)
Numbered == \A r, q \in admitted : (SameWindow(r, q) /\ r.nth = q.nth) => r = q

WindowsInv == OpenWindows /\ PastWindows /\ LostWindows /\ Numbered

LEMMA AdmissionFields ==
  ASSUME LimiterTypeOK, NEW r \in admitted
  PROVE  /\ r \in Admission
         /\ r.by \in Workers /\ r.nth \in 1 .. Limit /\ r.age \in 0 .. Window - 1
         /\ r.window \in {"open", "over"} /\ r.kill \in 0 .. MaxKills
         /\ r.nth \in Nat /\ r.age \in Nat /\ r.kill \in Nat
BY LimitAssumption DEF LimiterTypeOK, Admission

LEMMA HitsFields ==
  ASSUME LimiterTypeOK, NEW w \in Workers, hits[w] # None
  PROVE  hits[w].count \in Nat /\ hits[w].age \in Nat /\ hits[w].age <= Window - 1
BY LimitAssumption DEF LimiterTypeOK, Counter

(* Every request that is let in is one more in the record.                  *)
LEMMA AdmitWindows ==
  ASSUME LimiterTypeOK, WindowsInv, NEW w \in Workers, Admit(w)
  PROVE  /\ WindowsInv'
         /\ \E r : r \notin admitted /\ admitted' = admitted \cup {r}
<1> DEFINE new == [by |-> w, nth |-> Nth(w), age |-> 0, window |-> "open", kill |-> 0]
<1>1. /\ new.by = w /\ new.nth = Nth(w) /\ new.age = 0
      /\ new.window = "open" /\ new.kill = 0
  OBVIOUS
<1>2. admitted' = admitted \cup {new} /\ kills' = kills
  BY DEF Admit
<1> HIDE DEF new
<1>3. /\ LimiterTypeOK'
      /\ Nth(w) \in Nat
      /\ hits'[w] # None /\ hits'[w].count = Nth(w)
      /\ hits[w] = None => Nth(w) = 1 /\ hits'[w].age = 0
      /\ hits[w] # None => Nth(w) = hits[w].count + 1 /\ hits'[w].age = hits[w].age
      /\ \A v \in Workers : v # w => hits'[v] = hits[v]
  BY AdmitType, LimitAssumption
<1>4. ASSUME NEW r \in admitted, SameWindow(r, new)
      PROVE  hits[w] # None /\ r.nth <= hits[w].count
  BY <1>1, <1>4 DEF SameWindow, WindowsInv, OpenWindows
<1>5. ASSUME NEW r \in admitted, SameWindow(r, new)
      PROVE  r.nth # new.nth
  <2>1. r.nth \in Nat /\ hits[w].count \in Nat
    BY <1>4, <1>5, AdmissionFields, HitsFields
  <2> QED
    BY <1>1, <1>3, <1>4, <1>5, <2>1
<1>6. OpenWindows'
  <2> SUFFICES ASSUME NEW r \in admitted', r.window = "open"
               PROVE  /\ r.kill = 0
                      /\ hits'[r.by] # None
                      /\ r.nth <= hits'[r.by].count /\ r.age <= hits'[r.by].age
                      /\ r.nth = 1 => r.age = hits'[r.by].age
    BY DEF OpenWindows
  <2>1. CASE r \in admitted
    <3>1. r.by \in Workers /\ r.nth \in Nat /\ r.age \in Nat
      BY <2>1, AdmissionFields
    <3>2. /\ r.kill = 0
          /\ hits[r.by] # None
          /\ r.nth <= hits[r.by].count /\ r.age <= hits[r.by].age
          /\ r.nth = 1 => r.age = hits[r.by].age
      BY <2>1 DEF WindowsInv, OpenWindows
    <3>3. hits[r.by].count \in Nat /\ hits[r.by].age \in Nat
      BY <3>1, <3>2, HitsFields
    <3> QED
      BY <1>3, <3>1, <3>2, <3>3
  <2>2. CASE r = new
    <3>1. hits[w] # None => hits[w].count \in Nat /\ hits[w].age \in Nat /\ hits[w].count # 0
      BY LimitAssumption DEF LimiterTypeOK, Counter
    <3> QED
      BY <1>1, <1>3, <2>2, <3>1
  <2> QED
    BY <1>2, <2>1, <2>2
<1>7. PastWindows'
  <2> SUFFICES ASSUME NEW r \in admitted', r.window = "over", r.kill = 0
               PROVE  /\ r.nth # 1 /\ r.age # 0
                      /\ hits'[r.by] # None => r.age > hits'[r.by].age
    BY DEF PastWindows
  <2>1. r \in admitted
    BY <1>1, <1>2
  <2>2. r.by \in Workers /\ r.age \in Nat
    BY <2>1, AdmissionFields
  <2> QED
    BY <1>3, <2>1, <2>2 DEF WindowsInv, PastWindows
<1>8. LostWindows'
  <2>1. 0 <= kills
    BY LimitAssumption DEF LimiterTypeOK
  <2> QED
    BY <1>1, <1>2, <2>1 DEF WindowsInv, LostWindows
<1>9. Numbered'
  BY <1>2, <1>5 DEF WindowsInv, Numbered, SameWindow
<1>10. new \notin admitted
  BY <1>5 DEF SameWindow
<1> QED
  BY <1>2, <1>6, <1>7, <1>8, <1>9, <1>10 DEF WindowsInv

(* Ageing loses none but the requests that have reached the Window.         *)
LEMMA ElapseWindows ==
  ASSUME LimiterTypeOK, WindowsInv, Elapse
  PROVE  /\ WindowsInv'
         /\ \A r, q \in admitted :
              (r.age < Window - 1 /\ q.age < Window - 1 /\ Older(r) = Older(q)) => r = q
<1>1. /\ \A w \in Workers :
           /\ Ends(w) => hits'[w] = None
           /\ ~Ends(w) => /\ hits[w] # None /\ hits'[w] # None
                          /\ hits'[w].count = hits[w].count
                          /\ hits'[w].age = hits[w].age + 1
      /\ kills' = kills
  BY ElapseType DEF Elapse
<1>2. ASSUME NEW r \in admitted'
      PROVE  \E o \in admitted :
               /\ o.age < Window - 1 /\ r = Older(o)
               /\ r.by = o.by /\ r.nth = o.nth /\ r.kill = o.kill /\ r.age = o.age + 1
               /\ r.window = IF Ends(o.by) THEN "over" ELSE o.window
               /\ o.by \in Workers /\ o.age \in Nat /\ o.nth \in Nat /\ o.kill \in Nat
               /\ o.window \in {"open", "over"}
  BY <1>2, OlderType, AdmissionFields DEF Elapse
<1>3. OpenWindows'
  <2> SUFFICES ASSUME NEW r \in admitted', r.window = "open"
               PROVE  /\ r.kill = 0
                      /\ hits'[r.by] # None
                      /\ r.nth <= hits'[r.by].count /\ r.age <= hits'[r.by].age
                      /\ r.nth = 1 => r.age = hits'[r.by].age
    BY DEF OpenWindows
  <2>1. PICK o \in admitted :
          /\ r.by = o.by /\ r.nth = o.nth /\ r.kill = o.kill /\ r.age = o.age + 1
          /\ o.by \in Workers /\ o.age \in Nat
          /\ ~Ends(o.by) /\ o.window = "open"
    BY <1>2
  <2>2. /\ o.kill = 0
        /\ o.nth <= hits[o.by].count /\ o.age <= hits[o.by].age
        /\ o.nth = 1 => o.age = hits[o.by].age
    BY <2>1 DEF WindowsInv, OpenWindows
  <2>3. /\ hits[o.by] # None /\ hits'[o.by] # None
        /\ hits'[o.by].count = hits[o.by].count
        /\ hits'[o.by].age = hits[o.by].age + 1
    BY <1>1, <2>1
  <2>4. hits[o.by].age \in Nat
    BY <2>1, <2>3, HitsFields
  <2> QED
    BY <2>1, <2>2, <2>3, <2>4
<1>4. PastWindows'
  <2> SUFFICES ASSUME NEW r \in admitted', r.window = "over", r.kill = 0
               PROVE  /\ r.nth # 1 /\ r.age # 0
                      /\ hits'[r.by] # None => r.age > hits'[r.by].age
    BY DEF PastWindows
  <2>1. PICK o \in admitted :
          /\ o.age < Window - 1
          /\ r.by = o.by /\ r.nth = o.nth /\ r.kill = o.kill /\ r.age = o.age + 1
          /\ r.window = IF Ends(o.by) THEN "over" ELSE o.window
          /\ o.by \in Workers /\ o.age \in Nat /\ o.nth \in Nat
          /\ o.window \in {"open", "over"}
    BY <1>2
  <2>2. CASE o.window = "over"
    <3>1. /\ o.nth # 1
          /\ hits[o.by] # None => o.age > hits[o.by].age
      BY <2>1, <2>2 DEF WindowsInv, PastWindows
    <3>2. hits[o.by] # None => hits[o.by].age \in Nat
      BY <2>1, HitsFields
    <3> QED
      BY <1>1, <2>1, <3>1, <3>2
  <2>3. CASE o.window = "open"
    <3>1. Ends(o.by)
      BY <2>1, <2>3
    <3>2. hits[o.by] # None /\ (o.nth = 1 => o.age = hits[o.by].age)
      BY <2>3 DEF WindowsInv, OpenWindows
    <3>3. hits[o.by].age = Window - 1
      BY <3>1, <3>2 DEF Ends
    <3> QED
      BY <1>1, <2>1, <3>1, <3>2, <3>3
  <2> QED
    BY <2>1, <2>2, <2>3
<1>5. ASSUME NEW r \in admitted, NEW q \in admitted,
             r.age < Window - 1, q.age < Window - 1,
             r.by = q.by, r.kill = q.kill, r.nth = q.nth,
             Ends(r.by) \/ r.window = q.window
      PROVE  r = q
  <2>1. /\ r.by \in Workers /\ r.age \in Nat /\ q.age \in Nat
        /\ r.window \in {"open", "over"} /\ q.window \in {"open", "over"}
    BY AdmissionFields
  <2>2. CASE r.window = q.window
    BY <1>5, <2>2 DEF WindowsInv, Numbered, SameWindow
  <2>3. ASSUME NEW x \in {r, q}, NEW y \in {r, q}, x.window = "open", y.window = "over"
        PROVE  FALSE
    <3>1. x.kill = 0 /\ hits[x.by] # None /\ x.by = r.by /\ y.by = r.by /\ y.kill = x.kill
      BY <1>5, <2>3 DEF WindowsInv, OpenWindows
    <3>2. Ends(r.by)
      BY <1>5, <2>3
    <3>3. hits[r.by].age = Window - 1
      BY <3>1, <3>2 DEF Ends
    <3>4. y.age > hits[r.by].age
      BY <2>3, <3>1 DEF WindowsInv, PastWindows
    <3> QED
      BY <1>5, <2>1, <3>3, <3>4, LimitAssumption
  <2> QED
    BY <2>1, <2>2, <2>3
<1>6. LostWindows'
  <2> SUFFICES ASSUME NEW r \in admitted', NEW q \in admitted'
               PROVE  r.kill <= kills /\ ((r.kill = q.kill /\ r.kill # 0) => r.by = q.by)
    BY <1>1 DEF LostWindows
  <2>1. PICK o \in admitted : r.by = o.by /\ r.kill = o.kill
    BY <1>2
  <2>2. PICK p \in admitted : q.by = p.by /\ q.kill = p.kill
    BY <1>2
  <2> QED
    BY <2>1, <2>2 DEF WindowsInv, LostWindows
<1>7. Numbered'
  <2> SUFFICES ASSUME NEW r \in admitted', NEW q \in admitted',
                      SameWindow(r, q), r.nth = q.nth
               PROVE  r = q
    BY DEF Numbered, SameWindow
  <2>1. PICK o \in admitted :
          /\ o.age < Window - 1 /\ r = Older(o)
          /\ r.by = o.by /\ r.nth = o.nth /\ r.kill = o.kill
          /\ r.window = IF Ends(o.by) THEN "over" ELSE o.window
    BY <1>2
  <2>2. PICK p \in admitted :
          /\ p.age < Window - 1 /\ q = Older(p)
          /\ q.by = p.by /\ q.nth = p.nth /\ q.kill = p.kill
          /\ q.window = IF Ends(p.by) THEN "over" ELSE p.window
    BY <1>2
  <2>3. Ends(o.by) \/ o.window = p.window
    BY <2>1, <2>2 DEF SameWindow
  <2>4. o = p
    BY <1>5, <2>1, <2>2, <2>3 DEF SameWindow
  <2> QED
    BY <2>1, <2>2, <2>4
<1>8. ASSUME NEW r \in admitted, NEW q \in admitted,
             r.age < Window - 1, q.age < Window - 1, Older(r) = Older(q)
      PROVE  r = q
  <2>1. /\ Older(r).by = r.by /\ Older(r).nth = r.nth /\ Older(r).kill = r.kill
        /\ Older(r).window = IF Ends(r.by) THEN "over" ELSE r.window
    BY <1>8, OlderType
  <2>2. /\ Older(q).by = q.by /\ Older(q).nth = q.nth /\ Older(q).kill = q.kill
        /\ Older(q).window = IF Ends(q.by) THEN "over" ELSE q.window
    BY <1>8, OlderType
  <2> QED
    BY <1>5, <1>8, <2>1, <2>2
<1> QED
  BY <1>3, <1>4, <1>6, <1>7, <1>8 DEF WindowsInv

(* A kill loses no request from the record either.                          *)
Orphaned(w, r) ==
  IF r.by = w /\ r.window = "open" THEN [r EXCEPT !.window = "over", !.kill = kills + 1]
  ELSE r

LEMMA ForgetWindows ==
  ASSUME LimiterTypeOK, WindowsInv, NEW w \in Workers, Forget(w)
  PROVE  /\ WindowsInv'
         /\ admitted' = {Orphaned(w, r) : r \in admitted}
         /\ \A r, q \in admitted : Orphaned(w, r) = Orphaned(w, q) => r = q
<1>1. /\ kills \in Nat /\ kills' = kills + 1
      /\ hits'[w] = None /\ \A v \in Workers : v # w => hits'[v] = hits[v]
  <2>1. kills \in Nat
    BY LimitAssumption DEF LimiterTypeOK
  <2> QED
    BY <2>1 DEF Forget, LimiterTypeOK
<1>2. admitted' = {Orphaned(w, r) : r \in admitted}
  BY DEF Forget, Orphaned
<1>3. ASSUME NEW o \in admitted
      PROVE  /\ Orphaned(w, o).by = o.by /\ Orphaned(w, o).nth = o.nth
             /\ Orphaned(w, o).age = o.age
             /\ (o.by = w /\ o.window = "open") =>
                  Orphaned(w, o).window = "over" /\ Orphaned(w, o).kill = kills + 1
             /\ ~(o.by = w /\ o.window = "open") => Orphaned(w, o) = o
             /\ o.by \in Workers /\ o.kill \in Nat /\ o.kill <= kills
             /\ o.age \in Nat /\ o.window \in {"open", "over"}
  <2>1. o \in Admission /\ o.by \in Workers /\ o.kill \in Nat /\ o.age \in Nat
        /\ o.window \in {"open", "over"}
    BY AdmissionFields
  <2>2. o.kill <= kills
    BY DEF WindowsInv, LostWindows
  <2> QED
    BY <2>1, <2>2 DEF Orphaned, Admission
<1>4. OpenWindows'
  BY <1>1, <1>2, <1>3 DEF WindowsInv, OpenWindows
<1>5. PastWindows'
  BY <1>1, <1>2, <1>3 DEF WindowsInv, PastWindows
<1>6. LostWindows'
  BY <1>1, <1>2, <1>3 DEF WindowsInv, LostWindows
<1>7. ASSUME NEW r \in admitted, NEW q \in admitted,
             SameWindow(Orphaned(w, r), Orphaned(w, q)), r.nth = q.nth
      PROVE  r = q
  BY <1>1, <1>3, <1>7 DEF SameWindow, WindowsInv, Numbered, OpenWindows
<1>8. Numbered'
  <2> SUFFICES ASSUME NEW r \in admitted', NEW q \in admitted',
                      SameWindow(r, q), r.nth = q.nth
               PROVE  r = q
    BY DEF Numbered, SameWindow
  <2>1. PICK o \in admitted : r = Orphaned(w, o)
    BY <1>2
  <2>2. PICK p \in admitted : q = Orphaned(w, p)
    BY <1>2
  <2> QED
    BY <1>3, <1>7, <2>1, <2>2
<1>9. \A r, q \in admitted : Orphaned(w, r) = Orphaned(w, q) => r = q
  BY <1>3, <1>7 DEF SameWindow
<1> QED
  BY <1>2, <1>4, <1>5, <1>6, <1>8, <1>9 DEF WindowsInv

(* A step of the whole is a step of the limiter, or leaves it alone.        *)
LEMMA LimiterStep ==
  ASSUME [Next]_vars
  PROVE  \/ \E w \in Workers : Admit(w) \/ Forget(w)
         \/ Elapse
         \/ UNCHANGED limiterVars
<1>1. CASE UNCHANGED vars
  BY <1>1 DEF vars
<1>2. CASE Next
  BY <1>2 DEF Next, Time, Register, Match, NoMatch, MarkUsed, AuditVerify, Redeem, Crash, Kill
<1> QED
  BY <1>1, <1>2

LEMMA WindowsInvariance == Spec => [](LimiterTypeOK /\ WindowsInv)
<1>1. Init => WindowsInv
  BY DEF Init, LimiterInit, WindowsInv, OpenWindows, PastWindows, LostWindows, Numbered
<1>2. IInv /\ WindowsInv /\ [Next]_vars => WindowsInv'
  <2> SUFFICES ASSUME IInv, WindowsInv, [Next]_vars PROVE WindowsInv'
    OBVIOUS
  <2>1. LimiterTypeOK
    BY DEF IInv, TypeOK
  <2>2. CASE UNCHANGED limiterVars
    BY <2>2 DEF limiterVars, WindowsInv, OpenWindows, PastWindows, LostWindows, Numbered,
       SameWindow
  <2> QED
    BY <2>1, <2>2, LimiterStep, AdmitWindows, ForgetWindows, ElapseWindows
<1>3. IInv => LimiterTypeOK
  BY DEF IInv, TypeOK
<1> QED
  BY <1>1, <1>2, <1>3, Invariance, PTL DEF Spec

(* The requests of windows no kill has ended: of each worker's open window  *)
(* up to Limit, of the one before it all but the first.                     *)
LEMMA LivingBound ==
  ASSUME LimiterTypeOK, WindowsInv
  PROVE  LET S == {r \in admitted : r.kill = 0}
         IN  /\ IsFiniteSet(S)
             /\ Cardinality(S) <= (2 * Limit - 1) * Cardinality(Workers)
<1> DEFINE S == {r \in admitted : r.kill = 0}
           n == 2 * Limit - 1
           T == Workers \X (1 .. n)
           place(r) == IF r.window = "open" THEN r.nth ELSE Limit + r.nth - 1
           f == [r \in S |-> <<r.by, place(r)>>]
<1>1. Limit \in Nat /\ Limit >= 1 /\ n \in Nat
  BY LimitAssumption
<1>2. ASSUME NEW r \in S
      PROVE  /\ r \in admitted /\ r.by \in Workers /\ r.nth \in 1 .. Limit /\ r.kill = 0
             /\ r.window \in {"open", "over"} /\ (r.window = "over" => r.nth # 1)
  BY AdmissionFields DEF WindowsInv, PastWindows
<1>3. ASSUME NEW r \in S
      PROVE  /\ place(r) \in 1 .. n
             /\ r.window = "open" <=> place(r) <= Limit
  BY <1>1, <1>2
<1>4. f \in [S -> T]
  BY <1>2, <1>3
<1>5. ASSUME NEW r \in S, NEW q \in S, f[r] = f[q]
      PROVE  r = q
  <2>1. r.by = q.by /\ place(r) = place(q)
    BY <1>5
  <2>2. r.window = q.window
    BY <1>2, <1>3, <2>1
  <2>3. r.nth = q.nth
    BY <1>1, <1>2, <2>1, <2>2
  <2> QED
    BY <1>2, <2>1, <2>2, <2>3 DEF WindowsInv, Numbered, SameWindow
<1> HIDE DEF S, f
<1>6. f \in Injection(S, T)
  BY <1>4, <1>5, Fun_IsInj
<1>7. IsFiniteSet(1 .. n) /\ Cardinality(1 .. n) = n
  BY <1>1, FS_Interval
<1>8. IsFiniteSet(T) /\ Cardinality(T) = Cardinality(Workers) * n
  BY <1>7, FS_Product, WorkersAssumption
<1>9. IsFiniteSet(S) /\ Cardinality(S) <= Cardinality(T)
  BY <1>6, <1>8, FS_Injection
<1>10. Cardinality(Workers) * n = n * Cardinality(Workers)
  BY <1>1, FS_CardinalityType, WorkersAssumption
<1> QED
  BY <1>8, <1>9, <1>10 DEF S

(* Those of windows a kill has ended: up to Limit for each kill.            *)
LEMMA LostBound ==
  ASSUME LimiterTypeOK, WindowsInv
  PROVE  LET S == {r \in admitted : r.kill # 0}
         IN  IsFiniteSet(S) /\ Cardinality(S) <= Limit * kills
<1> DEFINE S == {r \in admitted : r.kill # 0}
           T == (1 .. kills) \X (1 .. Limit)
           f == [r \in S |-> <<r.kill, r.nth>>]
<1>1. Limit \in Nat /\ kills \in Nat
  BY LimitAssumption DEF LimiterTypeOK
<1>2. ASSUME NEW r \in S
      PROVE  /\ r \in admitted /\ r.kill \in 1 .. kills /\ r.nth \in 1 .. Limit
             /\ r.window = "over"
  BY <1>1, AdmissionFields DEF WindowsInv, LostWindows, OpenWindows
<1>3. f \in [S -> T]
  BY <1>2
<1>4. ASSUME NEW r \in S, NEW q \in S, f[r] = f[q]
      PROVE  r = q
  <2>1. r.kill = q.kill /\ r.nth = q.nth
    BY <1>4
  <2>2. r.by = q.by
    BY <1>2, <2>1 DEF WindowsInv, LostWindows
  <2> QED
    BY <1>2, <2>1, <2>2 DEF WindowsInv, Numbered, SameWindow
<1> HIDE DEF S, f
<1>5. f \in Injection(S, T)
  BY <1>3, <1>4, Fun_IsInj
<1>6. /\ IsFiniteSet(1 .. kills) /\ Cardinality(1 .. kills) = kills
      /\ IsFiniteSet(1 .. Limit) /\ Cardinality(1 .. Limit) = Limit
  BY <1>1, FS_Interval
<1>7. IsFiniteSet(T) /\ Cardinality(T) = kills * Limit
  <2>1. /\ IsFiniteSet(T)
        /\ Cardinality(T) = Cardinality(1 .. kills) * Cardinality(1 .. Limit)
    BY <1>6, FS_Product, Zenon
  <2> QED
    BY <1>6, <2>1, Zenon
<1>8. IsFiniteSet(S) /\ Cardinality(S) <= Cardinality(T)
  BY <1>5, <1>7, FS_Injection
<1>9. kills * Limit = Limit * kills
  BY <1>1
<1> QED
  BY <1>7, <1>8, <1>9 DEF S

(* For any number of workers, any limit and any window, what one address    *)
(* gets through in a stretch of one window is what the workers' counters    *)
(* add up to, and a window more for every worker that was killed: the limit *)
(* on POST /backup/verify (backup.py:57) holds per worker, as limiter.py:4  *)
(* sets it up.                                                              *)
THEOREM LimitsAddUp == Spec => []LimitPerWorker
<1>1. LimiterTypeOK /\ WindowsInv => LimitPerWorker
  <2> SUFFICES ASSUME LimiterTypeOK, WindowsInv PROVE LimitPerWorker
    OBVIOUS
  <2> DEFINE S == {r \in admitted : r.kill = 0}
             L == {r \in admitted : r.kill # 0}
             s == (2 * Limit - 1) * Cardinality(Workers)
             l == Limit * kills
  <2>1. IsFiniteSet(S) /\ Cardinality(S) <= s
    BY LivingBound
  <2>2. IsFiniteSet(L) /\ Cardinality(L) <= l
    BY LostBound
  <2>3. admitted = S \cup L /\ S \cap L = {}
    OBVIOUS
  <2>4. s \in Int /\ l \in Int
    <3>1. Cardinality(Workers) \in Nat /\ kills \in Nat
      BY FS_CardinalityType, WorkersAssumption, LimitAssumption DEF LimiterTypeOK
    <3> QED
      BY <3>1, LimitAssumption
  <2> HIDE DEF S, L, s, l
  <2>5. Cardinality(admitted) = Cardinality(S) + Cardinality(L)
    <3>1. Cardinality(S) \in Nat /\ Cardinality(L) \in Nat
      BY <2>1, <2>2, FS_CardinalityType
    <3> QED
      BY <2>1, <2>2, <2>3, <3>1, FS_Union, FS_EmptySet
  <2>6. Cardinality(admitted) <= s + l
    BY <2>1, <2>2, <2>4, <2>5, FS_CardinalityType
  <2> QED
    BY <2>6 DEF LimitPerWorker, s, l
<1> QED
  BY <1>1, WindowsInvariance, PTL

-----------------------------------------------------------------------------
(* BackupCodes implements OneTime.                                          *)
HoldersOf(c) == {w \in Workers : work[w] # None /\ work[w].code = c}

statuses == [c \in Codes |-> Status(c)]
holding == [c \in Codes |-> HoldersOf(c)]

LEMMA StatusCases ==
  ASSUME TypeOK, NEW c \in Codes
  PROVE  /\ backup_code[c] = None <=> Status(c) = "absent"
         /\ backup_code[c] = "unused" <=> Status(c) = "live"
         /\ backup_code[c] = "used" <=> Status(c) = "gone"
<1>1. backup_code[c] \in {None, "unused", "used"}
  BY DEF TypeOK
<1> QED
  BY <1>1, NoRow DEF Status

LEMMA SameStatus ==
  ASSUME backup_code' = backup_code
  PROVE  statuses' = statuses
BY DEF statuses, Status

LEMMA SameHolders ==
  ASSUME \A v \in Workers : /\ work'[v] = None <=> work[v] = None
                            /\ work[v] # None => work'[v].code = work[v].code
  PROVE  holding' = holding
<1>1. \A c \in Codes : HoldersOf(c)' = HoldersOf(c)
  BY DEF HoldersOf
<1> QED
  BY <1>1 DEF holding

LEMMA Stutters ==
  ASSUME statuses' = statuses, holding' = holding, uses' = uses
  PROVE  UNCHANGED OT!vars
BY DEF OT!vars, statuses, holding, HoldersOf

LEMMA InitRefines == Init => OT!Init
<1> SUFFICES ASSUME Init PROVE OT!Init
  OBVIOUS
<1>1. \A c \in Codes : Status(c) = "absent"
  BY InitIInv, StatusCases DEF Init, IInv
<1>2. \A c \in Codes : HoldersOf(c) = {}
  BY DEF Init, HoldersOf
<1> QED
  BY <1>1, <1>2 DEF Init, OT!Init, HoldersOf

(* The codes of a registration are issued together.                         *)
LEMMA RegisterRefines ==
  ASSUME IInv, IInv', NEW u \in Users, Register(u)
  PROVE  OT!Next
<1> DEFINE S == {c \in Codes : Owner[c] = u}
<1>1. \A c \in S : Status(c) = "absent"
  BY StatusCases DEF Register, IInv
<1>2. \A c \in Codes : Status(c)' = IF c \in S THEN "live" ELSE Status(c)
  BY NoRow DEF Register, Status
<1>3. uses' = uses /\ holding' = holding
  BY SameHolders DEF Register
<1>4. statuses' = [c \in Codes |-> IF c \in S THEN "live" ELSE statuses[c]]
  BY <1>2 DEF statuses
<1>5. OT!Issue(S)
  BY <1>1, <1>3, <1>4 DEF OT!Issue, statuses, holding, HoldersOf
<1>6. S \in SUBSET Codes
  OBVIOUS
<1> HIDE DEF S
<1> QED
  BY <1>5, <1>6 DEF OT!Next

LEMMA MatchRefines ==
  ASSUME IInv, NEW w \in Workers, NEW u \in Users, NEW c \in Codes, Match(w, u, c)
  PROVE  OT!Next
<1> DEFINE k == [at |-> "mark", user |-> u, code |-> c]
<1>1. k # None /\ k.code = c
  <2>1. k \in Work
    BY DEF Work
  <2> QED
    BY <2>1, NoRow
<1>2. work' = [work EXCEPT ![w] = k] /\ work[w] = None
  BY DEF Match
<1> HIDE DEF k
<1>3. work'[w] = k /\ \A v \in Workers : v # w => work'[v] = work[v]
  BY <1>2 DEF IInv, TypeOK
<1>4. Status(c) = "live"
  BY StatusCases DEF Match, ValidCodes, IInv
<1>5. \A d \in Codes : HoldersOf(d)' = IF d = c THEN HoldersOf(d) \cup {w} ELSE HoldersOf(d)
  BY <1>1, <1>2, <1>3 DEF HoldersOf
<1>6. holding' = [holding EXCEPT ![c] = @ \cup {w}]
  <2>1. holding' = [d \in Codes |-> IF d = c THEN HoldersOf(d) \cup {w} ELSE HoldersOf(d)]
    BY <1>5 DEF holding
  <2>2. [holding EXCEPT ![c] = @ \cup {w}]
          = [d \in Codes |-> IF d = c THEN HoldersOf(d) \cup {w} ELSE HoldersOf(d)]
    BY DEF holding
  <2> QED
    BY <2>1, <2>2
<1>7. statuses' = statuses /\ uses' = uses
  BY SameStatus DEF Match
<1>8. OT!Hold(w, c)
  BY <1>4, <1>6, <1>7 DEF OT!Hold, statuses, holding, HoldersOf
<1> QED
  BY <1>8 DEF OT!Next

(* The first request that marks a code ends it; one that marks it again     *)
(* changes nothing.                                                         *)
LEMMA MarkRefines ==
  ASSUME IInv, IInv', NEW w \in Workers, MarkUsed(w)
  PROVE  [OT!Next]_(OT!vars)
<1>1. TypeOK /\ TypeOK' /\ work[w] # None
  BY DEF IInv, MarkUsed
<1>2. PICK c \in Codes : c = work[w].code
  BY <1>1, WorkFields
<1>3. backup_code[c] = "unused" \/ backup_code[c] = "used"
  BY <1>1, <1>2 DEF IInv, RequestsBacked, TypeOK
<1>4. backup_code' = [backup_code EXCEPT ![c] = "used"]
  BY <1>2 DEF MarkUsed
<1>5. holding' = holding /\ uses' = uses
  BY <1>1, AdvanceWork, SameHolders DEF MarkUsed
<1>6. CASE backup_code[c] = "used"
  <2>1. backup_code' = backup_code
    BY <1>1, <1>4, <1>6 DEF TypeOK
  <2> QED
    BY <1>5, <2>1, SameStatus, Stutters
<1>7. CASE backup_code[c] = "unused"
  <2>1. Status(c) = "live"
    BY <1>1, <1>7, StatusCases
  <2>2. Status(c)' = "gone"
    BY <1>1, <1>4, NoRow DEF Status, TypeOK
  <2>3. \A d \in Codes : d # c => Status(d)' = Status(d)
    BY <1>1, <1>4 DEF Status, TypeOK
  <2>4. OT!End({c})
    BY <1>5, <2>1, <2>2, <2>3 DEF OT!End, holding, HoldersOf
  <2> QED
    BY <2>4 DEF OT!Next
<1> QED
  BY <1>3, <1>6, <1>7

LEMMA FinishReleases ==
  ASSUME TypeOK, NEW w \in Workers, work[w] # None, work' = [work EXCEPT ![w] = None]
  PROVE  holding' = [holding EXCEPT ![work[w].code] = @ \ {w}]
<1> DEFINE c == work[w].code
<1>1. work'[w] = None /\ \A v \in Workers : v # w => work'[v] = work[v]
  BY DEF TypeOK
<1>2. \A d \in Codes : HoldersOf(d)' = IF d = c THEN HoldersOf(d) \ {w} ELSE HoldersOf(d)
  BY <1>1 DEF HoldersOf
<1>3. holding' = [d \in Codes |-> IF d = c THEN HoldersOf(d) \ {w} ELSE HoldersOf(d)]
  BY <1>2 DEF holding
<1>4. [holding EXCEPT ![c] = @ \ {w}]
        = [d \in Codes |-> IF d = c THEN HoldersOf(d) \ {w} ELSE HoldersOf(d)]
  BY DEF holding
<1> QED
  BY <1>3, <1>4

LEMMA FinishRefines ==
  ASSUME IInv, NEW w \in Workers, work' = [work EXCEPT ![w] = None],
         backup_code' = backup_code, uses' = uses
  PROVE  [OT!Next]_(OT!vars)
<1>1. TypeOK /\ statuses' = statuses
  BY SameStatus DEF IInv
<1>2. CASE work[w] = None
  <2>1. work' = work
    BY <1>1, <1>2 DEF TypeOK
  <2> QED
    BY <1>1, <2>1, SameHolders, Stutters
<1>3. CASE work[w] # None
  <2>1. PICK c \in Codes : c = work[w].code
    BY <1>1, <1>3, WorkFields
  <2>2. OT!Release(w, c)
    BY <1>1, <1>3, <2>1, FinishReleases DEF OT!Release, statuses, holding, HoldersOf
  <2> QED
    BY <2>1, <2>2 DEF OT!Next
<1> QED
  BY <1>2, <1>3

LEMMA RedeemRefines ==
  ASSUME IInv, NEW w \in Workers, Redeem(w)
  PROVE  OT!Next
<1>1. TypeOK /\ work[w] # None /\ work[w].at = "answer"
  BY DEF IInv, Redeem
<1>2. PICK c \in Codes : c = work[w].code
  BY <1>1, WorkFields
<1>3. statuses' = statuses /\ uses' = [uses EXCEPT ![c] = @ + 1]
  BY <1>2, SameStatus DEF Redeem
<1>4. Status(c) = "gone"
  BY <1>1, <1>2, StatusCases DEF IInv, RequestsBacked
<1>5. w \in HoldersOf(c)
  BY <1>1, <1>2 DEF HoldersOf
<1>6. holding' = [holding EXCEPT ![c] = @ \ {w}]
  BY <1>1, <1>2, FinishReleases DEF Redeem
<1>7. OT!Redeem(w, c)
  BY <1>2, <1>3, <1>4, <1>5, <1>6 DEF OT!Redeem, statuses, holding, HoldersOf
<1> QED
  BY <1>2, <1>7 DEF OT!Next

LEMMA NextRefines == IInv /\ [Next]_vars => [OT!Next]_(OT!vars)
<1> SUFFICES ASSUME IInv, [Next]_vars PROVE [OT!Next]_(OT!vars)
  OBVIOUS
<1>1. IInv'
  BY NextIInv
<1>2. ASSUME backup_code' = backup_code, work' = work, uses' = uses
      PROVE  UNCHANGED OT!vars
  BY <1>2, SameStatus, SameHolders, Stutters
<1>3. ASSUME NEW w \in Workers, AuditVerify(w)
      PROVE  UNCHANGED OT!vars
  <2>1. holding' = holding /\ backup_code' = backup_code /\ uses' = uses
    BY <1>3, AdvanceWork, SameHolders DEF AuditVerify, IInv
  <2> QED
    BY <2>1, SameStatus, Stutters
<1>4. ASSUME NEW w \in Workers, Crash(w) \/ Kill(w)
      PROVE  [OT!Next]_(OT!vars)
  BY <1>4, FinishRefines DEF Crash, Kill
<1>5. ASSUME NEW w \in Workers, NoMatch(w)
      PROVE  UNCHANGED OT!vars
  BY <1>2, <1>5 DEF NoMatch
<1>6. CASE Time \/ UNCHANGED vars
  BY <1>2, <1>6 DEF Time, vars
<1> QED
  BY <1>1, <1>3, <1>4, <1>5, <1>6, RegisterRefines, MatchRefines, MarkRefines,
     RedeemRefines DEF Next

(* A backup code is a one-time token: a request that selects after the row  *)
(* is marked finds nothing (backup.py:66).                                  *)
THEOREM CodesAreOneTime == Spec => OneTimeCodes
BY Invariance, InitRefines, NextRefines, PTL DEF Spec, OneTimeCodes, OT!Spec

-----------------------------------------------------------------------------
(* What OneTime_proofs shows of the abstract token, instantiated as the    *)
(* mapping instantiates OneTime.                                           *)
OTP == INSTANCE OneTime_proofs WITH Tokens <- Codes,
        status <- [c \in Codes |-> Status(c)],
        holders <- [c \in Codes |-> {w \in Workers : work[w] # None /\ work[w].code = c}],
        uses <- uses

LEMMA SameAbstraction == OT!Spec => OTP!Spec
<1>1. OT!Init => OTP!Init
  BY DEF OT!Init, OTP!Init
<1>2. [OT!Next]_(OT!vars) => [OTP!Next]_(OTP!vars)
  BY DEF OT!vars, OT!Next, OT!Issue, OT!Hold, OT!End, OT!Redeem, OT!Release,
         OTP!vars, OTP!Next, OTP!Issue, OTP!Hold, OTP!End, OTP!Redeem, OTP!Release
<1> QED
  BY <1>1, <1>2, PTL DEF OT!Spec, OTP!Spec

LEMMA SameCardinality ==
  /\ OTP!IsFiniteSet(Workers)
  /\ OTP!Cardinality(Workers) = Cardinality(Workers)
<1>1. OTP!IsFiniteSet(Workers)
  BY WorkersAssumption DEF IsFiniteSet, OTP!IsFiniteSet
<1>2. OTP!Cardinality(Workers) = Cardinality(Workers)
  BY DEF Cardinality, OTP!Cardinality
<1> QED
  BY <1>1, <1>2

(* A backup code lets no more requests through than there are gunicorn      *)
(* workers, and with one worker, one (backup.py:63-89).                     *)
UsesBounded == \A c \in Codes : uses[c] <= Cardinality(Workers)

THEOREM CodeUsesBounded == Spec => []UsesBounded
<1>1. OTP!Spec => []OTP!UsesBounded
  BY SameCardinality, OTP!BoundedUse
<1>2. OTP!UsesBounded => UsesBounded
  BY SameCardinality DEF OTP!UsesBounded, UsesBounded
<1> QED
  BY <1>1, <1>2, CodesAreOneTime, SameAbstraction, PTL DEF OneTimeCodes
=============================================================================
