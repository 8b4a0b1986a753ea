---------------------------- MODULE Totp_proofs ----------------------------
(***************************************************************************)
(* What the replay check of totp_helpers.verify_code guarantees, for any   *)
(* number of workers, window and length of time.  It compares two readings *)
(* of the clock with a last_used_at loaded before either, and leaves a     *)
(* third in the row at some later time.  So each request in progress is    *)
(* related to the logins of its worker (Waited), and the row to the logins *)
(* that it has not been set back behind (Remembered).                      *)
(***************************************************************************)
EXTENDS Totp, FiniteSetTheorems, FunctionTheorems, TLAPS

(* The logins that last_used_at was never set back behind.                  *)
Kept == accepted \ forgotten

(* Secrets are never generated twice, and no time lies in the future.       *)
Past ==
  /\ row # None => /\ row.secret <= generated
                   /\ row.last_used_at # NeverUsed => row.last_used_at <= now
  /\ \A a \in accepted : a.code.secret <= generated /\ a.time <= now
  /\ IsFiniteSet(accepted)

(* A row is never deleted, and what was loaded of it is as old as it.       *)
Loaded(k) ==
  /\ k.page \in Forms => k.loaded # None
  /\ k.loaded # None =>
       /\ row # None /\ k.loaded.secret <= generated
       /\ k.loaded.last_used_at # NeverUsed => k.loaded.last_used_at <= now

(* A code that matched is one of the loaded secret's, shown by now.         *)
Fits(k) ==
  (k.page \in Forms /\ k.at # "loaded") =>
    /\ k.code # None /\ k.code.secret = k.loaded.secret
    /\ k.code.step <= Step(now) + 1

(* The stamp is later than all the request has seen.                        *)
Dated(k) ==
  (k.page \in Forms /\ k.at = "stamped") =>
    /\ k.stamp # None /\ k.stamp <= now
    /\ k.code.step <= Step(k.stamp) + 1
    /\ k.loaded.last_used_at # NeverUsed => k.loaded.last_used_at <= k.stamp

(* A worker loads the row after its own last login.  Its code was correct   *)
(* after that login; the replay check passed, and the row was stamped, 30   *)
(* seconds after it.                                                        *)
Waited(w, k) ==
  k.page = "verify" =>
    \A a \in Kept : (a.worker = w /\ a.code.secret = k.loaded.secret) =>
      /\ k.loaded.last_used_at # NeverUsed /\ a.time <= k.loaded.last_used_at
      /\ (k.at # "loaded" /\ a.code = k.code) => Step(a.time) <= k.code.step + 1
      /\ k.at = "fresh" => a.time + Window <= now
      /\ k.at = "stamped" => a.time + Window <= k.stamp

Request(w, k) == Loaded(k) /\ Fits(k) /\ Dated(k) /\ Waited(w, k)

Requests == \A w \in Workers : work[w] # None => Request(w, work[w])

(* last_used_at is no earlier than any login it was not set back behind.    *)
Remembered ==
  row # None => \A a \in Kept : a.code.secret = row.secret =>
    row.last_used_at # NeverUsed /\ a.time <= row.last_used_at

(* A login comes at the earliest in the time step before its code's, and    *)
(* only the last one a worker grants for a code comes after the step that   *)
(* follows its code's.                                                      *)
InTime ==
  /\ \A a \in accepted : a.code.step <= Step(a.time) + 1
  /\ \A a, b \in Kept :
       (a.worker = b.worker /\ a.code.secret = b.code.secret /\ a # b) =>
          a.time + Window <= b.time \/ b.time + Window <= a.time
  /\ \A a, b \in Kept :
       (a.worker = b.worker /\ a.code = b.code /\ a.time < b.time) =>
          Step(a.time) <= a.code.step + 1

IInv == TypeOK /\ Past /\ Requests /\ Remembered /\ InTime

-----------------------------------------------------------------------------
(* The 30-second step a time falls in.                                      *)

LEMMA StepType ==
  ASSUME NEW t \in Nat
  PROVE  Step(t) \in Nat
BY WindowAssumption DEF Step

LEMMA StepMonotone ==
  ASSUME NEW t \in Nat, NEW u \in Nat, t <= u
  PROVE  Step(t) <= Step(u)
BY WindowAssumption DEF Step

LEMMA NextStep ==
  ASSUME NEW t \in Nat
  PROVE  Step(t + Window) = Step(t) + 1
BY WindowAssumption DEF Step

LEMMA StepApart ==
  ASSUME NEW t \in Nat, NEW u \in Nat, t + Window <= u
  PROVE  Step(t) + 1 <= Step(u)
<1>1. t + Window \in Nat
  BY WindowAssumption
<1> QED
  BY <1>1, NextStep, StepMonotone

-----------------------------------------------------------------------------
LEMMA RowFields ==
  ASSUME NEW r \in Row
  PROVE  /\ r # None
         /\ r.secret \in Nat /\ r.verified \in BOOLEAN
         /\ r.last_used_at \in Nat \cup {NeverUsed}
         /\ DOMAIN r = {"secret", "verified", "last_used_at"}
BY NoRowAssumption DEF Row

LEMMA CodeFields ==
  ASSUME NEW c \in Code
  PROVE  c # None /\ c.secret \in Nat /\ c.step \in Nat
BY NoRowAssumption DEF Code

LEMMA WorkFields ==
  ASSUME NEW k \in Work
  PROVE  /\ k # None
         /\ k.page \in {"setup_get", "setup_verify", "verify"}
         /\ k.at \in {"loaded", "correct", "fresh", "stamped"}
         /\ k.loaded \in Row \cup {None}
         /\ k.code \in Code \cup {None}
         /\ k.stamp \in Nat \cup {None}
BY NoRowAssumption DEF Work

LEMMA LoginFields ==
  ASSUME TypeOK, NEW a \in accepted
  PROVE  a \in Login /\ a.code \in Code /\ a.time \in Nat /\ a.worker \in Workers
BY DEF TypeOK, Login

(* A commit writes the columns that differ from what was loaded.            *)
LEMMA UpdatedRow ==
  ASSUME row \in Row, NEW old \in Row, NEW new \in Row
  PROVE  /\ Updated(old, new) \in Row
         /\ Updated(old, new).secret = IF new.secret = old.secret THEN row.secret ELSE new.secret
         /\ Updated(old, new).verified
              = IF new.verified = old.verified THEN row.verified ELSE new.verified
         /\ Updated(old, new).last_used_at
              = IF new.last_used_at = old.last_used_at THEN row.last_used_at
                ELSE new.last_used_at
<1> DEFINE u == [secret |-> IF new.secret = old.secret THEN row.secret ELSE new.secret,
                 verified |-> IF new.verified = old.verified THEN row.verified
                              ELSE new.verified,
                 last_used_at |-> IF new.last_used_at = old.last_used_at
                                  THEN row.last_used_at ELSE new.last_used_at]
<1>1. DOMAIN row = {"secret", "verified", "last_used_at"}
  BY RowFields
<1>2. Updated(old, new) = u
  BY <1>1 DEF Updated
<1>3. u \in Row
  BY DEF Row
<1> QED
  BY <1>2, <1>3

LEMMA StampedRow ==
  ASSUME NEW r \in Row, NEW t \in Nat
  PROVE  /\ Stamped(r, t) \in Row
         /\ Stamped(r, t).secret = r.secret
         /\ Stamped(r, t).verified = r.verified
         /\ Stamped(r, t).last_used_at = t
BY DEF Stamped, Row

LEMMA FreshRowFields ==
  ASSUME generated \in Nat
  PROVE  /\ FreshRow \in Row
         /\ FreshRow.secret = generated + 1 /\ FreshRow.verified = FALSE
         /\ FreshRow.last_used_at = NeverUsed
BY DEF FreshRow, Row

(* What the set-up form changes in the row it commits to.                   *)
LEMMA SetUpRow ==
  ASSUME row \in Row, NEW old \in Row, NEW t \in Nat,
         NEW r, r = Stamped(Updated(old, [old EXCEPT !.verified = TRUE]), t)
  PROVE  r \in Row /\ r.secret = row.secret /\ r.last_used_at = t
<1> DEFINE new == [old EXCEPT !.verified = TRUE]
<1>1. new \in Row /\ new.secret = old.secret
  BY DEF Row
<1> HIDE DEF new
<1>2. Updated(old, new) \in Row /\ Updated(old, new).secret = row.secret
  BY <1>1, UpdatedRow
<1>3. r = Stamped(Updated(old, new), t)
  BY DEF new
<1> QED
  BY <1>2, <1>3, StampedRow

LEMMA TypedCode ==
  ASSUME TypeOK, NEW code \in Typed
  PROVE  code \in Code
<1>1. code.secret \in 1 .. generated /\ code.step \in Steps
      /\ code = [secret |-> code.secret, step |-> code.step]
  BY DEF Typed
<1>2. code.secret \in Nat /\ code.step \in Nat
  BY <1>1, StepsAssumption DEF TypeOK
<1> QED
  BY <1>1, <1>2 DEF Code

-----------------------------------------------------------------------------
(* What holds of a request holds on as time passes, secrets are generated   *)
(* and logins are forgotten.                                                *)
LEMMA RequestKept ==
  ASSUME IInv, NEW w \in Workers, NEW k \in Work, Request(w, k),
         now' \in Nat, generated' \in Nat, now <= now', generated <= generated',
         row # None => row' # None,
         \A a \in Kept' : a.worker = w => a \in Kept
  PROVE  Request(w, k)'
<1>1. now \in Nat /\ generated \in Nat /\ Window \in Nat \ {0}
  BY WindowAssumption DEF IInv, TypeOK
<1>2. Step(now) \in Nat /\ Step(now') \in Nat /\ Step(now) <= Step(now')
  BY <1>1, StepType, StepMonotone
<1>3. k.loaded # None => /\ k.loaded.secret \in Nat
                         /\ k.loaded.last_used_at \in Nat \cup {NeverUsed}
  BY WorkFields, RowFields
<1>4. k.code # None => k.code.step \in Nat
  BY WorkFields, CodeFields
<1>5. k.stamp # None => k.stamp \in Nat
  BY WorkFields
<1>6. Loaded(k)'
  BY <1>1, <1>3 DEF Request, Loaded
<1>7. Fits(k)'
  <2>1. (k.page \in Forms /\ k.at # "loaded") => k.code.step <= Step(now') + 1
    BY <1>2, <1>4 DEF Request, Fits
  <2> QED
    BY <2>1 DEF Request, Fits, Step
<1>8. Dated(k)'
  <2>1. (k.page \in Forms /\ k.at = "stamped") => k.stamp <= now'
    BY <1>1, <1>5 DEF Request, Dated
  <2> QED
    BY <2>1 DEF Request, Dated, Step
<1>9. Waited(w, k)'
  <2> SUFFICES ASSUME k.page = "verify", NEW a \in Kept',
                      a.worker = w, a.code.secret = k.loaded.secret
               PROVE  /\ k.loaded.last_used_at # NeverUsed
                      /\ a.time <= k.loaded.last_used_at
                      /\ (k.at # "loaded" /\ a.code = k.code) =>
                           Step(a.time) <= k.code.step + 1
                      /\ k.at = "fresh" => a.time + Window <= now'
                      /\ k.at = "stamped" => a.time + Window <= k.stamp
    BY DEF Waited, Step
  <2>1. a \in Kept /\ a.time \in Nat
    BY LoginFields DEF IInv, Kept
  <2>2. /\ k.loaded.last_used_at # NeverUsed /\ a.time <= k.loaded.last_used_at
        /\ (k.at # "loaded" /\ a.code = k.code) => Step(a.time) <= k.code.step + 1
        /\ k.at = "fresh" => a.time + Window <= now
        /\ k.at = "stamped" => a.time + Window <= k.stamp
    BY <2>1 DEF Request, Waited
  <2> QED
    BY <1>1, <2>1, <2>2
<1> QED
  BY <1>6, <1>7, <1>8, <1>9 DEF Request

(* A worker takes its request a step further, or ends it without effect:    *)
(* for the others nothing has changed.                                      *)
LEMMA WorkStep ==
  ASSUME IInv, NEW w \in Workers, NEW k \in Work \cup {None},
         work' = [work EXCEPT ![w] = k],
         UNCHANGED <<row, batches, now, generated, confirmed, accepted, forgotten>>,
         k # None => Request(w, k)
  PROVE  IInv'
<1>1. /\ work \in [Workers -> Work \cup {None}]
      /\ work'[w] = k
      /\ \A v \in Workers \ {w} : work'[v] = work[v]
  BY DEF IInv, TypeOK
<1>2. TypeOK'
  BY <1>1 DEF IInv, TypeOK
<1>3. Past' /\ Remembered' /\ InTime'
  BY DEF IInv, Past, Remembered, InTime, Kept, Step
<1>4. Requests'
  <2> SUFFICES ASSUME NEW v \in Workers, work'[v] # None
               PROVE  Request(v, work[v])'
    BY DEF Requests
  <2>1. CASE v = w
    BY <1>1, <2>1 DEF Request, Loaded, Fits, Dated, Waited, Kept, Step
  <2>2. CASE v # w
    <3>1. work'[v] = work[v] /\ Request(v, work[v])
      BY <1>1, <2>2 DEF IInv, Requests
    <3> QED
      BY <3>1 DEF Request, Loaded, Fits, Dated, Waited, Kept, Step
  <2> QED
    BY <2>1, <2>2
<1> QED
  BY <1>2, <1>3, <1>4 DEF IInv

LEMMA LoadedWork ==
  ASSUME IInv, NEW w \in Workers, NEW page \in {"setup_get", "setup_verify", "verify"},
         Load(w, page), page \in Forms => row # None
  PROVE  IInv'
<1> DEFINE k == [page |-> page, at |-> "loaded", loaded |-> row,
                 code |-> None, stamp |-> None]
<1>1. k \in Work /\ k.page = page /\ k.at = "loaded" /\ k.loaded = row
  BY DEF IInv, TypeOK, Work
<1>2. /\ work' = [work EXCEPT ![w] = k]
      /\ UNCHANGED <<row, batches, now, generated, confirmed, accepted, forgotten>>
  BY DEF Load
<1> HIDE DEF k
<1>3. Loaded(k)
  BY <1>1 DEF IInv, Past, Loaded
<1>4. Fits(k) /\ Dated(k)
  BY <1>1 DEF Fits, Dated
<1>5. Waited(w, k)
  BY <1>1 DEF IInv, Remembered, Waited, Forms
<1> QED
  BY <1>1, <1>2, <1>3, <1>4, <1>5, WorkStep DEF Request

(* What is known of a request to one of the two forms.                      *)
LEMMA FormWork ==
  ASSUME IInv, NEW w \in Workers, work[w] # None, work[w].page \in Forms
  PROVE  /\ work[w] \in Work /\ Request(w, work[w])
         /\ work[w].loaded \in Row /\ row \in Row
BY RowFields, WorkFields DEF IInv, TypeOK, Requests, Request, Loaded

LEMMA NextCodeMatches ==
  ASSUME IInv, NEW w \in Workers, NEW code \in Typed, CodeMatches(w, code)
  PROVE  IInv'
<1> DEFINE o == work[w]
           k == [o EXCEPT !.at = "correct", !.code = code]
<1>1. /\ o # None /\ o.page \in Forms /\ o.at = "loaded"
      /\ Correct(o.loaded.secret, code, now)
  BY DEF CodeMatches, At
<1>2. o \in Work /\ Request(w, o) /\ o.loaded \in Row
  BY <1>1, FormWork
<1>3. code \in Code /\ code # None /\ code.step \in Nat
  BY TypedCode, CodeFields DEF IInv
<1>4. /\ k \in Work /\ k.page = o.page /\ k.at = "correct" /\ k.loaded = o.loaded
      /\ k.code = code
  BY <1>2, <1>3 DEF Work
<1>5. /\ work' = [work EXCEPT ![w] = k]
      /\ UNCHANGED <<row, batches, now, generated, confirmed, accepted, forgotten>>
  BY <1>2 DEF CodeMatches, IInv, TypeOK
<1> HIDE DEF k
<1>6. Loaded(k) /\ Dated(k)
  BY <1>2, <1>4 DEF Request, Loaded, Dated
<1>7. Fits(k)
  BY <1>1, <1>3, <1>4 DEF Fits, Correct
<1>8. Waited(w, k)
  <2> SUFFICES ASSUME k.page = "verify", NEW a \in Kept,
                      a.worker = w, a.code.secret = k.loaded.secret
               PROVE  /\ k.loaded.last_used_at # NeverUsed
                      /\ a.time <= k.loaded.last_used_at
                      /\ a.code = k.code => Step(a.time) <= k.code.step + 1
    BY <1>4 DEF Waited
  <2>1. k.loaded.last_used_at # NeverUsed /\ a.time <= k.loaded.last_used_at
    BY <1>2, <1>4 DEF Request, Waited
  <2>2. a.time \in Nat /\ now \in Nat /\ a.time <= now
    BY LoginFields DEF IInv, TypeOK, Past, Kept
  <2>3. Step(a.time) <= Step(now) /\ Step(a.time) \in Nat /\ Step(now) \in Nat
    BY <2>2, StepMonotone, StepType
  <2> QED
    BY <1>1, <1>3, <1>4, <2>1, <2>3 DEF Correct
<1> QED
  BY <1>4, <1>5, <1>6, <1>7, <1>8, WorkStep DEF Request

(* The loaded last_used_at is 30 seconds ago, and the logins before it.     *)
LEMMA NextNotReplayed ==
  ASSUME IInv, NEW w \in Workers, NotReplayed(w)
  PROVE  IInv'
<1> DEFINE o == work[w]
           k == [o EXCEPT !.at = "fresh"]
<1>1. /\ o # None /\ o.page \in Forms /\ o.at = "correct"
      /\ ~TooSoon(LastUsed(w), now)
  BY DEF NotReplayed, At
<1>2. o \in Work /\ Request(w, o) /\ o.loaded \in Row
  BY <1>1, FormWork
<1>3. /\ k \in Work /\ k.page = o.page /\ k.at = "fresh" /\ k.loaded = o.loaded
      /\ k.code = o.code
  BY <1>2 DEF Work
<1>4. /\ work' = [work EXCEPT ![w] = k]
      /\ UNCHANGED <<row, batches, now, generated, confirmed, accepted, forgotten>>
  BY <1>2 DEF NotReplayed, IInv, TypeOK
<1> HIDE DEF k
<1>5. Loaded(k) /\ Dated(k)
  BY <1>2, <1>3 DEF Request, Loaded, Dated
<1>6. Fits(k)
  BY <1>1, <1>2, <1>3 DEF Request, Fits
<1>7. Waited(w, k)
  <2> SUFFICES ASSUME k.page = "verify", NEW a \in Kept,
                      a.worker = w, a.code.secret = k.loaded.secret
               PROVE  /\ k.loaded.last_used_at # NeverUsed
                      /\ a.time <= k.loaded.last_used_at
                      /\ a.code = k.code => Step(a.time) <= k.code.step + 1
                      /\ a.time + Window <= now
    BY <1>3 DEF Waited
  <2>1. /\ k.loaded.last_used_at # NeverUsed /\ a.time <= k.loaded.last_used_at
        /\ a.code = k.code => Step(a.time) <= k.code.step + 1
    BY <1>1, <1>2, <1>3 DEF Request, Waited
  <2>2. a.time \in Nat /\ now \in Nat /\ Window \in Nat
    BY LoginFields, WindowAssumption DEF IInv, TypeOK, Kept
  <2>3. k.loaded.last_used_at \in Nat
    BY <1>2, <1>3, <2>1, RowFields
  <2>4. ~(now - k.loaded.last_used_at < Window)
    BY <1>1, <1>3, <2>1 DEF LastUsed, TooSoon
  <2> QED
    BY <2>1, <2>2, <2>3, <2>4
<1> QED
  BY <1>3, <1>4, <1>5, <1>6, <1>7, WorkStep DEF Request

LEMMA NextStamps ==
  ASSUME IInv, NEW w \in Workers, Stamps(w)
  PROVE  IInv'
<1> DEFINE o == work[w]
           k == [o EXCEPT !.at = "stamped", !.stamp = now]
<1>1. o # None /\ o.page \in Forms /\ o.at = "fresh" /\ now \in Nat
  BY DEF Stamps, At, IInv, TypeOK
<1>2. o \in Work /\ Request(w, o) /\ o.loaded \in Row
  BY <1>1, FormWork
<1>3. /\ k \in Work /\ k.page = o.page /\ k.at = "stamped" /\ k.loaded = o.loaded
      /\ k.code = o.code /\ k.stamp = now
  BY <1>1, <1>2 DEF Work
<1>4. /\ work' = [work EXCEPT ![w] = k]
      /\ UNCHANGED <<row, batches, now, generated, confirmed, accepted, forgotten>>
  BY <1>2 DEF Stamps, IInv, TypeOK
<1> HIDE DEF k
<1>5. Loaded(k)
  BY <1>2, <1>3 DEF Request, Loaded
<1>6. Fits(k)
  BY <1>1, <1>2, <1>3 DEF Request, Fits
<1>7. Dated(k)
  <2>1. now # None
    BY <1>1, NoneAssumption
  <2>2. k.code.step <= Step(now) + 1
    BY <1>1, <1>3, <1>6 DEF Fits
  <2>3. k.loaded.last_used_at # NeverUsed => k.loaded.last_used_at <= now
    BY <1>1, <1>2, <1>3 DEF Request, Loaded
  <2> QED
    BY <1>1, <1>3, <2>1, <2>2, <2>3 DEF Dated
<1>8. Waited(w, k)
  BY <1>1, <1>2, <1>3 DEF Request, Waited
<1> QED
  BY <1>3, <1>4, <1>5, <1>6, <1>7, <1>8, WorkStep DEF Request

LEMMA NextEnds ==
  ASSUME IInv, NEW w \in Workers, Refused(w) \/ Crash(w)
  PROVE  IInv'
BY WorkStep DEF Refused, Crash

(* Time passes: what was long enough ago still is.                          *)
LEMMA NextTick == IInv /\ Tick => IInv'
<1> SUFFICES ASSUME IInv, Tick PROVE IInv'
  OBVIOUS
<1>1. now \in Nat /\ now' = now + 1 /\ generated \in Nat
      /\ UNCHANGED <<row, batches, work, generated, confirmed, accepted, forgotten>>
  BY DEF Tick, IInv, TypeOK
<1>2. TypeOK' /\ Remembered' /\ InTime'
  BY <1>1 DEF IInv, TypeOK, Remembered, InTime, Kept, Step
<1>3. Past'
  <2>1. row # None => row.last_used_at \in Nat \cup {NeverUsed}
    BY RowFields DEF IInv, TypeOK
  <2> QED
    BY <1>1, <2>1, LoginFields DEF IInv, Past
<1>4. Requests'
  <2> SUFFICES ASSUME NEW v \in Workers, work[v] # None
               PROVE  Request(v, work[v])'
    BY <1>1 DEF Requests
  <2>1. work[v] \in Work /\ Request(v, work[v])
    BY DEF IInv, TypeOK, Requests
  <2>2. now <= now' /\ now' \in Nat /\ generated' \in Nat /\ generated <= generated'
    BY <1>1
  <2>3. Kept' = Kept /\ row' = row
    BY <1>1 DEF Kept
  <2> DEFINE k == work[v]
  <2>4. k' = k
    BY <1>1
  <2> HIDE DEF k
  <2>5. k \in Work /\ Request(v, k)
    BY <2>1 DEF k
  <2>6. \A kk \in Work : Request(v, kk) => Request(v, kk)'
    BY <2>2, <2>3, RequestKept
  <2> QED
    BY <1>1, <2>1, <2>6
<1> QED
  BY <1>2, <1>3, <1>4 DEF IInv

-----------------------------------------------------------------------------
(* A worker commits: the requests of the others stand as they did.          *)
LEMMA OthersKept ==
  ASSUME IInv, NEW w \in Workers, work' = [work EXCEPT ![w] = None],
         row' # None, now' = now, generated' \in Nat, generated <= generated',
         \A a \in Kept' : a \in Kept \/ a.worker = w
  PROVE  Requests'
<1> SUFFICES ASSUME NEW v \in Workers, work'[v] # None
             PROVE  Request(v, work[v])'
  BY DEF Requests
<1>1. v # w /\ work'[v] = work[v] /\ work[v] \in Work /\ Request(v, work[v])
  BY DEF IInv, TypeOK, Requests
<1>2. now' \in Nat /\ now <= now'
  BY DEF IInv, TypeOK
<1>3. \A a \in Kept' : a.worker = v => a \in Kept
  BY <1>1
<1>4. \A k \in Work : Request(v, k) => Request(v, k)'
  BY <1>2, <1>3, RequestKept
<1> QED
  BY <1>1, <1>4

(* The page with a new secret: no login is one with that.                   *)
LEMMA NextSetupGetCommits ==
  ASSUME IInv, NEW w \in Workers, SetupGetCommits(w)
  PROVE  IInv'
<1> DEFINE old == work[w].loaded
<1>1. /\ work[w] # None
      /\ work' = [work EXCEPT ![w] = None]
      /\ work \in [Workers -> Work \cup {None}]
      /\ now \in Nat /\ generated \in Nat /\ generated' = generated + 1
      /\ UNCHANGED <<batches, now, confirmed, accepted, forgotten>>
  BY DEF SetupGetCommits, At, IInv, TypeOK
<1>2. /\ old \in Row \cup {None}
      /\ old # None => row # None /\ old.secret <= generated
  BY <1>1, WorkFields DEF IInv, Requests, Request, Loaded
<1>3. row \in Row \cup {None}
  BY DEF IInv, TypeOK
<1>4. \/ row # None /\ row' = row
      \/ /\ row' \in Row /\ row'.secret = generated + 1
         /\ row'.last_used_at = NeverUsed \/ (row # None /\ row'.last_used_at = row.last_used_at)
  <2>1. CASE old = None
    BY <1>1, <1>3, <2>1, FreshRowFields DEF SetupGetCommits
  <2>2. CASE old # None
    <3>1. /\ row \in Row /\ row # None /\ old \in Row
          /\ FreshRow \in Row /\ FreshRow.secret = generated + 1
          /\ FreshRow.last_used_at = NeverUsed
      BY <1>1, <1>2, <1>3, <2>2, FreshRowFields
    <3>2. old.secret \in Nat /\ old.secret # generated + 1
      BY <1>1, <1>2, <2>2, <3>1, RowFields
    <3>3. row' = Updated(old, FreshRow)
      BY <2>2 DEF SetupGetCommits
    <3> QED
      BY <3>1, <3>2, <3>3, UpdatedRow
  <2> QED
    BY <2>1, <2>2
<1>5. row' \in Row /\ row' # None
  BY <1>3, <1>4, RowFields
<1>6. TypeOK'
  BY <1>1, <1>5 DEF IInv, TypeOK
<1>7. Kept' = Kept
  BY <1>1 DEF Kept
<1>8. Past'
  <2>1. /\ row'.secret <= generated'
        /\ row'.last_used_at # NeverUsed => row'.last_used_at <= now
    BY <1>1, <1>3, <1>4, RowFields DEF IInv, Past
  <2>2. \A a \in accepted : a.code.secret <= generated' /\ a.time <= now
    BY <1>1, LoginFields, CodeFields DEF IInv, Past
  <2> QED
    BY <1>1, <2>1, <2>2 DEF IInv, Past
<1>9. Requests'
  <2>1. generated' \in Nat /\ generated <= generated'
    BY <1>1
  <2>2. \A a \in Kept' : a \in Kept \/ a.worker = w
    BY <1>7
  <2> QED
    BY <1>1, <1>5, <2>1, <2>2, OthersKept
<1>10. Remembered'
  <2>1. CASE row' = row
    BY <1>7, <2>1 DEF IInv, Remembered
  <2>2. CASE row'.secret = generated + 1
    <3>1. \A a \in Kept : a.code.secret # generated + 1
      BY <1>1, LoginFields, CodeFields DEF IInv, Past, Kept
    <3> QED
      BY <1>7, <2>2, <3>1 DEF Remembered
  <2> QED
    BY <1>4, <2>1, <2>2
<1>11. InTime'
  BY <1>1, <1>7 DEF IInv, InTime, Step
<1> QED
  BY <1>6, <1>8, <1>9, <1>10, <1>11 DEF IInv

(* The logins that a commit leaves kept are those its stamp covers.         *)
LEMMA CoveredByStamp ==
  ASSUME NEW r \in Row, NEW logins, NEW lost, Behind(logins, r) \subseteq lost,
         NEW a \in logins \ lost, a.code.secret = r.secret, a.time \in Nat
  PROVE  r.last_used_at # NeverUsed /\ a.time <= r.last_used_at
<1>1. ~(r.last_used_at = NeverUsed \/ r.last_used_at < a.time)
  BY DEF Behind
<1> QED
  BY <1>1, RowFields

(* What the two forms have in common when they commit.                      *)
LEMMA StampCommitted ==
  ASSUME IInv, NEW w \in Workers, At(w, Forms, "stamped")
  PROVE  /\ work[w] \in Work /\ Request(w, work[w])
         /\ work[w].loaded \in Row /\ row \in Row /\ row # None
         /\ work[w].code \in Code /\ work[w].code.secret <= generated
         /\ work[w].code.secret = work[w].loaded.secret
         /\ work[w].stamp \in Nat /\ work[w].stamp <= now
         /\ work[w].code.step <= Step(work[w].stamp) + 1
         /\ work[w].loaded.last_used_at # NeverUsed =>
              work[w].loaded.last_used_at <= work[w].stamp
<1>1. work[w] # None /\ work[w].page \in Forms /\ work[w].at = "stamped"
  BY DEF At
<1>2. /\ work[w] \in Work /\ Request(w, work[w])
      /\ work[w].loaded \in Row /\ row \in Row /\ row # None
  BY <1>1, FormWork, RowFields
<1> QED
  BY <1>1, <1>2, WorkFields, RowFields DEF Request, Loaded, Fits, Dated

LEMMA NextSetupVerifyCommits ==
  ASSUME IInv, NEW w \in Workers, SetupVerifyCommits(w)
  PROVE  IInv'
<1> DEFINE t == work[w].stamp
<1>1. /\ At(w, Forms, "stamped")
      /\ work' = [work EXCEPT ![w] = None]
      /\ work \in [Workers -> Work \cup {None}]
      /\ now \in Nat /\ generated \in Nat /\ batches' = batches + 1
      /\ confirmed' = confirmed \cup {work[w].code}
      /\ forgotten' = forgotten \cup Behind(accepted, row')
      /\ UNCHANGED <<now, generated, accepted>>
  BY DEF SetupVerifyCommits, At, Forms, IInv, TypeOK
<1>2. /\ work[w].loaded \in Row /\ row \in Row /\ work[w].code \in Code
      /\ t \in Nat /\ t <= now
  BY <1>1, StampCommitted
<1>3. row' \in Row /\ row'.secret = row.secret /\ row'.last_used_at = t
  BY <1>2, SetUpRow DEF SetupVerifyCommits
<1>4. row' # None /\ row # None
  BY <1>2, <1>3, RowFields
<1>5. Behind(accepted, row') \subseteq accepted
  BY DEF Behind
<1>6. TypeOK'
  BY <1>1, <1>2, <1>3, <1>5 DEF IInv, TypeOK
<1>7. Kept' \subseteq Kept
  BY <1>1 DEF Kept
<1>8. Past'
  BY <1>1, <1>2, <1>3, <1>4 DEF IInv, Past
<1>9. Requests'
  <2>1. generated' \in Nat /\ generated <= generated'
    BY <1>1
  <2> QED
    BY <1>1, <1>4, <1>7, <2>1, OthersKept
<1>10. Remembered'
  <2> SUFFICES ASSUME NEW a \in Kept', a.code.secret = row'.secret
               PROVE  row'.last_used_at # NeverUsed /\ a.time <= row'.last_used_at
    BY DEF Remembered
  <2>1. a \in accepted \ forgotten' /\ a.time \in Nat
    BY <1>1, LoginFields DEF IInv, Kept
  <2>2. Behind(accepted, row') \subseteq forgotten'
    BY <1>1
  <2> QED
    BY <1>3, <2>1, <2>2, CoveredByStamp
<1>11. InTime'
  BY <1>1, <1>7 DEF IInv, InTime, Step
<1> QED
  BY <1>6, <1>8, <1>9, <1>10, <1>11 DEF IInv

(* The login that is recorded is a window away from the worker's others     *)
(* with this secret that are kept.                                          *)
LEMMA NextVerifyCommits ==
  ASSUME IInv, NEW w \in Workers, VerifyCommits(w)
  PROVE  IInv'
<1> DEFINE t == work[w].stamp
           login == [nr |-> Cardinality(accepted), code |-> work[w].code,
                     time |-> t, worker |-> w]
<1>1. /\ At(w, Forms, "stamped") /\ work[w].page = "verify" /\ work[w].at = "stamped"
      /\ work' = [work EXCEPT ![w] = None]
      /\ work \in [Workers -> Work \cup {None}]
      /\ now \in Nat /\ generated \in Nat
      /\ row' = Stamped(row, t)
      /\ accepted' = accepted \cup {login}
      /\ forgotten' = forgotten \cup Behind(accepted', row')
      /\ UNCHANGED <<batches, now, generated, confirmed>>
  BY DEF VerifyCommits, At, Forms, IInv, TypeOK
<1>2. /\ Request(w, work[w]) /\ row \in Row /\ work[w].code \in Code
      /\ work[w].code.secret <= generated
      /\ work[w].code.secret = work[w].loaded.secret
      /\ t \in Nat /\ t <= now /\ work[w].code.step <= Step(t) + 1
  BY <1>1, StampCommitted
<1>3. row' \in Row /\ row'.secret = row.secret /\ row'.last_used_at = t
  BY <1>1, <1>2, StampedRow
<1>4. row' # None /\ row # None
  BY <1>2, <1>3, RowFields
<1>5. IsFiniteSet(accepted) /\ Cardinality(accepted) \in Nat
  BY FS_CardinalityType DEF IInv, Past
<1>6. /\ login \in Login
      /\ login.code = work[w].code /\ login.time = t /\ login.worker = w
  BY <1>2, <1>5 DEF Login
<1> HIDE DEF login
<1>7. Behind(accepted', row') \subseteq accepted'
  BY DEF Behind
<1>8. TypeOK'
  BY <1>1, <1>3, <1>6, <1>7 DEF IInv, TypeOK
<1>9. Kept' \subseteq Kept \cup {login}
  BY <1>1 DEF Kept
<1>10. Past'
  <2>1. \A a \in accepted' : a.code.secret <= generated /\ a.time <= now
    BY <1>1, <1>2, <1>6 DEF IInv, Past
  <2>2. IsFiniteSet(accepted')
    BY <1>1, <1>5, FS_AddElement
  <2>3. row'.secret <= generated /\ row'.last_used_at <= now
    BY <1>2, <1>3, <1>4 DEF IInv, Past
  <2> QED
    BY <1>1, <2>1, <2>2, <2>3 DEF Past
<1>11. Requests'
  <2>1. generated' \in Nat /\ generated <= generated'
    BY <1>1
  <2>2. \A a \in Kept' : a \in Kept \/ a.worker = w
    BY <1>6, <1>9
  <2> QED
    BY <1>1, <1>4, <2>1, <2>2, OthersKept
<1>12. Remembered'
  <2> SUFFICES ASSUME NEW a \in Kept', a.code.secret = row'.secret
               PROVE  row'.last_used_at # NeverUsed /\ a.time <= row'.last_used_at
    BY DEF Remembered
  <2>1. a \in accepted' \ forgotten' /\ a.time \in Nat
    BY <1>8, LoginFields DEF Kept, TypeOK, Login
  <2>2. Behind(accepted', row') \subseteq forgotten'
    BY <1>1
  <2> QED
    BY <1>3, <2>1, <2>2, CoveredByStamp
<1>13. InTime'
  <2>1. \A a \in Kept : (a.worker = w /\ a.code.secret = login.code.secret) =>
             /\ a.time + Window <= t
             /\ a.code = login.code => Step(a.time) <= a.code.step + 1
    BY <1>1, <1>2, <1>6 DEF Request, Waited
  <2>2. \A a \in accepted' : a.code.step <= Step(a.time) + 1
    BY <1>1, <1>2, <1>6 DEF IInv, InTime
  <2>3. \A a, b \in Kept' :
          (a.worker = b.worker /\ a.code.secret = b.code.secret /\ a # b) =>
             a.time + Window <= b.time \/ b.time + Window <= a.time
    BY <1>6, <1>9, <2>1 DEF IInv, InTime
  <2>4. \A a \in Kept : a.time \in Nat
    BY LoginFields DEF IInv, Kept
  <2>5. \A a, b \in Kept' :
          (a.worker = b.worker /\ a.code = b.code /\ a.time < b.time) =>
             Step(a.time) <= a.code.step + 1
    <3> SUFFICES ASSUME NEW a \in Kept', NEW b \in Kept',
                        a.worker = b.worker, a.code = b.code, a.time < b.time
                 PROVE  Step(a.time) <= a.code.step + 1
      OBVIOUS
    <3>1. CASE a \in Kept /\ b \in Kept
      BY <3>1 DEF IInv, InTime
    <3>2. CASE a \in Kept /\ b = login
      BY <1>6, <2>1, <3>2
    <3>3. CASE a = login /\ b \in Kept
      <4>1. b.time + Window <= t /\ t < b.time
        BY <1>6, <2>1, <3>3
      <4> QED
        BY <1>2, <2>4, <3>3, <4>1, WindowAssumption
    <3>4. CASE a = login /\ b = login
      BY <1>2, <1>6, <3>4
    <3> QED
      BY <1>9, <3>1, <3>2, <3>3, <3>4
  <2> QED
    BY <2>2, <2>3, <2>5 DEF InTime, Step
<1> QED
  BY <1>8, <1>10, <1>11, <1>12, <1>13 DEF IInv

-----------------------------------------------------------------------------
LEMMA InitIInv == Init => IInv
<1> SUFFICES ASSUME Init PROVE IInv
  OBVIOUS
<1>1. IsFiniteSet({})
  BY FS_EmptySet
<1> QED
  BY <1>1, WindowAssumption
     DEF Init, IInv, TypeOK, Past, Requests, Remembered, InTime, Kept

LEMMA NextIInv == IInv /\ [Next]_vars => IInv'
<1> SUFFICES ASSUME IInv, [Next]_vars PROVE IInv'
  OBVIOUS
<1>1. CASE UNCHANGED vars
  BY <1>1 DEF vars, IInv, TypeOK, Past, Requests, Request, Loaded, Fits, Dated, Waited,
              Remembered, InTime, Kept, Step
<1>2. ASSUME NEW w \in Workers,
             SetupGetLoads(w) \/ SetupVerifyLoads(w) \/ VerifyLoads(w)
      PROVE  IInv'
  BY <1>2, LoadedWork DEF SetupGetLoads, SetupVerifyLoads, VerifyLoads, Forms
<1> QED
  BY <1>1, <1>2, NextCodeMatches, NextNotReplayed, NextStamps, NextEnds,
     NextSetupGetCommits, NextSetupVerifyCommits, NextVerifyCommits, NextTick
     DEF Next

LEMMA Invariance == Spec => []IInv
<1>1. Init => IInv
  BY InitIInv
<1>2. IInv /\ [Next]_vars => IInv'
  BY NextIInv
<1> QED
  BY <1>1, <1>2, PTL DEF Spec

(* The row, the requests and the record of logins keep their shapes,        *)
(* although a commit writes single columns of a row others have changed.    *)
THEOREM TypeCorrect == Spec => []TypeOK
<1>1. IInv => TypeOK
  BY DEF IInv
<1> QED
  BY <1>1, Invariance, PTL

(* Two logins a worker grants with one secret, and that last_used_at was    *)
(* not set back behind, are 30 seconds apart: the replay check of           *)
(* totp_helpers.py:60 is stale by overlap only.                             *)
THEOREM LoginsAreSpaced == Spec => []SpacedPerWorker
<1>1. IInv => SpacedPerWorker
  <2> SUFFICES ASSUME IInv, NEW a \in Kept, NEW b \in Kept,
                      Close(a, b), a.worker = b.worker, a # b
               PROVE  FALSE
    BY DEF SpacedPerWorker, Kept
  <2>1. a.time \in Nat /\ b.time \in Nat
    BY LoginFields DEF IInv, Kept
  <2>2. a.time + Window <= b.time \/ b.time + Window <= a.time
    BY DEF IInv, InTime, Close
  <2> QED
    BY <2>1, <2>2, WindowAssumption DEF Close
<1> QED
  BY <1>1, Invariance, PTL

(* Time steps tell the logins of one worker with one code apart, the last   *)
(* of them put in the third step after the code's: four steps, four logins. *)
LEMMA LoginsPerCode ==
  ASSUME IInv, NEW a \in Kept
  PROVE  Cardinality({b \in Kept : b.code = a.code /\ b.worker = a.worker}) <= 4
<1> DEFINE S == {b \in Kept : b.code = a.code /\ b.worker = a.worker}
           n == a.code.step
           T == n .. (n + 3)
           slot == [b \in S |-> IF Step(b.time) <= n + 1 THEN Step(b.time) + 1 ELSE n + 3]
<1>1. n \in Nat
  BY LoginFields, CodeFields DEF IInv, Kept
<1>2. ASSUME NEW b \in S
      PROVE  /\ b \in Kept /\ b.code = a.code /\ b.worker = a.worker
             /\ b.time \in Nat /\ Step(b.time) \in Nat
             /\ n <= Step(b.time) + 1
  BY LoginFields, StepType DEF IInv, InTime, Kept
<1>3. slot \in [S -> T]
  BY <1>1, <1>2
<1>4. ASSUME NEW b \in S, NEW c \in S, b.time < c.time
      PROVE  slot[b] # slot[c]
  <2>1. /\ Step(b.time) <= n + 1
        /\ b.time + Window <= c.time \/ c.time + Window <= b.time
    BY <1>2, <1>4 DEF IInv, InTime
  <2>2. b.time + Window <= c.time
    BY <1>2, <1>4, <2>1, WindowAssumption
  <2>3. Step(b.time) + 1 <= Step(c.time)
    BY <1>2, <2>2, StepApart
  <2> QED
    BY <1>1, <1>2, <2>1, <2>3
<1>5. ASSUME NEW b \in S, NEW c \in S, slot[b] = slot[c]
      PROVE  b = c
  <2>1. b.time = c.time
    BY <1>2, <1>4, <1>5
  <2>2. b # c => b.time + Window <= c.time \/ c.time + Window <= b.time
    BY <1>2 DEF IInv, InTime
  <2> QED
    BY <1>2, <2>1, <2>2, WindowAssumption
<1> HIDE DEF S, slot
<1>6. slot \in Injection(S, T)
  BY <1>3, <1>5, Fun_IsInj
<1>7. IsFiniteSet(T) /\ Cardinality(T) = 4
  <2>1. n \in Int /\ n + 3 \in Int
    BY <1>1
  <2>2. /\ IsFiniteSet(T)
        /\ Cardinality(T) = IF n > n + 3 THEN 0 ELSE (n + 3) - n + 1
    BY <2>1, FS_Interval
  <2> QED
    BY <1>1, <2>2
<1>8. IsFiniteSet(S) /\ Cardinality(S) <= Cardinality(T)
  BY <1>6, <1>7, FS_Injection
<1> QED
  BY <1>7, <1>8 DEF S

(* A code, correct for 90 seconds, lets a user in at most four times        *)
(* through any one worker while last_used_at is not set back, however the   *)
(* worker's readings of the clock are spread.                               *)
THEOREM FourLoginsPerCode == Spec => []AtMostFourLoginsPerCode
<1>1. IInv => AtMostFourLoginsPerCode
  BY LoginsPerCode DEF AtMostFourLoginsPerCode, Kept
<1> QED
  BY <1>1, Invariance, PTL

-----------------------------------------------------------------------------
(* A request that commits over the row it loaded stamps it with a later     *)
(* time than it found there.                                                *)
LEMMA FreshCommitForgetsNothing ==
  ASSUME IInv, [Next]_vars, ~(forgotten' \subseteq forgotten)
  PROVE  \E w \in Workers : /\ work[w] # None /\ work'[w] = None
                            /\ work[w].loaded # row
<1>1. work \in [Workers -> Work \cup {None}]
  BY DEF IInv, TypeOK
<1>2. ASSUME NEW w \in Workers, SetupVerifyCommits(w)
      PROVE  work[w] # None /\ work'[w] = None /\ work[w].loaded # row
  <2>1. work[w] # None /\ work'[w] = None /\ At(w, Forms, "stamped")
    BY <1>1, <1>2 DEF SetupVerifyCommits, At, Forms
  <2>2. ASSUME work[w].loaded = row, NEW a \in Behind(accepted, row'), a \notin forgotten
        PROVE  FALSE
    <3>1. /\ row \in Row /\ row # None /\ work[w].stamp \in Nat
          /\ row.last_used_at # NeverUsed => row.last_used_at <= work[w].stamp
      BY <2>1, <2>2, StampCommitted
    <3>2. row' \in Row /\ row'.secret = row.secret /\ row'.last_used_at = work[w].stamp
      BY <1>2, <2>2, <3>1, SetUpRow DEF SetupVerifyCommits
    <3>3. a \in Kept /\ a.code.secret = row.secret /\ a.time \in Nat
      BY <2>2, <3>2, LoginFields DEF Behind, Kept, IInv
    <3>4. row'.last_used_at # NeverUsed
      BY <3>1, <3>2, NoneAssumption DEF NeverUsed
    <3>5. row'.last_used_at < a.time
      BY <2>2, <3>4 DEF Behind
    <3>6. row.last_used_at # NeverUsed /\ a.time <= row.last_used_at
      BY <3>1, <3>3 DEF IInv, Remembered
    <3>7. row.last_used_at \in Nat
      BY <3>1, <3>6, RowFields
    <3> QED
      BY <3>1, <3>2, <3>3, <3>5, <3>6, <3>7
  <2>3. forgotten' = forgotten \cup Behind(accepted, row')
    BY <1>2 DEF SetupVerifyCommits
  <2> QED
    BY <2>1, <2>2, <2>3
<1>3. ASSUME NEW w \in Workers, VerifyCommits(w)
      PROVE  work[w] # None /\ work'[w] = None /\ work[w].loaded # row
  <2> DEFINE login == [nr |-> Cardinality(accepted), code |-> work[w].code,
                       time |-> work[w].stamp, worker |-> w]
  <2>1. work[w] # None /\ work'[w] = None /\ At(w, Forms, "stamped")
    BY <1>1, <1>3 DEF VerifyCommits, At, Forms
  <2>2. /\ accepted' = accepted \cup {login}
        /\ forgotten' = forgotten \cup Behind(accepted', row')
        /\ row' = Stamped(row, work[w].stamp)
    BY <1>3 DEF VerifyCommits
  <2>3. login.time = work[w].stamp
    OBVIOUS
  <2> HIDE DEF login
  <2>4. ASSUME work[w].loaded = row, NEW a \in Behind(accepted', row'), a \notin forgotten
        PROVE  FALSE
    <3>1. /\ row \in Row /\ row # None /\ work[w].stamp \in Nat
          /\ row.last_used_at # NeverUsed => row.last_used_at <= work[w].stamp
      BY <2>1, <2>4, StampCommitted
    <3>2. row' \in Row /\ row'.secret = row.secret /\ row'.last_used_at = work[w].stamp
      BY <2>2, <3>1, StampedRow
    <3>3. row'.last_used_at # NeverUsed
      BY <3>1, <3>2, NoneAssumption DEF NeverUsed
    <3>4. a \in accepted' /\ a.code.secret = row.secret /\ row'.last_used_at < a.time
      BY <2>4, <3>2, <3>3 DEF Behind
    <3>5. a # login
      BY <2>3, <3>1, <3>2, <3>4
    <3>6. a \in Kept /\ a.time \in Nat
      BY <2>2, <2>4, <3>4, <3>5, LoginFields DEF Kept, IInv
    <3>7. row.last_used_at # NeverUsed /\ a.time <= row.last_used_at
      BY <3>1, <3>4, <3>6 DEF IInv, Remembered
    <3>8. row.last_used_at \in Nat
      BY <3>1, <3>7, RowFields
    <3> QED
      BY <3>1, <3>2, <3>4, <3>6, <3>7, <3>8
  <2> QED
    BY <2>1, <2>2, <2>4
<1>4. \A w \in Workers :
        /\ ~SetupGetLoads(w) /\ ~SetupGetCommits(w) /\ ~SetupVerifyLoads(w)
        /\ ~VerifyLoads(w) /\ ~NotReplayed(w) /\ ~Refused(w) /\ ~Stamps(w) /\ ~Crash(w)
        /\ \A code \in Typed : ~CodeMatches(w, code)
  BY DEF SetupGetLoads, SetupGetCommits, SetupVerifyLoads, VerifyLoads, Load,
         NotReplayed, Refused, Stamps, Crash, CodeMatches
<1>5. ~Tick /\ ~UNCHANGED vars
  BY DEF Tick, vars
<1> QED
  BY <1>2, <1>3, <1>4, <1>5 DEF Next

(* The replay check forgets a login only when a request commits its stamp   *)
(* over a row that another request has changed (totp.py:114-121, 184-185).  *)
THEOREM LoginsForgottenOnlyToStale == Spec => ForgottenOnlyIfStale
<1> DEFINE Stale ==
      ~(forgotten' \subseteq forgotten) =>
        \E w \in Workers : /\ work[w] # None /\ work'[w] = None
                          /\ work[w].loaded # row
<1>1. IInv /\ [Next]_vars => [Stale]_vars
  BY FreshCommitForgetsNothing
<1> QED
  BY <1>1, Invariance, PTL DEF Spec, ForgottenOnlyIfStale

(* A single worker finds the row as it loaded it, and forgets no login.     *)
OneAtATime ==
  /\ forgotten = {}
  /\ \A w \in Workers : work[w] # None => work[w].loaded = row

LEMMA NextOneAtATime ==
  ASSUME \A v, w \in Workers : v = w, IInv, OneAtATime, [Next]_vars
  PROVE  OneAtATime'
<1>1. work \in [Workers -> Work \cup {None}] /\ forgotten = {}
  BY DEF IInv, TypeOK, OneAtATime
<1>2. forgotten' = {}
  BY <1>1, FreshCommitForgetsNothing DEF OneAtATime
<1>3. ASSUME NEW w \in Workers, work'[w] # None
      PROVE  work'[w].loaded = row'
  <2>1. CASE UNCHANGED vars \/ Tick
    BY <1>3, <2>1 DEF vars, Tick, OneAtATime
  <2>2. CASE \E page \in {"setup_get", "setup_verify", "verify"} : Load(w, page)
    BY <1>1, <2>2 DEF Load
  <2>3. CASE \/ \E code \in Typed : CodeMatches(w, code)
             \/ NotReplayed(w) \/ Stamps(w)
    <3>1. work[w] # None /\ work[w].loaded = row /\ row' = row /\ work[w] \in Work
      BY <1>1, <2>3 DEF CodeMatches, NotReplayed, Stamps, At, OneAtATime
    <3>2. work'[w].loaded = work[w].loaded
      BY <1>1, <2>3, <3>1 DEF CodeMatches, NotReplayed, Stamps, Work
    <3> QED
      BY <3>1, <3>2
  <2>4. CASE \/ SetupGetCommits(w) \/ SetupVerifyCommits(w) \/ VerifyCommits(w)
             \/ Refused(w) \/ Crash(w)
    BY <1>1, <1>3, <2>4
       DEF SetupGetCommits, SetupVerifyCommits, VerifyCommits, Refused, Crash
  <2> QED
    BY <2>1, <2>2, <2>3, <2>4 DEF Next, SetupGetLoads, SetupVerifyLoads, VerifyLoads
<1> QED
  BY <1>2, <1>3 DEF OneAtATime

(* With one worker the docstring of totp_helpers.py:48 is right: what       *)
(* refutes it is that requests overlap.                                     *)
THEOREM OneWorkerRefusesUsedCodes ==
  ASSUME \A v, w \in Workers : v = w
  PROVE  Spec => []UsedCodesRefused
<1>1. Init => OneAtATime
  BY DEF Init, OneAtATime
<1>2. IInv /\ OneAtATime /\ [Next]_vars => OneAtATime'
  BY NextOneAtATime
<1>3. SpacedPerWorker /\ OneAtATime => UsedCodesRefused
  BY DEF SpacedPerWorker, OneAtATime, UsedCodesRefused
<1> QED
  BY <1>1, <1>2, <1>3, Invariance, LoginsAreSpaced, PTL DEF Spec

-----------------------------------------------------------------------------
(* A commit based on the row as it is keeps a verified secret a confirmed   *)
(* one.                                                                     *)
LEMMA FreshCommitKeepsConfirmed ==
  ASSUME IInv, [Next]_vars, VerifiedSecretConfirmed, ~VerifiedSecretConfirmed'
  PROVE  \E w \in Workers : /\ work[w] # None /\ work'[w] = None
                            /\ work[w].loaded # row
<1>1. row' # None /\ row'.verified /\ ~\E c \in confirmed' : c.secret = row'.secret
  BY DEF VerifiedSecretConfirmed
<1>2. work \in [Workers -> Work \cup {None}] /\ row \in Row \cup {None} /\ generated \in Nat
  BY DEF IInv, TypeOK
<1>3. ~UNCHANGED <<row, confirmed>>
  BY DEF VerifiedSecretConfirmed
<1>4. ASSUME NEW w \in Workers, SetupGetCommits(w)
      PROVE  work[w] # None /\ work'[w] = None /\ work[w].loaded # row
  <2>1. work[w] # None /\ work'[w] = None
    BY <1>2, <1>4 DEF SetupGetCommits, At
  <2>2. ASSUME work[w].loaded = row PROVE FALSE
    <3>1. CASE row = None
      BY <1>1, <1>2, <1>4, <2>2, <3>1, FreshRowFields DEF SetupGetCommits
    <3>2. CASE row # None
      <4>1. row' = Updated(row, FreshRow) /\ row \in Row
        BY <1>2, <1>4, <2>2, <3>2 DEF SetupGetCommits
      <4> QED
        BY <1>1, <1>2, <4>1, UpdatedRow, FreshRowFields, RowFields
    <3> QED
      BY <3>1, <3>2
  <2> QED
    BY <2>1, <2>2
<1>5. ASSUME NEW w \in Workers, SetupVerifyCommits(w)
      PROVE  work[w] # None /\ work'[w] = None /\ work[w].loaded # row
  <2>1. work[w] # None /\ work'[w] = None /\ At(w, Forms, "stamped")
    BY <1>2, <1>5 DEF SetupVerifyCommits, At, Forms
  <2>2. ASSUME work[w].loaded = row PROVE FALSE
    <3>1. row \in Row /\ work[w].code.secret = row.secret /\ work[w].stamp \in Nat
      BY <2>1, <2>2, StampCommitted
    <3>2. confirmed' = confirmed \cup {work[w].code}
      BY <1>5 DEF SetupVerifyCommits
    <3>3. row'.secret = row.secret
      BY <1>5, <2>2, <3>1, SetUpRow DEF SetupVerifyCommits
    <3> QED
      BY <1>1, <3>1, <3>2, <3>3
  <2> QED
    BY <2>1, <2>2
<1>6. \A w \in Workers : ~VerifyCommits(w)
  <2> SUFFICES ASSUME NEW w \in Workers, VerifyCommits(w) PROVE FALSE
    OBVIOUS
  <2>1. At(w, Forms, "stamped") /\ confirmed' = confirmed
    BY DEF VerifyCommits, At, Forms
  <2>2. row \in Row /\ row # None /\ work[w].stamp \in Nat
    BY <2>1, StampCommitted
  <2>3. row'.secret = row.secret /\ row'.verified = row.verified
    BY <2>2, StampedRow DEF VerifyCommits
  <2> QED
    BY <1>1, <2>1, <2>2, <2>3 DEF VerifiedSecretConfirmed
<1>7. \A w \in Workers :
        /\ ~SetupGetLoads(w) /\ ~SetupVerifyLoads(w) /\ ~VerifyLoads(w)
        /\ ~NotReplayed(w) /\ ~Refused(w) /\ ~Stamps(w) /\ ~Crash(w)
        /\ \A code \in Typed : ~CodeMatches(w, code)
  BY <1>3 DEF SetupGetLoads, SetupVerifyLoads, VerifyLoads, Load,
              NotReplayed, Refused, Stamps, Crash, CodeMatches
<1>8. ~Tick /\ ~UNCHANGED vars
  BY <1>3 DEF Tick, vars
<1> QED
  BY <1>4, <1>5, <1>6, <1>7, <1>8 DEF Next

(* Only a request that commits over a row another request has changed can   *)
(* leave a verified secret whose code was never confirmed (totp.py:62).     *)
THEOREM UnconfirmedOnlyToStale == Spec => UnconfirmedOnlyIfStale
<1> DEFINE Stale ==
      (VerifiedSecretConfirmed /\ ~VerifiedSecretConfirmed') =>
        \E w \in Workers : /\ work[w] # None /\ work'[w] = None
                          /\ work[w].loaded # row
<1>1. IInv /\ [Next]_vars => [Stale]_vars
  BY FreshCommitKeepsConfirmed
<1> QED
  BY <1>1, Invariance, PTL DEF Spec, UnconfirmedOnlyIfStale
=============================================================================
