-------------------------------- MODULE Totp --------------------------------
(***************************************************************************)
(* TOTP: the secret a user has in the totp_secret table, its set-up in two *)
(* pages, and its verification with the replay check of                    *)
(* totp_helpers.verify_code.  Rows are keyed by user, so one user is       *)
(* modelled, with every worker that may be handling a request of his.      *)
(*                                                                         *)
(* A request loads the row, works on the loaded copy, and commits the      *)
(* columns it changed, and only those: SQLAlchemy compares each attribute  *)
(* with what was loaded.  It reads the clock three times on the way: in    *)
(* pyotp, for the replay check, and for the stamp it leaves in             *)
(* last_used_at.  The stamp is not yet committed then: on the set-up page  *)
(* ten bcrypt hashes come between.  Time is counted in units of            *)
(* 30 / Window seconds, the distance a code's time step and the replay     *)
(* check use.                                                              *)
(***************************************************************************)
EXTENDS Naturals, FiniteSets

CONSTANTS Workers,
          Window,      \* units of time in 30 seconds
          Steps,       \* the time steps whose codes are typed
          MaxSecret,   \* bound: how many secrets are generated
          MaxTime,     \* bound: the clock
          MaxBatches,  \* bound: how often the set-up form is accepted
          None

ASSUME WindowAssumption == Window \in Nat \ {0}
ASSUME StepsAssumption == Steps \subseteq Nat
ASSUME BoundAssumption == MaxSecret \in Nat /\ MaxTime \in Nat /\ MaxBatches \in Nat
ASSUME NoneAssumption == None \notin Nat

VARIABLES row,         \* the totp_secret row, or None
          batches,     \* how often ten backup codes were stored
          work,        \* the request each worker is handling
          now,         \* the time
          generated,   \* how many secrets were generated
          confirmed,   \* history: codes the set-up form accepted
          accepted,    \* history: what /totp/verify accepted, its stamp and worker
          forgotten    \* history: those that last_used_at was then set back behind

vars == <<row, batches, work, now, generated, confirmed, accepted, forgotten>>

(* NEVER_USED is so far in the past that no replay check reaches it.       *)
NeverUsed == None

Row == [secret : Nat, verified : BOOLEAN, last_used_at : Nat \cup {NeverUsed}]
Code == [secret : Nat, step : Nat]
Login == [nr : Nat, code : Code, time : Nat, worker : Workers]

(* A request to one of the three pages, and how far it is: it has loaded    *)
(* the row, found its code correct, found it fresh, or stamped the row.     *)
Work == [page : {"setup_get", "setup_verify", "verify"},
         at : {"loaded", "correct", "fresh", "stamped"},
         loaded : Row \cup {None}, code : Code \cup {None}, stamp : Nat \cup {None}]

ASSUME NoRowAssumption == None \notin Row \cup Code \cup Work

-----------------------------------------------------------------------------
Init == /\ row = None
        /\ batches = 0
        /\ work = [w \in Workers |-> None]
        /\ now = Window
        /\ generated = 0
        /\ confirmed = {}
        /\ accepted = {}
        /\ forgotten = {}

Step(t) == t \div Window

(* pyotp's verify with valid_window=1                                      *)
Correct(secret, code, t) == /\ code.secret = secret
                            /\ code.step <= Step(t) + 1
                            /\ Step(t) <= code.step + 1

(* Mutant: off by one unit of time.                                        *)
TooSoonByOne(last, t) == last # NeverUsed /\ t - last + 1 < Window

(* (now - last).total_seconds() < 30                                       *)
TooSoon(last, t) == last # NeverUsed /\ t - last < Window

(* What the user may type, whatever the clock of his app shows.             *)
Typed == [secret : 1 .. generated, step : Steps]

(* Worker w begins a request to a page by loading the row.                  *)
Load(w, page) ==
  /\ work[w] = None
  /\ work' = [work EXCEPT ![w] = [page |-> page, at |-> "loaded", loaded |-> row,
                                  code |-> None, stamp |-> None]]
  /\ UNCHANGED <<row, batches, now, generated, confirmed, accepted, forgotten>>

At(w, pages, at) == work[w] # None /\ work[w].page \in pages /\ work[w].at = at

-----------------------------------------------------------------------------
(* GET /totp/setup: a fresh secret, not verified, in a new row or over the *)
(* old one, verified or not.                                               *)

SetupGetLoads(w) == generated < MaxSecret /\ Load(w, "setup_get")

(* Mutant: columns that did not change are written as NULL.                *)
UpdatedNulls(old, new) ==
  [f \in DOMAIN row |-> IF new[f] = old[f] THEN None ELSE new[f]]

(* The columns a request that loaded `old' writes to bring it to `new'.    *)
Updated(old, new) ==
  [f \in DOMAIN row |-> IF new[f] = old[f] THEN row[f] ELSE new[f]]

(* Mutant: the flag of the old secret is kept.                             *)
FreshRowKeepsVerified ==
  [secret |-> generated + 1, verified |-> row # None /\ row.verified,
   last_used_at |-> NeverUsed]

FreshRow == [secret |-> generated + 1, verified |-> FALSE, last_used_at |-> NeverUsed]

SetupGetCommits(w) ==
  LET old == work[w].loaded
  IN /\ At(w, {"setup_get"}, "loaded")
     /\ IF old = None
          THEN row' = IF row = None THEN FreshRow ELSE row   \* the insert fails on its key
          ELSE row' = Updated(old, FreshRow)
     /\ generated' = generated + 1
     /\ work' = [work EXCEPT ![w] = None]
     /\ UNCHANGED <<batches, now, confirmed, accepted, forgotten>>

-----------------------------------------------------------------------------
(* POST /totp/setup/verify and POST /totp/verify both call verify_code on  *)
(* the row they loaded, and stamp it if the code passes.  The code of the  *)
(* form is chosen where it is first looked at.  A refusal changes nothing  *)
(* but the audit log.                                                      *)

Forms == {"setup_verify", "verify"}

SetupVerifyLoads(w) == batches < MaxBatches /\ row # None /\ Load(w, "setup_verify")

VerifyLoads(w) == row # None /\ row.verified /\ Load(w, "verify")

CodeMatches(w, code) ==
  /\ At(w, Forms, "loaded")
  /\ Correct(work[w].loaded.secret, code, now)
  /\ work' = [work EXCEPT ![w].at = "correct", ![w].code = code]
  /\ UNCHANGED <<row, batches, now, generated, confirmed, accepted, forgotten>>

(* Mutant: the call is copied from the set-up form.                         *)
LastUsedNever(w) == NeverUsed

(* The set-up form passes NEVER_USED in place of the row's last_used_at.   *)
LastUsed(w) == IF work[w].page = "verify" THEN work[w].loaded.last_used_at ELSE NeverUsed

NotReplayed(w) ==
  /\ At(w, Forms, "correct")
  /\ ~TooSoon(LastUsed(w), now)
  /\ work' = [work EXCEPT ![w].at = "fresh"]
  /\ UNCHANGED <<row, batches, now, generated, confirmed, accepted, forgotten>>

(* A code that is wrong, or that the replay check refuses.                 *)
Refused(w) ==
  /\ \/ At(w, Forms, "loaded")
     \/ At(w, Forms, "correct") /\ TooSoon(LastUsed(w), now)
  /\ work' = [work EXCEPT ![w] = None]
  /\ UNCHANGED <<row, batches, now, generated, confirmed, accepted, forgotten>>

Stamps(w) ==
  /\ At(w, Forms, "fresh")
  /\ work' = [work EXCEPT ![w].at = "stamped", ![w].stamp = now]
  /\ UNCHANGED <<row, batches, now, generated, confirmed, accepted, forgotten>>

-----------------------------------------------------------------------------
(* Mutant: only the first use is stamped.                                  *)
StampedOnce(r, stamp) ==
  [r EXCEPT !.last_used_at = IF @ = NeverUsed THEN stamp ELSE @]

(* A stamp has a time zone and what is loaded has none, so that the two    *)
(* never compare equal and the stamp is always written.                    *)
Stamped(r, stamp) == [r EXCEPT !.last_used_at = stamp]

(* The logins with row r's secret that its last_used_at is earlier than.   *)
Behind(logins, r) ==
  {a \in logins : /\ a.code.secret = r.secret
                  /\ r.last_used_at = NeverUsed \/ r.last_used_at < a.time}

SetupVerifyCommits(w) ==
  LET old == work[w].loaded IN
  /\ At(w, {"setup_verify"}, "stamped")
  /\ row' = Stamped(Updated(old, [old EXCEPT !.verified = TRUE]), work[w].stamp)
  /\ batches' = batches + 1
  /\ confirmed' = confirmed \cup {work[w].code}
  /\ forgotten' = forgotten \cup Behind(accepted, row')
  /\ work' = [work EXCEPT ![w] = None]
  /\ UNCHANGED <<now, generated, accepted>>

VerifyCommits(w) ==
  LET login == [nr |-> Cardinality(accepted), code |-> work[w].code,
                time |-> work[w].stamp, worker |-> w] IN
  /\ At(w, {"verify"}, "stamped")
  /\ row' = Stamped(row, work[w].stamp)
  /\ accepted' = accepted \cup {login}
  /\ forgotten' = forgotten \cup Behind(accepted', row')
  /\ work' = [work EXCEPT ![w] = None]
  /\ UNCHANGED <<batches, now, generated, confirmed>>

-----------------------------------------------------------------------------
Crash(w) == /\ work[w] # None
            /\ work' = [work EXCEPT ![w] = None]
            /\ UNCHANGED <<row, batches, now, generated, confirmed, accepted, forgotten>>

Tick == /\ now < MaxTime
        /\ now' = now + 1
        /\ UNCHANGED <<row, batches, work, generated, confirmed, accepted, forgotten>>

Next == \/ \E w \in Workers :
             \/ SetupGetLoads(w)
             \/ SetupGetCommits(w)
             \/ SetupVerifyLoads(w)
             \/ VerifyLoads(w)
             \/ \E code \in Typed : CodeMatches(w, code)
             \/ NotReplayed(w)
             \/ Refused(w)
             \/ Stamps(w)
             \/ SetupVerifyCommits(w)
             \/ VerifyCommits(w)
             \/ Crash(w)
        \/ Tick

Spec == Init /\ [][Next]_vars

-----------------------------------------------------------------------------
(* Every variable keeps its shape.                                          *)
TypeOK ==
  /\ row \in Row \cup {None}
  /\ batches \in Nat
  /\ work \in [Workers -> Work \cup {None}]
  /\ now \in Nat
  /\ generated \in Nat
  /\ confirmed \subseteq Code
  /\ accepted \subseteq Login
  /\ forgotten \subseteq accepted

Close(a, b) == /\ a.code.secret = b.code.secret
               /\ a.time <= b.time /\ b.time - a.time < Window

(* totp_helpers.py:48: a code is refused that "has already been used within *)
(* the current 30-second window".  Stated of one worker, which handles its  *)
(* requests one after the other.  It is true when there is no other worker. *)
(* Otherwise a request of another that stamped the row earlier and commits  *)
(* later sets last_used_at back behind a login (totp.py:114-121, 184-185),  *)
(* and the code is accepted again.                                          *)
UsedCodesRefused ==
  \A a, b \in accepted :
    (Close(a, b) /\ a.code = b.code /\ a.worker = b.worker) => a = b

(* What does hold: logins of one worker with one secret that last_used_at   *)
(* was not set back behind are 30 seconds apart, however long the worker    *)
(* waits between its three readings of the clock and its commit.            *)
SpacedPerWorker ==
  \A a, b \in accepted \ forgotten :
    (Close(a, b) /\ a.worker = b.worker) => a = b

(* The replay check forgets a login only through a commit of a stamp that   *)
(* overlapped another request: the row is no longer the one it loaded.      *)
(* With a single worker, then, no login is ever forgotten.                  *)
ForgottenOnlyIfStale ==
  [][~(forgotten' \subseteq forgotten) =>
       \E w \in Workers : /\ work[w] # None /\ work'[w] = None
                         /\ work[w].loaded # row]_vars

(* A code is correct for 90 seconds and the logins of a worker with it that *)
(* are not forgotten are 30 seconds apart: at most three, and a fourth      *)
(* whose request waited between pyotp's reading of the clock and that of    *)
(* the replay check (totp_helpers.py:54-60).                                *)
AtMostFourLoginsPerCode ==
  \A a \in accepted \ forgotten :
    Cardinality({b \in accepted \ forgotten :
                   b.code = a.code /\ b.worker = a.worker}) <= 4

(* totp.py:62: a secret is "unverified until the code is confirmed", so a   *)
(* verified secret is one whose code the user has entered on the set-up     *)
(* page: otherwise he has no app that can produce its codes.  That can only *)
(* fail when a request commits what it worked out from a row that another   *)
(* request has changed since.                                               *)
VerifiedSecretConfirmed ==
  (row # None /\ row.verified) => \E c \in confirmed : c.secret = row.secret

UnconfirmedOnlyIfStale ==
  [][(VerifiedSecretConfirmed /\ ~VerifiedSecretConfirmed') =>
       \E w \in Workers : /\ work[w] # None /\ work'[w] = None
                         /\ work[w].loaded # row]_vars
=============================================================================
