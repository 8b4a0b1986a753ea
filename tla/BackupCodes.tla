----------------------------- MODULE BackupCodes -----------------------------
(***************************************************************************)
(* Backup codes: rows a registration stores with used_at = NEVER_USED, and *)
(* POST /backup/verify, which selects the user's unused rows, compares the *)
(* typed code with each bcrypt hash, and marks the row that matched in a   *)
(* later transaction, without looking at used_at again.  The rate limiter  *)
(* lets a request in before its handler runs.                              *)
(***************************************************************************)
EXTENDS RateLimiter

CONSTANTS Users, Codes,
          Owner       \* Owner[c]: the user code c is generated for

ASSUME OwnerAssumption == Owner \in [Codes -> Users]
ASSUME NoneAssumption == None \notin Users \cup Codes

VARIABLES backup_code,   \* the backup_code table: unused or used rows
          work,          \* the request each worker is handling
          audit,         \* per user, how many "verify" rows /backup/verify wrote
          uses,          \* history: requests each code let through
          logins         \* history: requests each user was let through by

vars == <<backup_code, work, audit, uses, logins, limiterVars>>

Work == [at : {"mark", "audit", "answer"}, user : Users, code : Codes]

ASSUME NoRowAssumption == None \notin {"unused", "used"} \cup Work \cup Counter

Init == /\ backup_code = [c \in Codes |-> None]
        /\ work = [w \in Workers |-> None]
        /\ audit = [u \in Users |-> 0]
        /\ uses = [c \in Codes |-> 0]
        /\ logins = [u \in Users |-> 0]
        /\ LimiterInit

(* A registration stores the codes of its user in one commit.              *)
Register(u) ==
  /\ \A c \in Codes : Owner[c] = u => backup_code[c] = None
  /\ backup_code' = [c \in Codes |-> IF Owner[c] = u THEN "unused" ELSE backup_code[c]]
  /\ UNCHANGED <<work, audit, uses, logins, limiterVars>>

(* Mutant: the select forgets used_at = NEVER_USED.                        *)
ValidCodesAnyTime(u) == {c \in Codes : Owner[c] = u /\ backup_code[c] # None}

(* The rows of the select, and the one that matches what was typed.        *)
ValidCodes(u) == {c \in Codes : Owner[c] = u /\ backup_code[c] = "unused"}

Match(w, u, c) ==
  /\ work[w] = None
  /\ c \in ValidCodes(u)
  /\ Admit(w)
  /\ work' = [work EXCEPT ![w] = [at |-> "mark", user |-> u, code |-> c]]
  /\ UNCHANGED <<backup_code, audit, uses, logins>>

NoMatch(w) == /\ work[w] = None
              /\ Admit(w)
              /\ UNCHANGED <<backup_code, work, audit, uses, logins>>

(* Mutant: used_at gets the user instead of the time.                      *)
MarkUsedByUser(w) ==
  /\ work[w] # None /\ work[w].at = "mark"
  /\ backup_code' = [backup_code EXCEPT ![work[w].code] = work[w].user]
  /\ work' = [work EXCEPT ![w].at = "audit"]
  /\ UNCHANGED <<audit, uses, logins, limiterVars>>

MarkUsed(w) ==
  /\ work[w] # None /\ work[w].at = "mark"
  /\ backup_code' = [backup_code EXCEPT ![work[w].code] = "used"]
  /\ work' = [work EXCEPT ![w].at = "audit"]
  /\ UNCHANGED <<audit, uses, logins, limiterVars>>

(* Mutant: the audit row is added and not committed.                       *)
AuditVerifyUncommitted(w) ==
  /\ work[w] # None /\ work[w].at = "audit"
  /\ work' = [work EXCEPT ![w].at = "answer"]
  /\ UNCHANGED <<backup_code, audit, uses, logins, limiterVars>>

AuditVerify(w) ==
  /\ work[w] # None /\ work[w].at = "audit"
  /\ audit' = [audit EXCEPT ![work[w].user] = @ + 1]
  /\ work' = [work EXCEPT ![w].at = "answer"]
  /\ UNCHANGED <<backup_code, uses, logins, limiterVars>>

Redeem(w) ==
  /\ work[w] # None /\ work[w].at = "answer"
  /\ uses' = [uses EXCEPT ![work[w].code] = @ + 1]
  /\ logins' = [logins EXCEPT ![work[w].user] = @ + 1]
  /\ work' = [work EXCEPT ![w] = None]
  /\ UNCHANGED <<backup_code, audit, limiterVars>>

(* The handler fails, or its reply is lost.                                *)
Crash(w) == /\ work[w] # None
            /\ work' = [work EXCEPT ![w] = None]
            /\ UNCHANGED <<backup_code, audit, uses, logins, limiterVars>>

(* The worker is killed, and another takes its place.                      *)
Kill(w) == /\ Forget(w)
           /\ work' = [work EXCEPT ![w] = None]
           /\ UNCHANGED <<backup_code, audit, uses, logins>>

Time == Elapse /\ UNCHANGED <<backup_code, work, audit, uses, logins>>

Next == \/ Time
        \/ \E u \in Users : Register(u)
        \/ \E w \in Workers :
             \/ \E u \in Users, c \in Codes : Match(w, u, c)
             \/ MarkUsed(w)
             \/ AuditVerify(w)
             \/ Redeem(w)
             \/ Crash(w)
             \/ Kill(w)
             \/ NoMatch(w)

Spec == Init /\ [][Next]_vars

-----------------------------------------------------------------------------
(* Every variable keeps its shape.                                          *)
TypeOK ==
  /\ backup_code \in [Codes -> {None, "unused", "used"}]
  /\ work \in [Workers -> Work \cup {None}]
  /\ audit \in [Users -> Nat]
  /\ uses \in [Codes -> Nat]
  /\ logins \in [Users -> Nat]
  /\ LimiterTypeOK

(* A backup code is a one-time token: a request that selects after the row  *)
(* is marked finds nothing (backup.py:66).                                  *)
Status(c) == CASE backup_code[c] = None -> "absent"
               [] backup_code[c] = "unused" -> "live"
               [] OTHER -> "gone"

OT == INSTANCE OneTime WITH Tokens <- Codes,
        status <- [c \in Codes |-> Status(c)],
        holders <- [c \in Codes |-> {w \in Workers : work[w] # None /\ work[w].code = c}],
        uses <- uses

OneTimeCodes == OT!Spec

(* No login by backup code goes unaudited: with workers dying anywhere, a   *)
(* user's logins never outnumber his audit rows (backup.py:89-93).          *)
LoginsAudited == \A u \in Users : logins[u] <= audit[u]
=============================================================================
