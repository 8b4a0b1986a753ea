-------------------------- MODULE Installation_proofs --------------------------
(***************************************************************************)
(* What the installer and the migrations it runs leave behind, however     *)
(* often they fail, are killed and are tried again: first Provisioning,    *)
(* for any number of CA names and generated keys, then SchemaUpgrade, for  *)
(* any number of processes and tables.                                     *)
(***************************************************************************)
EXTENDS Provisioning, SchemaUpgrade, TLAPS

-----------------------------------------------------------------------------
(* Provisioning.  Each conjunct says what the steps of a run that are past  *)
(* have left, as a run starts from its first step whatever failed before.   *)

(* From WriteConfigs on, the configuration has the key the operator chose;  *)
(* from InitKeys on, the signing key is encrypted under it.                 *)
Configured ==
  /\ pc \in (Steps \cup {"done"}) \ {"config"} => config = chosen
  /\ pc \in {"ca", "add_ca", "client", "cert", "done"} => signing = config

(* A secret is in the InstallConfig only while the summary shows it.        *)
SecretShown == pc # "done" => shown = 0

(* A run that has registered its CA has done so under an active name.       *)
CARegistered ==
  cfg.method \in PKI_CA_METHODS =>
    /\ pc \in {"add_ca", "client", "cert", "done"} => CACert # None
    /\ (pc \in {"client", "cert", "done"} /\ ~skipped) =>
         ca[cfg.name] = [cert |-> CACert, active |-> TRUE]

(* The steps a method has, and what the last of them leaves.                *)
CertIssued ==
  /\ pc \in {"ca", "add_ca"} => cfg.method \in PKI_CA_METHODS
  /\ pc = "cert" => cfg.method = "tls_client_auth"
  /\ (pc = "done" /\ cfg.method = "tls_client_auth") =>
       issued # None /\ issued.key = caFile.key

(* A renewal goes on only with a key and a certificate that fit.            *)
RenewalInStep ==
  /\ pc \in {"renew_add", "renew_revoke"} =>
       renewing # None /\ caFile.key # None /\ caFile.cert = caFile.key
  /\ (pc = "renew_revoke" /\ ~skipped) =>
       ca[renewing.new] = [cert |-> caFile.key, active |-> TRUE]

IInv == /\ TypeOK
        /\ Configured
        /\ SecretShown
        /\ ShownSecretStored
        /\ CARegistered
        /\ CertIssued
        /\ RenewalInStep

-----------------------------------------------------------------------------
LEMMA Values ==
  /\ None \notin Cert /\ None \notin ClientRow /\ None \notin CARow
  /\ None \notin ClientCert /\ None \notin Renewal
  /\ MaxMade \in Nat /\ 0 \in Generated
BY NoRowAssumption, MaxMadeAssumption DEF Generated

LEMMA Rows ==
  ASSUME TypeOK
  PROVE  /\ cfg.method \in ALL_AUTH_METHODS /\ cfg.name \in CANames
         /\ cfg.action \in {"generate", "import"}
         /\ caFile.key \in Cert \cup {None} /\ caFile.cert \in Cert \cup {None}
         /\ CACert \in Cert \cup {None}
         /\ client # None => client \in ClientRow
         /\ renewing # None => renewing.old \in CANames /\ renewing.new \in CANames
         /\ \A n \in CANames : ca[n] # None => ca[n] \in CARow
BY DEF TypeOK, Choices, CACert, Cert, Renewal

LEMMA RegisteredRows ==
  ASSUME TypeOK, NEW n \in CANames, NEW c \in Cert
  PROVE  /\ Registered(n, c) \in [CANames -> CARow \cup {None}]
         /\ ca[n] = None => Registered(n, c)[n] = [cert |-> c, active |-> TRUE]
BY DEF Registered, TypeOK, CARow

LEMMA RevokedRows ==
  ASSUME TypeOK, NEW n \in CANames
  PROVE  /\ Revoked(n) \in [CANames -> CARow \cup {None}]
         /\ \A m \in CANames : m # n => Revoked(n)[m] = ca[m]
<1>1. CASE ca[n] = None
  BY <1>1 DEF Revoked, TypeOK
<1>2. CASE ca[n] # None
  <2>1. [ca[n] EXCEPT !.active = FALSE] \in CARow
    BY <1>2, Rows DEF CARow
  <2> QED
    BY <1>2, <2>1 DEF Revoked, TypeOK
<1> QED
  BY <1>1, <1>2

LEMMA UpdatedClientRow ==
  ASSUME TypeOK, NEW s \in Generated
  PROVE  /\ UpdatedClient(s) \in ClientRow
         /\ UpdatedClient(s).method = cfg.method
         /\ s # 0 => UpdatedClient(s).secret = s /\ UpdatedClient(s).enc = config
<1>1. CASE client = None
  BY <1>1, Rows DEF UpdatedClient, TypeOK, ClientRow
<1>2. CASE client # None
  <2>1. client \in ClientRow /\ cfg.method \in ALL_AUTH_METHODS /\ config \in Generated
    BY <1>2, Rows DEF TypeOK
  <2> QED
    BY <1>2, <2>1 DEF UpdatedClient, ClientRow
<1> QED
  BY <1>1, <1>2

-----------------------------------------------------------------------------
LEMMA InitIInv == Init => IInv
<1> SUFFICES ASSUME Init PROVE IInv
  OBVIOUS
<1>1. {0, 1} \subseteq Generated
  BY MaxMadeAssumption DEF Generated
<1>2. TypeOK
  BY <1>1 DEF Init, TypeOK, Choices, Screens, Cert
<1> QED
  BY <1>2 DEF Init, IInv, Configured, SecretShown, ShownSecretStored, CARegistered, CertIssued,
              RenewalInStep, Steps

(* A number that is generated is a new one, within the bound.               *)
LEMMA NextMade ==
  ASSUME TypeOK, made < MaxMade
  PROVE  made + 1 \in Generated /\ made + 1 # 0
BY MaxMadeAssumption DEF TypeOK, Generated

LEMMA NextTypeOK == IInv /\ [Next]_vars => TypeOK'
<1> SUFFICES ASSUME IInv, [Next]_vars PROVE TypeOK'
  OBVIOUS
<1>0. TypeOK
  BY DEF IInv
<1> USE <1>0 DEF Steps, Screens
<1>1. ASSUME NEW c \in Choices, Choose(c)
      PROVE  TypeOK'
  BY <1>1 DEF Choose, TypeOK
<1>2. CASE Regenerate
  BY <1>2, NextMade DEF Regenerate, TypeOK
<1>3. CASE Run \/ Leave \/ Fail
  BY <1>3, Values DEF Run, Leave, Fail, TypeOK
<1>4. CASE WriteConfigs \/ InitKeys
  BY <1>4 DEF WriteConfigs, InitKeys, Proceed, AfterKeys, TypeOK
<1>5. CASE GenerateCA
  <2>1. made + 1 \in Generated /\ made + 1 \in Cert
    BY <1>5, NextMade DEF GenerateCA, Cert
  <2> QED
    BY <1>5, <2>1 DEF GenerateCA, Proceed, TypeOK
<1>6. CASE UseExistingCA
  BY <1>6 DEF UseExistingCA, TypeOK
<1>7. CASE AddCA
  <2>1. CACert \in Cert /\ cfg.name \in CANames
    BY <1>7, Rows DEF AddCA, IInv, CARegistered, CertIssued
  <2> QED
    BY <1>7, <2>1, RegisteredRows DEF AddCA, Proceed, TypeOK
<1>8. CASE AddClient
  <2> DEFINE secret == IF cfg.method \in SECRET_METHODS THEN made + 1 ELSE 0
  <2>1. secret \in Generated /\ made' \in Generated /\ shown' \in Generated
    BY <1>8, Values DEF AddClient, TypeOK, Generated
  <2>2. client' \in ClientRow
    BY <1>8, <2>1, UpdatedClientRow DEF AddClient
  <2>3. pc' \in Steps \cup Screens
    BY <1>8 DEF AddClient, Proceed
  <2> QED
    BY <1>8, <2>1, <2>2, <2>3 DEF AddClient, TypeOK
<1>9. CASE IssueCert
  <2>1. CACert \in Cert /\ caFile.key \in Cert
    BY <1>9, Rows DEF IssueCert, IInv, CARegistered, CertIssued, PKI_CA_METHODS
  <2>2. issued' \in ClientCert
    BY <1>9, <2>1 DEF IssueCert, ClientCert
  <2> QED
    BY <1>9, <2>2 DEF IssueCert, Proceed, TypeOK
<1>10. ASSUME NEW n \in CANames, NEW c \in {Imported, caFile.cert}, RegisterCA(n, c)
       PROVE  TypeOK'
  <2>1. c \in Cert
    BY <1>10, Rows DEF RegisterCA, Cert
  <2> QED
    BY <1>10, <2>1, RegisteredRows DEF RegisterCA, TypeOK
<1>11. ASSUME NEW old \in CANames, NEW new \in CANames, RenewGenerates(old, new)
       PROVE  TypeOK'
  <2>1. made + 1 \in Generated /\ made + 1 \in Cert
    BY <1>11, NextMade DEF RenewGenerates, Cert
  <2> QED
    BY <1>11, <2>1 DEF RenewGenerates, Renewal, TypeOK
<1>12. CASE RenewAdds
  <2>1. caFile.cert \in Cert /\ renewing.new \in CANames
    BY <1>12, Rows DEF RenewAdds, IInv, RenewalInStep
  <2>2. ca' \in [CANames -> CARow \cup {None}]
    <3>1. Registered(renewing.new, caFile.cert) \in [CANames -> CARow \cup {None}]
      BY <2>1, RegisteredRows
    <3>2. ca' \in {ca, Registered(renewing.new, caFile.cert)}
      BY <1>12 DEF RenewAdds
    <3> QED
      BY <3>1, <3>2 DEF TypeOK
  <2>3. pc' \in Steps \cup Screens /\ renewing' \in Renewal \cup {None}
    <3>1. pc' \in {"renew_revoke", "wizard"}
      BY <1>12 DEF RenewAdds
    <3>2. renewing' \in {None, renewing}
      BY <1>12 DEF RenewAdds
    <3> QED
      BY <3>1, <3>2 DEF TypeOK
  <2>4. skipped' \in BOOLEAN
    BY <1>12 DEF RenewAdds
  <2> QED
    BY <1>12, <2>2, <2>3, <2>4 DEF RenewAdds, TypeOK
<1>13. CASE RenewRevokes
  <2>1. renewing.old \in CANames
    BY <1>13, Rows DEF RenewRevokes, IInv, RenewalInStep
  <2>2. ca' \in [CANames -> CARow \cup {None}]
    BY <1>13, <2>1, RevokedRows DEF RenewRevokes, TypeOK
  <2> QED
    BY <1>13, <2>2 DEF RenewRevokes, TypeOK
<1>14. ASSUME NEW n \in CANames, RevokeCA(n)
       PROVE  TypeOK'
  BY <1>14, RevokedRows DEF RevokeCA, TypeOK
<1>15. ASSUME NEW n \in CANames, NEW k \in {Imported, caFile.key}, IssueClientCert(n, k)
       PROVE  TypeOK'
  <2>1. k \in Cert /\ ca[n].cert \in Cert
    BY <1>15, Rows DEF IssueClientCert, Cert, CARow
  <2> QED
    BY <1>15, <2>1 DEF IssueClientCert, ClientCert, TypeOK
<1>16. CASE RevokeClient
  BY <1>16, Rows DEF RevokeClient, ClientRow, TypeOK
<1>17. CASE RotateClientSecret
  <2>1. client' \in ClientRow
    BY <1>17, Rows, NextMade DEF RotateClientSecret, ClientRow, TypeOK
  <2> QED
    BY <1>17, <2>1, NextMade DEF RotateClientSecret, TypeOK
<1>18. CASE UNCHANGED vars
  BY <1>18 DEF vars, TypeOK
<1> QED
  BY <1>1, <1>2, <1>3, <1>4, <1>5, <1>6, <1>7, <1>8, <1>9, <1>10, <1>11, <1>12, <1>13,
     <1>14, <1>15, <1>16, <1>17, <1>18 DEF Next

LEMMA NextKeys == IInv /\ [Next]_vars => Configured' /\ SecretShown' /\ ShownSecretStored'
<1> SUFFICES ASSUME IInv, [Next]_vars
    PROVE  Configured' /\ SecretShown' /\ ShownSecretStored'
  OBVIOUS
<1> USE DEF IInv, Configured, SecretShown, ShownSecretStored, Steps
<1>1. CASE Run \/ Leave \/ Fail \/ Regenerate
  BY <1>1 DEF Run, Leave, Fail, Regenerate
<1>2. CASE WriteConfigs \/ InitKeys \/ GenerateCA \/ UseExistingCA \/ AddCA
  BY <1>2 DEF WriteConfigs, InitKeys, GenerateCA, UseExistingCA, AddCA, Proceed, AfterKeys
<1>3. CASE AddClient
  <2> DEFINE secret == IF cfg.method \in SECRET_METHODS THEN made + 1 ELSE 0
  <2>1. secret \in Generated
    BY <1>3, Values DEF AddClient, TypeOK, Generated
  <2>2. pc' = "done" => shown' = secret
    BY <1>3 DEF AddClient
  <2>3. shown' # 0 => /\ secret # 0 /\ shown' = secret
                      /\ client'.method = cfg.method
                      /\ client'.secret = secret /\ client'.enc = config
    BY <1>3, <2>1, UpdatedClientRow DEF AddClient
  <2>4. cfg.method \in SECRET_METHODS => cfg.method # "tls_client_auth"
    BY DEF SECRET_METHODS
  <2> QED
    BY <1>3, <2>2, <2>3, <2>4 DEF AddClient, Proceed
<1>4. CASE IssueCert
  BY <1>4 DEF IssueCert, Proceed
<1>5. CASE /\ pc \notin Steps \cup {"done"}
           /\ pc' \notin Steps \cup {"done"}
           /\ shown' = shown
  BY <1>5
<1>6. CASE UNCHANGED vars
  BY <1>6 DEF vars
<1> QED
  BY <1>1, <1>2, <1>3, <1>4, <1>5, <1>6
     DEF Next, Choose, RegisterCA, RenewGenerates, RenewAdds, RenewRevokes, RevokeCA,
         IssueClientCert, RevokeClient, RotateClientSecret

(* A run changes cfg in none of its steps, and the CA key, the certificate  *)
(* and the table only before it goes on.                                    *)
LEMMA NextCA == IInv /\ [Next]_vars => CARegistered' /\ CertIssued'
<1> SUFFICES ASSUME IInv, [Next]_vars
    PROVE  CARegistered' /\ CertIssued'
  OBVIOUS
<1> DEFINE CASteps == {"ca", "add_ca", "client", "cert", "done"}
<1> USE DEF IInv, CARegistered, CertIssued
<1>1. CASE pc' \notin CASteps
  BY <1>1
<1>2. CASE InitKeys
  BY <1>2 DEF InitKeys, Proceed, AfterKeys
<1>3. CASE GenerateCA
  BY <1>3, Values, NextMade DEF GenerateCA, Proceed, CACert, Cert
<1>4. CASE UseExistingCA
  BY <1>4, Values DEF UseExistingCA, CACert, Cert
<1>5. CASE AddCA
  <2>1. CACert # None /\ CACert \in Cert /\ cfg.name \in CANames
    BY <1>5, Rows DEF AddCA
  <2>2. ~skipped' => ca'[cfg.name] = [cert |-> CACert, active |-> TRUE]
    BY <1>5, <2>1, RegisteredRows DEF AddCA
  <2>3. CACert' = CACert /\ cfg' = cfg
    BY <1>5 DEF AddCA, CACert
  <2> QED
    BY <1>5, <2>1, <2>2, <2>3 DEF AddCA, Proceed
<1>6. CASE AddClient
  <2>1. CACert' = CACert /\ cfg' = cfg
    BY <1>6 DEF AddClient, CACert
  <2>2. pc = "client" /\ pc' \in {"cert", "done", "failed"}
    BY <1>6 DEF AddClient, Proceed
  <2>3. pc' = "cert" <=> (cfg.method = "tls_client_auth" /\ pc' # "failed")
    BY <1>6 DEF AddClient, Proceed
  <2> QED
    BY <1>6, <2>1, <2>2, <2>3 DEF AddClient
<1>7. CASE IssueCert
  <2>1. CACert' = CACert /\ cfg' = cfg
    BY <1>7 DEF IssueCert, CACert
  <2>2. issued' # None /\ issued'.key = caFile'.key
    BY <1>7, Rows, Values DEF IssueCert, ClientCert, PKI_CA_METHODS
  <2> QED
    BY <1>7, <2>1, <2>2 DEF IssueCert, Proceed
<1>8. CASE UNCHANGED vars
  BY <1>8 DEF vars, CACert
<1> QED
  BY <1>1, <1>2, <1>3, <1>4, <1>5, <1>6, <1>7, <1>8
     DEF Next, Choose, Regenerate, Run, Leave, Fail, WriteConfigs, Proceed, RegisterCA,
         RenewGenerates, RenewAdds, RenewRevokes, RevokeCA, IssueClientCert,
         RevokeClient, RotateClientSecret

LEMMA NextRenewal == IInv /\ [Next]_vars => RenewalInStep'
<1> SUFFICES ASSUME IInv, [Next]_vars
    PROVE  RenewalInStep'
  OBVIOUS
<1> USE DEF IInv, RenewalInStep
<1>1. CASE pc' \notin {"renew_add", "renew_revoke"}
  BY <1>1
<1>2. ASSUME NEW old \in CANames, NEW new \in CANames, RenewGenerates(old, new)
      PROVE  RenewalInStep'
  <2>1. made + 1 \in Cert /\ [old |-> old, new |-> new] \in Renewal
    BY <1>2, NextMade DEF RenewGenerates, Cert, Renewal
  <2> QED
    BY <1>2, <2>1, Values DEF RenewGenerates, TypeOK
<1>3. CASE RenewAdds /\ pc' = "renew_revoke"
  <2>1. caFile.cert \in Cert /\ renewing.new \in CANames
    BY <1>3, Rows DEF RenewAdds
  <2> QED
    BY <1>3, <2>1, RegisteredRows DEF RenewAdds
<1>4. CASE UNCHANGED vars
  BY <1>4 DEF vars
<1> QED
  BY <1>1, <1>2, <1>3, <1>4, AfterKeys \in {"ca", "client"}
     DEF Next, Choose, Regenerate, Run, Leave, Fail, WriteConfigs, InitKeys, GenerateCA,
         UseExistingCA, AddCA, AddClient, IssueCert, Proceed, AfterKeys, RegisterCA,
         RenewAdds, RenewRevokes, RevokeCA, IssueClientCert, RevokeClient,
         RotateClientSecret

LEMMA NextIInv == IInv /\ [Next]_vars => IInv'
BY NextTypeOK, NextKeys, NextCA, NextRenewal DEF IInv

LEMMA Invariance == Spec => []IInv
BY InitIInv, NextIInv, PTL DEF Spec

-----------------------------------------------------------------------------
(* The files, the rows and the installer's state keep their shapes: no row  *)
(* and no client certificate is made of a key or certificate that is not    *)
(* there (execute.py:266, ca_manage.py:210).                                *)
THEOREM TypeCorrect == Spec => []TypeOK
<1>1. IInv => TypeOK
  BY DEF IInv
<1> QED
  BY <1>1, Invariance, PTL

(* An installation that completes can decrypt its active signing key,       *)
(* however many runs failed and however often the operator replaced the     *)
(* SECRET_KEY between them (execute.py:170, cli.py:144).                    *)
THEOREM SigningKeyIsReadable == Spec => []SigningKeyReadable
<1>1. IInv => SigningKeyReadable
  BY DEF IInv, Configured, SigningKeyReadable, Steps
<1> QED
  BY <1>1, Invariance, PTL

(* No secret is shown but the one that is stored (execute.py:239).          *)
THEOREM ShownIsStored == Spec => []ShownSecretStored
<1>1. IInv => ShownSecretStored
  BY DEF IInv
<1> QED
  BY <1>1, Invariance, PTL

(* The certificate issued under a CA that the run has registered is trusted *)
(* (execute.py:252).                                                        *)
THEOREM RegisteredCAIsTrusted == Spec => []FreshCAIsTrusted
<1>1. IInv => FreshCAIsTrusted
  <2> SUFFICES ASSUME IInv, pc = "done", cfg.method = "tls_client_auth",
                      caFile.key = CACert, ~skipped
               PROVE  Trusted(issued)
    BY DEF FreshCAIsTrusted
  <2>1. ca[cfg.name] = [cert |-> CACert, active |-> TRUE] /\ issued.key = CACert
    BY DEF IInv, CARegistered, CertIssued, PKI_CA_METHODS
  <2>2. CACert \in Cert /\ cfg.name \in CANames
    BY Rows DEF IInv, CARegistered, PKI_CA_METHODS
  <2>3. [cert |-> CACert, active |-> TRUE] \in CARow
    BY <2>2 DEF CARow
  <2> QED
    BY <2>1, <2>2, <2>3, Values DEF Trusted
<1> QED
  BY <1>1, Invariance, PTL

(* Revoking the old CA, or failing to, leaves the new one trusted: the      *)
(* names differ (ca_manage.py:210).                                         *)
THEOREM RenewalsKeepTrust == Spec => RenewalKeepsTrust
<1>1. ASSUME IInv, [Next]_vars, pc = "renew_revoke", ~skipped,
             renewing.old # renewing.new
      PROVE  Trusted([key |-> caFile.key])'
  <2>1. /\ ca[renewing.new] = [cert |-> caFile.key, active |-> TRUE]
        /\ renewing.old \in CANames /\ renewing.new \in CANames
    BY <1>1, Rows DEF IInv, RenewalInStep
  <2>2. RenewRevokes \/ UNCHANGED vars
    BY <1>1 DEF Next, Choose, Regenerate, Run, Leave, Fail, WriteConfigs, InitKeys,
         GenerateCA, UseExistingCA, AddCA, AddClient, IssueCert, RegisterCA, Steps,
         RenewGenerates, RenewAdds, RevokeCA, IssueClientCert, RevokeClient,
         RotateClientSecret
  <2>3. ca'[renewing.new] = ca[renewing.new] /\ caFile' = caFile
    BY <1>1, <2>1, <2>2, RevokedRows DEF RenewRevokes, vars, IInv
  <2>4. caFile.key \in Cert
    BY <1>1, Rows DEF IInv, RenewalInStep
  <2>5. [cert |-> caFile.key, active |-> TRUE] \in CARow
    BY <2>4 DEF CARow
  <2> QED
    BY <2>1, <2>3, <2>5, Values DEF Trusted
<1> QED
  BY <1>1, Invariance, PTL DEF Spec, RenewalKeepsTrust

-----------------------------------------------------------------------------
(* SchemaUpgrade.  The table that a creating process is at says how many    *)
(* there are, so a second process finds the first table and stops; a table  *)
(* count that is neither zero nor full has a creator, unless it was cut     *)
(* short where DDL is not rolled back.                                      *)

Creating(p) == At(p, "create") /\ proc[p].table > 1

(* Only where every CREATE TABLE takes effect at once are tables created   *)
(* one by one.                                                             *)
OneByOne == \A p \in Processes :
  proc[p].at \in {"create", "record"} => ~transactional

(* A process that has not begun to create begins with the first table.     *)
FromTheFirst == \A p \in Processes :
  proc[p].at \in {"inspect", "stamp_first", "upgrade", "transact"} => proc[p].table = 1

(* The tables there are, are those before the one its creator is at.       *)
InStep == \A p \in Processes : Creating(p) => created = proc[p].table - 1

(* Nothing is stamped or recorded where there is no table.                 *)
StampsFollowTables ==
  /\ \A p \in Processes : proc[p].at \in {"stamp_first", "stamp", "record"} => created > 0
  /\ head => created > 0

(* A table count between zero and full has a creator at work.              *)
Unfinished ==
  transactional \/ ~interrupted =>
    \/ created \in {0, NumTables}
    \/ \E p \in Processes : Creating(p)

Orderly == /\ OneByOne
           /\ FromTheFirst
           /\ InStep
           /\ SoleCreator
           /\ StampsFollowTables
           /\ Unfinished

SchemaIInv == SchemaTypeOK /\ Orderly

-----------------------------------------------------------------------------
LEMMA SchemaInitIInv == SchemaInit => SchemaIInv
<1> SUFFICES ASSUME SchemaInit PROVE SchemaIInv
  OBVIOUS
<1>1. created \in 0 .. NumTables /\ 1 \in 1 .. NumTables
  BY NumTablesAssumption DEF SchemaInit
<1>2. \A p \in Processes : proc[p] = [at |-> "ok", table |-> 1]
  BY DEF SchemaInit
<1>3. [at |-> "ok", table |-> 1] \in [at : Running \cup Ended, table : 1 .. NumTables]
  BY <1>1 DEF Ended
<1>4. SchemaTypeOK
  BY <1>1, <1>3 DEF SchemaInit, SchemaTypeOK
<1>5. Orderly
  BY <1>2 DEF SchemaInit, Orderly, OneByOne, FromTheFirst, InStep, SoleCreator,
              StampsFollowTables, Unfinished, Creating, At
<1> QED
  BY <1>4, <1>5 DEF SchemaIInv

(* What Goto does: process p is elsewhere, at the same table.              *)
LEMMA GotoMoves ==
  ASSUME SchemaTypeOK, NEW p \in Processes, NEW at \in Running \cup Ended, Goto(p, at)
  PROVE  /\ proc'[p].at = at /\ proc'[p].table = proc[p].table
         /\ \A q \in Processes \ {p} : proc'[q] = proc[q]
         /\ proc' \in [Processes -> [at : Running \cup Ended, table : 1 .. NumTables]]
         /\ proc[p].table \in 1 .. NumTables
BY DEF Goto, SchemaTypeOK

LEMMA SchemaNextTypeOK == SchemaTypeOK /\ [SchemaNext]_schemaVars => SchemaTypeOK'
<1> SUFFICES ASSUME SchemaTypeOK, [SchemaNext]_schemaVars PROVE SchemaTypeOK'
  OBVIOUS
<1> DEFINE Proc == [at : Running \cup Ended, table : 1 .. NumTables]
<1>g. ASSUME NEW p \in Processes, NEW at \in Running \cup Ended, Goto(p, at)
      PROVE  proc' \in [Processes -> Proc]
  BY <1>g, GotoMoves
<1>n. NumTables \in 0 .. NumTables /\ 1 \in 1 .. NumTables
  BY NumTablesAssumption
<1> USE DEF SchemaTypeOK
<1>1. ASSUME NEW p \in Processes, Start(p) PROVE SchemaTypeOK'
  BY <1>1, <1>n DEF Start, Running
<1>2. ASSUME NEW p \in Processes, Inspect(p) PROVE SchemaTypeOK'
  BY <1>2, <1>g DEF Inspect, Running
<1>3. ASSUME NEW p \in Processes, Stamp(p) PROVE SchemaTypeOK'
  BY <1>3, <1>g DEF Stamp, Running, Ended
<1>4. ASSUME NEW p \in Processes, NothingToDo(p) PROVE SchemaTypeOK'
  BY <1>4, <1>g DEF NothingToDo, Ended
<1>5. ASSUME NEW p \in Processes, BeginTransaction(p) PROVE SchemaTypeOK'
  BY <1>5, <1>g DEF BeginTransaction, Running
<1>6. ASSUME NEW p \in Processes, UpgradeInTransaction(p) PROVE SchemaTypeOK'
  <2>1. proc' \in [Processes -> Proc]
    BY <1>6, <1>g DEF UpgradeInTransaction, Running, Ended
  <2> QED
    BY <1>6, <2>1, <1>n DEF UpgradeInTransaction
<1>7. ASSUME NEW p \in Processes, EnsureVersionTable(p) PROVE SchemaTypeOK'
  BY <1>7, <1>g DEF EnsureVersionTable, Running
<1>8. ASSUME NEW p \in Processes, CreateTable(p) PROVE SchemaTypeOK'
  <2> DEFINE t == proc[p].table
  <2>1. CASE created >= t
    BY <1>8, <2>1, <1>g DEF CreateTable, Running
  <2>2. CASE ~(created >= t)
    <3>1. t \in 1 .. NumTables
      OBVIOUS
    <3>2. (IF t = NumTables THEN t ELSE t + 1) \in 1 .. NumTables
      BY <3>1, NumTablesAssumption
    <3>3. [at |-> IF t = NumTables THEN "record" ELSE "create",
           table |-> IF t = NumTables THEN t ELSE t + 1] \in Proc
      BY <3>2 DEF Running
    <3>4. t \in 0 .. NumTables
      BY <3>1, NumTablesAssumption
    <3> QED
      BY <1>8, <2>2, <3>3, <3>4 DEF CreateTable
  <2> QED
    BY <2>1, <2>2
<1>9. ASSUME NEW p \in Processes, RecordVersion(p) PROVE SchemaTypeOK'
  BY <1>9, <1>g DEF RecordVersion, Ended
<1>10. ASSUME NEW p \in Processes, Interrupt(p) PROVE SchemaTypeOK'
  BY <1>10, <1>g DEF Interrupt, Ended
<1>11. CASE UNCHANGED schemaVars
  BY <1>11 DEF schemaVars
<1> QED
  BY <1>1, <1>2, <1>3, <1>4, <1>5, <1>6, <1>7, <1>8, <1>9, <1>10, <1>11 DEF SchemaNext

-----------------------------------------------------------------------------
(* A process that is not creating moves on, to anything but creating: all   *)
(* that matters is where it may stamp, record or begin.                     *)
LEMMA MoveIsOrderly ==
  ASSUME SchemaIInv, NEW p \in Processes,
         ~Creating(p) \/ created = NumTables,
         \A q \in Processes \ {p} : proc'[q] = proc[q],
         proc'[p].at \notin {"create", "record"},
         proc'[p].at \in {"inspect", "stamp_first", "upgrade", "transact"} =>
           proc'[p].table = 1,
         proc'[p].at \in {"stamp_first", "stamp"} \/ head' => created > 0,
         created' = created, transactional' = transactional, interrupted' = interrupted
  PROVE  Orderly'
<1> USE DEF SchemaIInv, Orderly, At, Creating
<1>1. OneByOne'
  BY DEF OneByOne
<1>2. FromTheFirst'
  BY DEF FromTheFirst
<1>3. InStep'
  BY DEF InStep
<1>4. SoleCreator'
  BY DEF SoleCreator
<1>5. StampsFollowTables'
  BY DEF StampsFollowTables
<1>6. Unfinished'
  BY DEF Unfinished
<1> QED
  BY <1>1, <1>2, <1>3, <1>4, <1>5, <1>6

LEMMA StartIsOrderly ==
  ASSUME SchemaIInv, NEW p \in Processes, Start(p)
  PROVE  Orderly'
<1>1. ~Creating(p)
  BY DEF Start, Creating, At, Ended
<1>2. /\ proc'[p] = [at |-> "inspect", table |-> 1]
      /\ \A q \in Processes \ {p} : proc'[q] = proc[q]
  BY DEF Start, SchemaIInv, SchemaTypeOK
<1>3. /\ UNCHANGED <<transactional, created, head, interrupted>>
  BY DEF Start
<1>4. head' => created > 0
  BY <1>3 DEF SchemaIInv, Orderly, StampsFollowTables
<1> QED
  BY <1>1, <1>2, <1>3, <1>4, MoveIsOrderly

LEMMA InspectIsOrderly ==
  ASSUME SchemaIInv, NEW p \in Processes, Inspect(p)
  PROVE  Orderly'
<1> DEFINE at == IF created > 0 /\ ~versioned THEN "stamp_first" ELSE "upgrade"
<1>1. ~Creating(p) /\ proc[p].table = 1
  BY DEF Inspect, Creating, At, SchemaIInv, Orderly, FromTheFirst
<1>2. at \in Running \cup Ended
  BY DEF Running
<1>3. /\ proc'[p].at = at /\ proc'[p].table = 1
      /\ \A q \in Processes \ {p} : proc'[q] = proc[q]
  BY <1>1, <1>2, GotoMoves DEF Inspect, SchemaIInv
<1>4. proc'[p].at \in {"stamp_first", "stamp"} \/ head' => created > 0
  BY <1>3 DEF Inspect, SchemaIInv, Orderly, StampsFollowTables
<1> QED
  BY <1>1, <1>3, <1>4, MoveIsOrderly DEF Inspect

LEMMA StampIsOrderly ==
  ASSUME SchemaIInv, NEW p \in Processes, Stamp(p)
  PROVE  Orderly'
<1> DEFINE at == IF At(p, "stamp") THEN "ok" ELSE "upgrade"
<1>1. ~Creating(p) /\ created > 0
  BY DEF Stamp, Creating, At, SchemaIInv, Orderly, StampsFollowTables
<1>2. at \in Running \cup Ended
  BY DEF Running, Ended
<1>3. /\ proc'[p].at = at /\ proc'[p].table = proc[p].table
      /\ \A q \in Processes \ {p} : proc'[q] = proc[q]
  BY <1>2, GotoMoves DEF Stamp, SchemaIInv
<1>4. at = "upgrade" => proc[p].table = 1
  BY DEF Stamp, At, SchemaIInv, Orderly, FromTheFirst
<1> QED
  BY <1>1, <1>3, <1>4, MoveIsOrderly DEF Stamp

(* The upgrade finds nothing to do, or opens its transaction.              *)
LEMMA UpgradeIsOrderly ==
  ASSUME SchemaIInv, NEW p \in Processes, NothingToDo(p) \/ BeginTransaction(p)
  PROVE  Orderly'
<1>1. ~Creating(p) /\ proc[p].table = 1
  BY DEF NothingToDo, BeginTransaction, Creating, At, SchemaIInv, Orderly, FromTheFirst
<1>2. PICK at \in {"ok", "transact"} : Goto(p, at)
  BY DEF NothingToDo, BeginTransaction
<1>3. /\ proc'[p].at = at /\ proc'[p].table = 1
      /\ \A q \in Processes \ {p} : proc'[q] = proc[q]
  BY <1>1, <1>2, GotoMoves DEF Running, Ended, SchemaIInv
<1>4. head' => created > 0
  BY DEF NothingToDo, BeginTransaction, SchemaIInv, Orderly, StampsFollowTables
<1> QED
  BY <1>1, <1>3, <1>4, MoveIsOrderly DEF NothingToDo, BeginTransaction

(* A transaction creates every table or none.                              *)
LEMMA TransactIsOrderly ==
  ASSUME SchemaIInv, NEW p \in Processes, UpgradeInTransaction(p)
  PROVE  Orderly'
<1>1. ~Creating(p)
  BY DEF UpgradeInTransaction, Creating, At
<1>2. CASE created > 0
  <2>1. /\ proc'[p].at = "stamp"
        /\ \A q \in Processes \ {p} : proc'[q] = proc[q]
    BY <1>2, GotoMoves DEF UpgradeInTransaction, Running, SchemaIInv
  <2> QED
    BY <1>1, <1>2, <2>1, MoveIsOrderly DEF UpgradeInTransaction
<1>3. CASE ~(created > 0)
  <2>1. /\ proc'[p].at = "ok"
        /\ \A q \in Processes \ {p} : proc'[q] = proc[q]
    BY <1>3, GotoMoves DEF UpgradeInTransaction, Ended, SchemaIInv
  <2>2. created' = NumTables /\ created' > 0 /\ transactional' = transactional
    BY <1>3, NumTablesAssumption DEF UpgradeInTransaction
  <2>3. \A q \in Processes : ~Creating(q)
    <3>1. SUFFICES ASSUME NEW q \in Processes, Creating(q) PROVE FALSE
      OBVIOUS
    <3>2. created = proc[q].table - 1 /\ proc[q].table > 1
      BY <3>1 DEF SchemaIInv, Orderly, InStep, Creating
    <3>3. proc[q].table \in Nat /\ created = 0
      BY <1>3, NumTablesAssumption DEF SchemaIInv, SchemaTypeOK
    <3> QED
      BY <3>2, <3>3
  <2>4. OneByOne' /\ FromTheFirst'
    BY <2>1, <2>2 DEF SchemaIInv, Orderly, OneByOne, FromTheFirst
  <2>5. InStep' /\ SoleCreator'
    BY <2>1, <2>3 DEF InStep, SoleCreator, Creating, At
  <2>6. StampsFollowTables' /\ Unfinished'
    BY <2>2 DEF StampsFollowTables, Unfinished
  <2> QED
    BY <2>4, <2>5, <2>6 DEF Orderly
<1> QED
  BY <1>2, <1>3

LEMMA EnsureIsOrderly ==
  ASSUME SchemaIInv, NEW p \in Processes, EnsureVersionTable(p)
  PROVE  Orderly'
<1>1. ~Creating(p) /\ proc[p].table = 1 /\ ~transactional
  BY DEF EnsureVersionTable, Creating, At, SchemaIInv, Orderly, FromTheFirst
<1>2. /\ proc'[p].at = "create" /\ proc'[p].table = 1
      /\ \A q \in Processes \ {p} : proc'[q] = proc[q]
  BY <1>1, GotoMoves DEF EnsureVersionTable, Running, SchemaIInv
<1>3. UNCHANGED <<transactional, created, head, interrupted>>
  BY DEF EnsureVersionTable
<1>4. \A q \in Processes : Creating(q)' <=> Creating(q)
  BY <1>1, <1>2 DEF Creating, At
<1> USE DEF SchemaIInv, Orderly
<1>5. OneByOne' /\ FromTheFirst'
  BY <1>1, <1>2, <1>3 DEF OneByOne, FromTheFirst
<1>6. InStep'
  BY <1>2, <1>3, <1>4 DEF InStep, Creating, At
<1>7. SoleCreator'
  BY <1>2, <1>4 DEF SoleCreator, Creating, At
<1>8. StampsFollowTables'
  BY <1>2, <1>3 DEF StampsFollowTables
<1>9. Unfinished'
  BY <1>3, <1>4 DEF Unfinished
<1> QED
  BY <1>5, <1>6, <1>7, <1>8, <1>9

(* The creator of the first table finds none, and so no other creator.     *)
LEMMA CreateIsOrderly ==
  ASSUME SchemaIInv, NEW p \in Processes, CreateTable(p)
  PROVE  Orderly'
<1> DEFINE t == proc[p].table
<1>t. /\ t \in 1 .. NumTables /\ created \in 0 .. NumTables
      /\ NumTables \in Nat \ {0} /\ ~transactional /\ At(p, "create")
  BY NumTablesAssumption DEF CreateTable, At, SchemaIInv, SchemaTypeOK, Orderly, OneByOne
<1>1. CASE created >= t
  <2>1. ~Creating(p)
    BY <1>1, <1>t DEF SchemaIInv, Orderly, InStep
  <2>2. /\ proc'[p].at = "stamp"
        /\ \A q \in Processes \ {p} : proc'[q] = proc[q]
    BY <1>1, GotoMoves DEF CreateTable, Running, SchemaIInv
  <2>3. created > 0
    BY <1>1, <1>t
  <2> QED
    BY <1>1, <2>1, <2>2, <2>3, MoveIsOrderly DEF CreateTable
<1>2. CASE ~(created >= t)
  <2>1. /\ created' = t
        /\ proc'[p] = [at |-> IF t = NumTables THEN "record" ELSE "create",
                       table |-> IF t = NumTables THEN t ELSE t + 1]
        /\ \A q \in Processes \ {p} : proc'[q] = proc[q]
        /\ UNCHANGED <<transactional, head, interrupted>>
    BY <1>2 DEF CreateTable, SchemaIInv, SchemaTypeOK
  <2>2. PICK u : u = t
    OBVIOUS
  <2>3. /\ proc'[p].at \in {"record", "create"}
        /\ u = NumTables <=> proc'[p].at = "record"
        /\ u # NumTables => proc'[p].table = u + 1
        /\ created' = u /\ u > 0 /\ u \in Nat
    BY <2>1, <2>2, <1>t
  <2>4. \A q \in Processes \ {p} : ~Creating(q)
    <3>1. SUFFICES ASSUME NEW q \in Processes \ {p}, Creating(q) PROVE FALSE
      OBVIOUS
    <3>2. ~Creating(p)
      BY <3>1 DEF SchemaIInv, Orderly, SoleCreator, Creating
    <3>3. t = 1 /\ created = 0
      BY <3>2, <1>t, <1>2 DEF Creating
    <3>4. created = proc[q].table - 1 /\ proc[q].table > 1 /\ proc[q].table \in Nat
      BY <3>1, NumTablesAssumption DEF SchemaIInv, Orderly, InStep, Creating, SchemaTypeOK
    <3> QED
      BY <3>3, <3>4
  <2>5. \A q \in Processes \ {p} : ~Creating(q)'
    BY <2>1, <2>4 DEF Creating, At
  <2>6. OneByOne' /\ FromTheFirst'
    BY <2>1, <2>3, <1>t DEF SchemaIInv, Orderly, OneByOne, FromTheFirst
  <2>7. InStep'
    BY <2>3, <2>5 DEF InStep, Creating, At
  <2>8. SoleCreator'
    BY <2>5 DEF SoleCreator, Creating, At
  <2>9. StampsFollowTables'
    BY <2>3 DEF StampsFollowTables
  <2>10. Unfinished'
    BY <2>3, <1>t DEF Unfinished, Creating, At
  <2> QED
    BY <2>6, <2>7, <2>8, <2>9, <2>10 DEF Orderly
<1> QED
  BY <1>1, <1>2

LEMMA RecordIsOrderly ==
  ASSUME SchemaIInv, NEW p \in Processes, RecordVersion(p)
  PROVE  Orderly'
<1> DEFINE at == IF head THEN "error" ELSE "ok"
<1>1. ~Creating(p) /\ created > 0
  BY DEF RecordVersion, Creating, At, SchemaIInv, Orderly, StampsFollowTables
<1>2. at \in Running \cup Ended
  BY DEF Ended
<1>3. /\ proc'[p].at = at
      /\ \A q \in Processes \ {p} : proc'[q] = proc[q]
  BY <1>2, GotoMoves DEF RecordVersion, SchemaIInv
<1>4. at \in {"ok", "error"}
  OBVIOUS
<1> QED
  BY <1>1, <1>3, <1>4, MoveIsOrderly DEF RecordVersion

(* Where DDL is rolled back there is nothing unfinished to begin with.     *)
LEMMA InterruptIsOrderly ==
  ASSUME SchemaIInv, NEW p \in Processes, Interrupt(p)
  PROVE  Orderly'
<1>1. /\ proc'[p].at = "error"
      /\ \A q \in Processes \ {p} : proc'[q] = proc[q]
  BY GotoMoves DEF Interrupt, Ended, SchemaIInv
<1>2. UNCHANGED <<transactional, created, head>> /\ interrupted'
  BY DEF Interrupt
<1>3. ~Creating(p)' /\ \A q \in Processes \ {p} : Creating(q)' <=> Creating(q)
  BY <1>1 DEF Creating, At
<1> USE DEF SchemaIInv, Orderly
<1>4. OneByOne' /\ FromTheFirst'
  BY <1>1, <1>2 DEF OneByOne, FromTheFirst
<1>5. InStep'
  BY <1>1, <1>2, <1>3 DEF InStep, Creating, At
<1>6. SoleCreator'
  BY <1>3 DEF SoleCreator, Creating, At
<1>7. StampsFollowTables'
  BY <1>1, <1>2 DEF StampsFollowTables
<1>8. Unfinished'
  BY <1>2 DEF Unfinished, OneByOne, Creating, At
<1> QED
  BY <1>4, <1>5, <1>6, <1>7, <1>8

LEMMA SchemaNextIInv == SchemaIInv /\ [SchemaNext]_schemaVars => SchemaIInv'
<1> SUFFICES ASSUME SchemaIInv, [SchemaNext]_schemaVars PROVE SchemaIInv'
  OBVIOUS
<1>1. SchemaTypeOK'
  BY SchemaNextTypeOK DEF SchemaIInv
<1>2. SchemaNext => Orderly'
  BY StartIsOrderly, InspectIsOrderly, StampIsOrderly, UpgradeIsOrderly,
     TransactIsOrderly, EnsureIsOrderly, CreateIsOrderly, RecordIsOrderly,
     InterruptIsOrderly DEF SchemaNext
<1>3. UNCHANGED schemaVars => Orderly'
  BY DEF SchemaIInv, schemaVars, Orderly, OneByOne, FromTheFirst, InStep, SoleCreator,
         StampsFollowTables, Unfinished, Creating, At
<1> QED
  BY <1>1, <1>2, <1>3 DEF SchemaIInv

LEMMA SchemaInvariance == SchemaSpec => []SchemaIInv
BY SchemaInitIInv, SchemaNextIInv, PTL DEF SchemaSpec

-----------------------------------------------------------------------------
(* No command leaves the states modelled; in particular none creates a      *)
(* table beyond the last (cli.py:80-124).                                   *)
THEOREM SchemaTypeCorrect == SchemaSpec => []SchemaTypeOK
<1>1. SchemaIInv => SchemaTypeOK
  BY DEF SchemaIInv
<1> QED
  BY <1>1, SchemaInvariance, PTL

(* However many commands overlap, one of them at most is past the first     *)
(* table, even if others were killed before it (cli.py:117).                *)
THEOREM OneCreator == SchemaSpec => []SoleCreator
<1>1. SchemaIInv => SoleCreator
  BY DEF SchemaIInv, Orderly
<1> QED
  BY <1>1, SchemaInvariance, PTL

(* A recorded revision means that all its tables exist once nobody is at    *)
(* work, for any number of commands and tables, if DDL is rolled back or    *)
(* no command was cut short (cli.py:112-124).                               *)
THEOREM RecordedIsComplete == SchemaSpec => []HeadIsComplete
<1>1. SchemaIInv => HeadIsComplete
  <2> SUFFICES ASSUME SchemaIInv, head,
                      \A p \in Processes : proc[p].at \notin Running,
                      transactional \/ ~interrupted
               PROVE  created = NumTables
    BY DEF HeadIsComplete
  <2>1. created > 0 /\ created \in Nat
    BY NumTablesAssumption DEF SchemaIInv, SchemaTypeOK, Orderly, StampsFollowTables
  <2>2. \A p \in Processes : ~Creating(p)
    BY DEF Creating, At, Running
  <2> QED
    BY <2>1, <2>2 DEF SchemaIInv, Orderly, Unfinished
<1> QED
  BY <1>1, SchemaInvariance, PTL

(* A command that reports success leaves the revision recorded, by itself   *)
(* or by the command it found ahead of it (cli.py:65, cli.py:73).           *)
THEOREM SuccessIsRecorded == SchemaSpec => SuccessRecorded
<1> DEFINE Step == \A p \in Processes :
                     (proc[p].at \in Running /\ proc'[p].at = "ok") => head'
<1>1. SchemaIInv /\ [SchemaNext]_schemaVars => [Step]_schemaVars
  <2> SUFFICES ASSUME SchemaIInv, SchemaNext, NEW x \in Processes,
                      proc[x].at \in Running, proc'[x].at = "ok"
               PROVE  head'
    BY DEF Step
  <2>1. PICK p \in Processes :
          \/ Start(p) \/ Inspect(p) \/ Stamp(p) \/ NothingToDo(p)
          \/ BeginTransaction(p) \/ UpgradeInTransaction(p)
          \/ EnsureVersionTable(p) \/ CreateTable(p) \/ RecordVersion(p)
          \/ Interrupt(p)
    BY DEF SchemaNext
  <2> USE DEF SchemaIInv, SchemaTypeOK
  <2>2. x = p
    BY <2>1 DEF Start, Inspect, Stamp, NothingToDo, BeginTransaction,
                UpgradeInTransaction, EnsureVersionTable, CreateTable,
                RecordVersion, Interrupt, Goto, Running, Ended
  <2>3. CASE Start(p)
    BY <2>2, <2>3 DEF Start
  <2>4. CASE Inspect(p)
    BY <2>2, <2>4 DEF Inspect, Goto
  <2>5. CASE Stamp(p)
    BY <2>5 DEF Stamp
  <2>6. CASE NothingToDo(p)
    BY <2>6 DEF NothingToDo
  <2>7. CASE BeginTransaction(p) \/ EnsureVersionTable(p) \/ Interrupt(p)
    BY <2>2, <2>7 DEF BeginTransaction, EnsureVersionTable, Interrupt, Goto
  <2>8. CASE UpgradeInTransaction(p)
    BY <2>2, <2>8 DEF UpgradeInTransaction, Goto
  <2>9. CASE CreateTable(p)
    BY <2>2, <2>9 DEF CreateTable, Goto
  <2>10. CASE RecordVersion(p)
    BY <2>10 DEF RecordVersion
  <2> QED
    BY <2>1, <2>3, <2>4, <2>5, <2>6, <2>7, <2>8, <2>9, <2>10
<1> QED
  BY <1>1, SchemaInvariance, PTL DEF SchemaSpec, SuccessRecorded
=============================================================================
