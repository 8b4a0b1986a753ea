----------------------------- MODULE Provisioning -----------------------------
(***************************************************************************)
(* The installer and the flask commands it runs: the wizard collects the   *)
(* operator's choices, ExecuteScreen writes the configuration, makes a     *)
(* signing key, sets up a CA, registers a client and issues its            *)
(* certificate, each in a step that may fail or be killed after 120        *)
(* seconds, with or without its effect.  A failed run is retried or left   *)
(* for the wizard; between runs the operator manages CAs and the client.   *)
(*                                                                         *)
(* Every key, certificate and secret is the number it was generated under; *)
(* a certificate has the number of its key.  One client is modelled: rows  *)
(* of other clients are not read.                                          *)
(***************************************************************************)
EXTENDS Naturals

CONSTANTS CANames,    \* the names CAs are registered under
          Imported,   \* the operator's own CA key and certificate
          None,
          MaxMade     \* bound: how many keys and secrets are generated

(* The SECRET_KEY that the wizard starts with is one of them.               *)
ASSUME MaxMadeAssumption == MaxMade \in Nat \ {0}
ASSUME NoneAssumption == None # Imported /\ {None, Imported} \cap Nat = {}

PKI_CA_METHODS == {"tls_client_auth", "private_key_jwt"}
SECRET_METHODS == {"client_secret_post"}
ALL_AUTH_METHODS == PKI_CA_METHODS \cup SECRET_METHODS \cup {"self_signed_tls_client_auth"}

VARIABLES cfg,       \* InstallConfig: the client's method, ca_action, ca_name
          chosen,    \* InstallConfig.secret_key
          pc,        \* the screen or the step of ExecuteScreen
          config,    \* SECRET_KEY in security_config.toml
          signing,   \* the SECRET_KEY the active signing key is encrypted under
          caFile,    \* the CA key and the CA certificate on disk
          ca,        \* the trusted_ca table
          client,    \* the row of the client in oidc_client
          issued,    \* the client certificate: the CA it names, the key that signed it
          shown,     \* InstallConfig.client_secret, as the summary shows it
          renewing,  \* the names of a renewal under way, old and new
          skipped,   \* history: did add-ca skip a registered name, in this run or renewal?
          made       \* how many keys and secrets were generated

vars == <<cfg, chosen, pc, config, signing, caFile, ca, client, issued, shown,
          renewing, skipped, made>>

Steps == {"config", "initkeys", "ca", "add_ca", "client", "cert"}
Screens == {"wizard", "failed", "done", "renew_add", "renew_revoke"}

Choices == [method : ALL_AUTH_METHODS, action : {"generate", "import"}, name : CANames]

Generated == 0 .. MaxMade
Cert == Generated \cup {Imported}
ClientRow == [method : ALL_AUTH_METHODS, secret : Generated, enc : Generated,
              active : BOOLEAN]
CARow == [cert : Cert, active : BOOLEAN]
ClientCert == [name : Cert, key : Cert]
Renewal == [old : CANames, new : CANames]

ASSUME NoRowAssumption ==
  None \notin Cert \cup ClientRow \cup CARow \cup ClientCert \cup Renewal

(* The operator may have put the key of his own CA where X2FA looks for it. *)
Init == /\ cfg \in [method : ALL_AUTH_METHODS, action : {"generate"}, name : CANames]
        /\ chosen = 1
        /\ pc = "wizard"
        /\ config = 0
        /\ signing = 0
        /\ caFile \in [key : {None, Imported}, cert : {None}]
        /\ ca = [n \in CANames |-> None]
        /\ client = None
        /\ issued = None
        /\ shown = 0
        /\ renewing = None
        /\ skipped = FALSE
        /\ made = 1

-----------------------------------------------------------------------------
(* The wizard                                                              *)

Choose(c) ==
  /\ pc = "wizard"
  /\ cfg' = c
  /\ UNCHANGED <<chosen, pc, config, signing, caFile, ca, client, issued, shown,
                 renewing, skipped, made>>

Regenerate ==
  /\ pc = "wizard" /\ made < MaxMade
  /\ made' = made + 1
  /\ chosen' = made'
  /\ UNCHANGED <<cfg, pc, config, signing, caFile, ca, client, issued, shown,
                 renewing, skipped>>

(* Confirm & Install, and Retry: the run starts from its first step.       *)
Run ==
  /\ pc \in {"wizard", "failed"}
  /\ pc' = "config"
  /\ skipped' = FALSE
  /\ UNCHANGED <<cfg, chosen, config, signing, caFile, ca, client, issued, shown,
                 renewing, made>>

(* Back after a failure; or the installer is closed and opened again: the  *)
(* session file keeps everything but the client secret.                    *)
Leave ==
  /\ pc \in {"failed", "done"}
  /\ pc' = "wizard"
  /\ shown' = 0
  /\ skipped' = FALSE
  /\ UNCHANGED <<cfg, chosen, config, signing, caFile, ca, client, issued,
                 renewing, made>>

-----------------------------------------------------------------------------
(* ExecuteScreen                                                           *)

(* A step ends well, or it fails after its effect.                         *)
Proceed(next) == pc' \in {next, "failed"}

(* A step fails before it has had any effect.                              *)
Fail ==
  /\ pc \in Steps
  /\ pc' = "failed"
  /\ UNCHANGED <<cfg, chosen, config, signing, caFile, ca, client, issued, shown,
                 renewing, skipped, made>>

(* Then come the systemd unit and init-db, which touch nothing of this.    *)
WriteConfigs ==
  /\ pc = "config"
  /\ config' = chosen
  /\ Proceed("initkeys")
  /\ UNCHANGED <<cfg, chosen, signing, caFile, ca, client, issued, shown,
                 renewing, skipped, made>>

AfterKeys == IF cfg.method \in PKI_CA_METHODS THEN "ca" ELSE "client"

(* Mutant: as the help says, the step is skipped if there is a key.        *)
InitKeysOnce ==
  /\ pc = "initkeys"
  /\ signing' = IF signing = 0 THEN config ELSE signing
  /\ Proceed(AfterKeys)
  /\ UNCHANGED <<cfg, chosen, config, caFile, ca, client, issued, shown,
                 renewing, skipped, made>>

InitKeys ==
  /\ pc = "initkeys"
  /\ signing' = config
  /\ Proceed(AfterKeys)
  /\ UNCHANGED <<cfg, chosen, config, caFile, ca, client, issued, shown,
                 renewing, skipped, made>>

(* generate_ca writes the key, then the certificate, over what is there.   *)
GenerateCA ==
  /\ pc = "ca" /\ cfg.action = "generate" /\ made < MaxMade
  /\ made' = made + 1
  /\ \/ /\ caFile' = [key |-> made', cert |-> made']
        /\ Proceed("add_ca")
     \/ /\ caFile' = [caFile EXCEPT !.key = made']
        /\ pc' = "failed"
  /\ UNCHANGED <<cfg, chosen, config, signing, ca, client, issued, shown,
                 renewing, skipped>>

UseExistingCA ==
  /\ pc = "ca" /\ cfg.action = "import"
  /\ pc' = "add_ca"
  /\ UNCHANGED <<cfg, chosen, config, signing, caFile, ca, client, issued, shown,
                 renewing, skipped, made>>

CACert == IF cfg.action = "generate" THEN caFile.cert ELSE Imported

Registered(name, cert) ==
  IF ca[name] = None THEN [ca EXCEPT ![name] = [cert |-> cert, active |-> TRUE]] ELSE ca

AddCA ==
  /\ pc = "add_ca"
  /\ ca' = Registered(cfg.name, CACert)
  /\ skipped' = (ca[cfg.name] # None)
  /\ Proceed("client")
  /\ UNCHANGED <<cfg, chosen, config, signing, caFile, client, issued, shown,
                 renewing, made>>

(* Mutant: an existing client keeps its secret.                            *)
UpdatedClientKeepsSecret(secret) ==
  IF client = None
    THEN [method |-> cfg.method, secret |-> secret, enc |-> config, active |-> TRUE]
    ELSE [client EXCEPT !.method = cfg.method]

(* add-client: a new row, or the old one with its secret replaced if the   *)
(* method has one; `active' is left as it is.                              *)
UpdatedClient(secret) ==
  IF client = None
    THEN [method |-> cfg.method, secret |-> secret, enc |-> config, active |-> TRUE]
    ELSE IF secret # 0
      THEN [client EXCEPT !.method = cfg.method, !.secret = secret, !.enc = config]
      ELSE [client EXCEPT !.method = cfg.method]

AddClient ==
  LET secret == IF cfg.method \in SECRET_METHODS THEN made + 1 ELSE 0 IN
  /\ pc = "client"
  /\ secret <= MaxMade
  /\ made' = IF secret = 0 THEN made ELSE secret
  /\ client' = UpdatedClient(secret)
  /\ Proceed(IF cfg.method = "tls_client_auth" THEN "cert" ELSE "done")
  /\ shown' = IF pc' = "failed" THEN 0 ELSE secret
  /\ UNCHANGED <<cfg, chosen, config, signing, caFile, ca, issued,
                 renewing, skipped>>

(* Mutant: a certificate that is there is kept.                            *)
IssueStaleCert ==
  /\ pc = "cert" /\ caFile.key # None
  /\ issued' = IF issued = None THEN [name |-> CACert, key |-> caFile.key] ELSE issued
  /\ Proceed("done")
  /\ UNCHANGED <<cfg, chosen, config, signing, caFile, ca, client, shown,
                 renewing, skipped, made>>

(* The certificate names the CA's subject and is signed with the key found *)
(* in the data directory.                                                  *)
IssueCert ==
  /\ pc = "cert" /\ caFile.key # None
  /\ issued' = [name |-> CACert, key |-> caFile.key]
  /\ Proceed("done")
  /\ UNCHANGED <<cfg, chosen, config, signing, caFile, ca, client, shown,
                 renewing, skipped, made>>

-----------------------------------------------------------------------------
(* What the operator does between runs: CAManageScreen and flask commands. *)

(* Without a configuration every flask command fails.                      *)
RegisterCA(name, cert) ==
  /\ pc = "wizard" /\ config # 0 /\ cert # None
  /\ ca' = Registered(name, cert)
  /\ UNCHANGED <<cfg, chosen, pc, config, signing, caFile, client, issued, shown,
                 renewing, skipped, made>>

(* As in a run, generate_ca may fail between the key and the certificate.  *)
RenewGenerates(old, new) ==
  /\ pc = "wizard" /\ made < MaxMade
  /\ made' = made + 1
  /\ \/ /\ caFile' = [key |-> made', cert |-> made']
        /\ renewing' = [old |-> old, new |-> new]
        /\ pc' = "renew_add"
     \/ /\ caFile' = [caFile EXCEPT !.key = made']
        /\ UNCHANGED <<renewing, pc>>
  /\ UNCHANGED <<cfg, chosen, config, signing, ca, client, issued, shown, skipped>>

(* The new certificate is registered, or the renewal ends here.            *)
RenewAdds ==
  /\ pc = "renew_add"
  /\ \/ /\ config # 0
        /\ ca' = Registered(renewing.new, caFile.cert)
        /\ pc' \in {"renew_revoke", "wizard"}
     \/ ca' = ca /\ pc' = "wizard"
  /\ renewing' = IF pc' = "wizard" THEN None ELSE renewing
  /\ skipped' = (pc' # "wizard" /\ ca[renewing.new] # None)
  /\ UNCHANGED <<cfg, chosen, config, signing, caFile, client, issued, shown, made>>

(* Mutant: active is set to NULL.                                          *)
RevokedNull(name) ==
  IF ca[name] = None THEN ca ELSE [ca EXCEPT ![name].active = None]

Revoked(name) ==
  IF ca[name] = None THEN ca ELSE [ca EXCEPT ![name].active = FALSE]

(* Mutant: the renewal revokes the name it has just registered.            *)
RenewRevokesNew ==
  /\ pc = "renew_revoke"
  /\ ca' \in {ca, Revoked(renewing.new)}
  /\ pc' = "wizard"
  /\ renewing' = None
  /\ skipped' = FALSE
  /\ UNCHANGED <<cfg, chosen, config, signing, caFile, client, issued, shown, made>>

(* revoke-ca of the old name, which may fail.                              *)
RenewRevokes ==
  /\ pc = "renew_revoke"
  /\ ca' \in {ca, Revoked(renewing.old)}
  /\ pc' = "wizard"
  /\ renewing' = None
  /\ skipped' = FALSE
  /\ UNCHANGED <<cfg, chosen, config, signing, caFile, client, issued, shown, made>>

RevokeCA(name) ==
  /\ pc = "wizard"
  /\ ca' = Revoked(name)
  /\ UNCHANGED <<cfg, chosen, pc, config, signing, caFile, client, issued, shown,
                 renewing, skipped, made>>

(* flask issue-client-cert takes the certificate of an active CA from the   *)
(* table and the private key from a file that the operator names.          *)
IssueClientCert(name, key) ==
  /\ pc = "wizard" /\ config # 0 /\ key # None
  /\ ca[name] # None /\ ca[name].active
  /\ issued' = [name |-> ca[name].cert, key |-> key]
  /\ UNCHANGED <<cfg, chosen, pc, config, signing, caFile, ca, client, shown,
                 renewing, skipped, made>>

RevokeClient ==
  /\ pc = "wizard" /\ client # None
  /\ client' = [client EXCEPT !.active = FALSE]
  /\ UNCHANGED <<cfg, chosen, pc, config, signing, caFile, ca, issued, shown,
                 renewing, skipped, made>>

RotateClientSecret ==
  /\ pc = "wizard" /\ client # None /\ client.method \in SECRET_METHODS
  /\ made < MaxMade
  /\ made' = made + 1
  /\ client' = [client EXCEPT !.secret = made', !.enc = config]
  /\ UNCHANGED <<cfg, chosen, pc, config, signing, caFile, ca, issued, shown,
                 renewing, skipped>>

Next == \/ \E c \in Choices : Choose(c)
        \/ Regenerate
        \/ Run
        \/ Leave
        \/ Fail
        \/ WriteConfigs
        \/ InitKeys
        \/ GenerateCA
        \/ UseExistingCA
        \/ AddCA
        \/ AddClient
        \/ IssueCert
        \/ \E n \in CANames, c \in {Imported, caFile.cert} : RegisterCA(n, c)
        \/ \E old, new \in CANames : RenewGenerates(old, new)
        \/ RenewAdds
        \/ RenewRevokes
        \/ \E n \in CANames : RevokeCA(n)
        \/ \E n \in CANames, k \in {Imported, caFile.key} : IssueClientCert(n, k)
        \/ RevokeClient
        \/ RotateClientSecret

Spec == Init /\ [][Next]_vars

-----------------------------------------------------------------------------
(* Every variable keeps its shape.                                          *)
TypeOK ==
  /\ cfg \in Choices
  /\ {chosen, config, signing, shown, made} \subseteq Generated
  /\ pc \in Steps \cup Screens
  /\ caFile \in [key : Cert \cup {None}, cert : Cert \cup {None}]
  /\ ca \in [CANames -> CARow \cup {None}]
  /\ client \in ClientRow \cup {None}
  /\ issued \in ClientCert \cup {None}
  /\ renewing \in Renewal \cup {None}
  /\ skipped \in BOOLEAN

(* Whatever failed before, and however often the SECRET_KEY was replaced,   *)
(* an installation that completes can decrypt its active signing key        *)
(* (execute.py:170, cli.py:144).                                            *)
SigningKeyReadable == pc = "done" => signing = config /\ signing = chosen

(* The secret the summary shows is the one stored for the client, under the *)
(* SECRET_KEY that is configured (execute.py:239: "do not show a secret     *)
(* that was never stored").                                                 *)
ShownSecretStored ==
  (pc = "done" /\ shown # 0) => /\ client.method \in SECRET_METHODS
                                /\ client.secret = shown
                                /\ client.enc = config

(* verify_certificate looks for an active CA whose key signed the           *)
(* client's certificate.                                                    *)
Trusted(cert) ==
  \E n \in CANames : ca[n] # None /\ ca[n].active /\ ca[n].cert = cert.key

(* If the run that completes registered its CA, generated or imported, and  *)
(* the key in the data directory is that CA's, the client certificate it    *)
(* issued is trusted, whatever earlier runs left behind (execute.py:252).   *)
FreshCAIsTrusted ==
  (/\ pc = "done" /\ cfg.method = "tls_client_auth"
   /\ caFile.key = CACert /\ ~skipped) => Trusted(issued)

(* A renewal that registered its new certificate ends with that certificate *)
(* trusted, whatever became of the old one (ca_manage.py:210).              *)
RenewalKeepsTrust ==
  [][(/\ pc = "renew_revoke" /\ ~skipped
      /\ renewing.old # renewing.new) => Trusted([key |-> caFile.key])']_vars

(* execute.py:59: "Register CA / client: Already registered — safe to       *)
(* ignore if re-running the installer on an existing installation": the     *)
(* certificate of a run that generates a CA is trusted even so.             *)
ReinstalledCAIsTrusted ==
  (/\ pc = "done" /\ cfg.method = "tls_client_auth"
   /\ cfg.action = "generate") => Trusted(issued)
=============================================================================
