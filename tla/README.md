# X2FA in TLA+

X2FA is a second-factor service: a relying party sends a browser to
`/authorize`, the user passes a factor (WebAuthn, TOTP or a backup code), and
the relying party exchanges the authorization code for an ID token. This
directory models the service, the commands that administer it and the installer
that sets it up. TLC checks the models on small instances; TLAPS proves their safety
properties for every instance.

Every definition is translated from the Python source, which `PROJECT.json`
("map") names line by line. Paths below are relative to `src/x2fa/`, except
`installer/`, `docs/`, `Dockerfile` and `SECURITY.md`, which are at the root.

## 1. Inventory

| Component | State | Operations | Model |
|---|---|---|---|
| Login flow (`routes/auth.py`, page guards of all routes) | the browser's session cookie: `oidc_request`, `user_id`, `2fa_verified`, `backup_codes`; `authorization_code` rows | `/authorize` phase 1 and 2, factor pages, `setup_done`, `revoke-client` | `LoginFlow`, `LoginHistory` |
| WebAuthn (`routes/setup.py`, `routes/verify.py`, `helpers/webauthn_helpers.py`) | `challenge`, `credential`, `backup_code`, `audit_log` | two GET pages, `setup_complete`, `verify_complete` | `WebAuthn` |
| TOTP (`routes/totp.py`, `helpers/totp_helpers.py`) | `totp_secret` row per user, `backup_code` | set-up page and form, verification form | `Totp` |
| Backup codes (`routes/backup.py`) | `backup_code`, `audit_log` | verification form | `BackupCodes` |
| Token endpoint (`routes/auth.py`, `oidc/grants.py`) | `authorization_code`, `signing_key`, `oidc_client` | `/token`, `/jwks`, six authentication methods, `cleanup-codes`, `init-keys`, `revoke-client` | `TokenEndpoint`, `ClientAuth` |
| Client and CA registry (`cli.py`, `model/pki.py`) | `oidc_client`, `trusted_ca` | `add-client`, `add-ca`, `revoke-*`, `rotate-client-secret`, `issue-client-cert`, `update-client-cert` | `ClientAuth`, `Provisioning` |
| Installer (`installer/`) | `InstallConfig`, configuration files, CA files, client certificate | wizard, nine-step run, retry, CA management | `Provisioning` |
| Schema migrations (`cli.py`, `migrations/`) | tables, `alembic_version` | `init-db`, `db-upgrade` | `SchemaUpgrade` |
| Rate limiter (`init_app/limiter.py`) | one counter per worker, address and route | per-route limits | `RateLimiter`, composed with `BackupCodes` |
| Audit log, statistics (`routes/__init__.py`, `model/audit.py`) | `audit_log` | `audit_log()`, `flask stats` | rows only, in `WebAuthn` and `BackupCodes` |
| Configuration (`init_app/config.py`, `installer/config_writer.py`) | TOML files; the copy a process reads when it starts | write, read at start | the `SECRET_KEY`, in `ClientAuth` and `Provisioning` |
| App factory, error pages, translations, installer screens | none that changes after start | sequential set-up, presentation | not modelled |

**How they interact.** All request handlers share one database and run in
gunicorn workers: two with the `Dockerfile` (`--workers 2 --timeout 60`), one
with the systemd unit the installer writes. A worker handles one request at a
time; two workers interleave at every commit. The session is not on the server:
Flask's signed cookie travels with each request and the reply replaces it whole,
and only if the handler assigned to the session or popped a key that was there.
The flask commands are separate processes on the same database, and read the
configuration afresh, while the service keeps what it read at its start. The installer
runs them as child processes and kills them after 120 seconds.

**What is hard.**

* *Read, then commit.* Each one-time token (challenge, backup code,
  authorization code) and each guard (nonce, `last_used_at`, `sign_count`) is
  read in one transaction and written in a later one, with no lock and no
  conditional update.
* *Copies of the session.* Overlapping requests of one browser work on copies,
  and the reply that arrives last wins; a lost reply leaves the old cookie.
* *Crashes between commits.* Handlers commit several times; gunicorn may kill
  the worker between two of them.
* *Time.* 60-second codes and ID tokens, one hour of retention, TOTP steps with
  a tolerance of one step on either side and a replay window of one.
* *Reads that belong together.* A token request reads the CAs, the client and
  the secret in separate queries, while commands change them.
* *State per process.* Rate limits are counted, and the `SECRET_KEY` is kept, by
  each process for itself.
* *Retries of a sequence of steps*, each of which may have happened although it
  was reported as failed (installer, migrations).

**What makes each component correct.** Login flow: a code stands for a login
that its user has passed, with the client that asked, and one verification does
not feed logins without end. WebAuthn, backup codes,
token endpoint: one-time tokens are used once per reader, and the state that
goes with them (sign counts, audit rows, batches of codes, nonces) stays in
step. TOTP: logins that `last_used_at` still covers are spaced, and a verified
secret is one its user confirmed. Registry: a client gets in only on what its row and the
active CAs ask for, and always on that (for x5c this is less than it should be,
see Disagreements). Rate limiter: what all workers let in together is bounded.
Token endpoint: revocation takes effect, nothing stays for ever, a nonce is on
record as long as its token. Provisioning: a run that completes leaves an
installation that works. Migrations: a recorded revision means the tables exist.

## 2. Modules

| Module | What it is |
|---|---|
| `LoginFlow` | sessions, phases of `/authorize`, factor pages as pass or fail |
| `LoginHistory` | `LoginFlow` with history: which replies carry codes, and where they arrive |
| `LoginFlow_proofs` | theorems of both: backing of codes, revocation, the bounds on nonces and verified sessions |
| `OneTime` | abstract specification of a token for one use |
| `OneTime_proofs` | the bound it guarantees |
| `WebAuthn`, `BackupCodes`, `TokenEndpoint` | handlers commit by commit; each implements `OneTime` |
| `RateLimiter` | the counters of the workers; extended by `BackupCodes` |
| `ClientAuth` | the registry, and authentication at `/token` query by query |
| `Totp` | the secret's row, set-up and verification in time |
| `Provisioning` | installer runs and registry commands |
| `SchemaUpgrade` | overlapping and interrupted migrations |
| `WebAuthn_proofs`, `Totp_proofs`, `BackupCodes_proofs`, `TokenEndpoint_proofs`, `ClientAuth_proofs` | theorems of the module named, section 4 |
| `Installation_proofs` | theorems of `Provisioning` and of `SchemaUpgrade` |
| `MC*` | instances for TLC: symmetry sets and function-valued constants |

Definitions called mutants in a comment (such as `TooSoonByOne`) are not part of
a specification. Each is a variant of the definition next to it, with a bug that
code could plausibly have; substituted for it, TLC finds the property it is
paired with in `PROJECT.json` violated.

### LoginFlow

`jar[b]` is the cookie of browser `b`, `flight[w]` the request worker `w`
handles, with the copy of the session it came with. A handler is one step up to
its answer, except phase 2 of `/authorize`, whose database steps are apart:
`AuthorizePhase2` (`auth.py:112-119`), `ValidateRequest` (Authlib's checks, with
`query_client` and `exists_nonce`) and `SaveAuthorizationCode` (the commit).
`Reply` replaces the cookie, `Drop` loses the reply. `asked` and `proved` are
history: which query started a login, and who passed a factor in it.

Abstracted: all syntactic refusals of phase 1 are a 400 that leaves the session
alone; scope, state and PKCE are data no property tells apart;
`session["setup_mode"]` is dropped, since it is only read by the redirect of the
request that sets it; codes are not removed (that
is in `TokenEndpoint`); whatever Authlib refuses in phase 2 (`ValidateRequest`)
is one refusal, and all of them end the same way. A factor check passes or fails for a user who has the
factor; how is the subject of the other modules.

`LoginHistory` adds `carrying` and `since` to the same actions, without guards
of its own: it has the behaviours of `LoginFlow`, and counts the codes that
reach a browser from the moment it was last sent a verified session.

### OneTime, and its three implementations

`OneTime` is what the code really promises of a one-time token: `Hold` only
while it is live, `Redeem` only once it is marked and only by a holder. So a
request that comes after the mark gets nowhere, and requests that overlap may
all succeed. It does *not* promise a single use. `BoundedUse` says what follows:
no more uses than workers, hence one with the installer's single worker. `Issue`
and `End` take a set of tokens: ten backup codes are stored at once, and one
tick of the clock may end several authorization codes.

`WebAuthn` maps challenges to it (`Usable`, `ReadChallenge`,
`ConsumeChallenge`), `BackupCodes` maps codes (`ValidCodes`, `MarkUsed`,
`Redeem`), and `TokenEndpoint` maps authorization codes (`Valid`, `SpendCode`,
`Answer`; `Tick` and `SpendCode` are its `End`). In each, a worker holds the token from the read to the answer, and
`Crash` may end it after any commit. The mapping is spelled out beside each
`OT == INSTANCE OneTime WITH ...`.

### WebAuthn, Totp, BackupCodes, TokenEndpoint

* `WebAuthn`: `SetupGet`/`VerifyGet` make challenges; `CreateCredential` and
  `GetAssertion` are the browser's answers, kept in `sent` so that any of them
  may be posted again, late or to the wrong page; the handlers go through
  `ReadChallenge`, `ConsumeChallenge`, verification, `SaveSignCount` or
  `SaveCredential`, `AuditSuccess`. `counting` is the set of authenticators that
  count their signatures; the others report zero.
* `Totp`: time is counted in fractions of the 30-second window (`Window` to a
  window). Handlers load the row, then commit what they derived from that copy;
  `Updated` writes only the columns that changed, as SQLAlchemy does. On the way
  a form reads the clock three times, each a step of its own: `CodeMatches` in
  pyotp, `NotReplayed` for the replay check, `Stamps` for `last_used_at`. The
  commit comes later, on the set-up page after ten bcrypt hashes
  (`totp.py:114-121`), and any time may pass between two of these steps.
  `accepted` and `confirmed` are history: the codes the two forms accepted;
  `forgotten` are the logins that `last_used_at` was set back behind. `Steps`
  are the time steps whose codes are typed, whatever the time.
* `BackupCodes`: bcrypt is the identity of codes, and a batch is stored at once.
  A post passes `RateLimiter!Admit` of its worker or is answered with 429 and
  changes nothing. `hits[w]` is the window a worker has open; `Elapse` is one
  unit of time for all of them, `Forget` the loss of a worker's memory.
  `logins` and `admitted` are history: the logins a user was granted, and the
  requests let in during the last window. A request in `admitted` has its number
  in its worker's window, so that two of them are never one record and the size
  of the set counts requests.
  `configure` hangs the settings on `app.config` as attributes
  (`init_app/config.py:20-23`), where Flask-Limiter does not look, so its
  defaults hold: memory of the process, fixed windows.
* `TokenEndpoint`: `work[w].todo` is what a request still has to do. Authlib
  fixes the order of deletion and signing; the model allows both. Ages saturate
  at the last value a comparison can tell apart, so the clock needs no bound.
  `CleanupReads` and `CleanupDeletes` are the two halves of `cleanup-codes`.
  Keys have no end, as `SigningKey.expires_at` is always `NEVER_EXPIRES`, so
  that `grants.py:111` picks any active one.
  How a client authenticates is one step that needs an active client, which all
  authenticators of `grants.py` end in; the rest of it is in `ClientAuth`.

### ClientAuth

`client` and `ca` are the two tables, `config` and `loaded` generations of the
`SECRET_KEY`: in the file, which every command reads, and in the running
service. A command is one step, as it is one transaction. A request is one step
per query: `ReadCAs` and `ReadNamedClient` (tls_client_auth),
`ReadAssertedClient` and `ResolveKey` (private_key_jwt), `ReadPinnedClient`
(self_signed_tls_client_auth), `VerifyClientSecret`. `AfterMtls` and
`AfterSelfSigned` are Authlib's loop over `TOKEN_ENDPOINT_AUTH_METHODS`: an
authenticator that finds nothing of its own passes the request on, the one for
assertions ends it. `seen` is history: the rows and CAs on record since the
request arrived. One request is followed at a time, since requests write
nothing here; a certificate is its common name and the key that signed it.
`Matches` is what the code asks of a client with a given row. For x5c that is a
certificate of an active CA, whoever it names: `_key_from_x5c` drops the common
name (Disagreements, section 3).

### Provisioning

`pc` is the wizard, a step of `ExecuteScreen._run_installation`, or a renewal
under way. `Proceed(next)` lets a step end well or fail *after* its effect (a
timeout kills the command when it has committed), `Fail` lets it fail before.
Keys, certificates and secrets are the number they were generated under, so
"signed by", "encrypted under" and "the same as" are equalities. `Run` is both
Confirm and Retry. `Leave` starts over: `session_file` keeps everything but the
client secret. Between runs the operator registers, renews and revokes CAs
(`ca_manage.py`), revokes the client, rotates its secret, or issues it a
certificate by hand (`issue-client-cert`), with a key file of his choice. The
rows of other clients and the systemd unit are left out. One representative of the three secret methods is enough, as
the code tests membership in `SECRET_METHODS` only.

### SchemaUpgrade

`created` counts the tables of revision 0001, which are created in a fixed
order. With `transactional` (PostgreSQL) the upgrade is one step that takes
effect or not; without (SQLite, MySQL) `EnsureVersionTable`, each `CreateTable`
and `RecordVersion` take effect one by one. `Interrupt` is a kill or any error
that `cli.py:124` raises again. `Stamp` follows "already exists". Its
specification is `SchemaSpec`, its type invariant `SchemaTypeOK`, so that one
module can extend it beside `Provisioning`.

## 3. Runs

`expect` is `pass` unless noted. States are distinct states.

| Run | Instance | Properties | Shows |
|---|---|---|---|
| `LoginFlow_history` | 1 browser, 2 workers, 2 users, 2 logins, 1 nonce, 3 codes; 2.4 million states | `TypeOK`, `CodeBacked`, `NonceBounded`, `CodesPerVerification`, `RevocationHolds` | stale and lost cookies never give a code to a login nobody passed; a nonce, or a verified session, gives at most as many codes as there are workers; a drained revoked client gets none |
| `LoginFlow_nonce_race` | 2 codes | `NonceUnique`, **violation** | `exists_nonce` and the commit are two steps |
| `WebAuthn_workers` | 2 workers, 2 users, 3 challenges, 1 credential, 3 signatures | `TypeOK`, `NextSignatureAccepted`, `CodesPerCredential`, `OneTimeChallenges`, `CountFallsOnlyIfStale` | crashes, duplicates and reordering |
| `Totp_workers` | 2 workers, window of 2, codes of 2 time steps, 2 secrets, time to 10; 1.7 million states | `TypeOK`, `SpacedPerWorker`, `AtMostFourLoginsPerCode`, `UnconfirmedOnlyIfStale`, `ForgottenOnlyIfStale` | the replay check spaces the logins it remembers, and forgets one only by overlap; how often a code logs in while it lives |
| `BackupCodes_workers` | 2 workers, 2 users, 3 codes, 2 posts to a window of 2, 1 kill; 1.07 million states | `TypeOK`, `LoginsAudited`, `LimitPerWorker`, `OneTimeCodes` | one-time codes, audit before login, what the workers' limits add up to |
| `TokenEndpoint_workers` | 2 workers, 2 clients, 1 code, 2 keys; 230 thousand states | `TypeOK`, `NonceKept`, `OneTimeCodes`, `RevokedGetsNothing`, `CodesRemoved` | the life of a code, in either order of signing and deleting; liveness of cleanup |
| `TokenEndpoint_rotation` | 1 worker, 2 keys | `TokensVerifiable`, **violation** | rotation invalidates tokens that are still valid |
| `Provisioning_retries` | 2 CA names, 4 generated values; 5.4 million states | `TypeOK`, `SigningKeyReadable`, `ShownSecretStored`, `FreshCAIsTrusted`, `RenewalKeepsTrust` | a completed run or renewal works, whatever failed before |
| `Provisioning_rerun` | 1 CA name, 3 generated values | `ReinstalledCAIsTrusted`, **violation** | generating a CA again under a registered name |
| `ClientAuth_registry` | 2 clients, 2 CA names, 2 keys, 2 secrets, 3 commands or expiries; 1.4 million states | `TypeOK`, `AcceptedOnRecord`, `EntitledAccepted` | authentication against a registry in motion; deadlock checked |
| `SchemaUpgrade_overlap` | 3 processes, 9 tables | `SchemaTypeOK`, `SoleCreator`, `HeadIsComplete`, `SuccessRecorded` | overlapping upgrades; deadlock checked |
| `SchemaUpgrade_crash` | 1 process, 9 tables | `StampedIntact`, **violation** | an interrupted upgrade is stamped as complete |

**Bounds.** Two workers show every race of two requests, and the deployment has
no more. In `LoginFlow_history` the constraint `Bounded` explores three codes
for one login, one more than `NonceBounded` and `CodesPerVerification` allow
two workers, and one code for two logins. `MaxLogins = 2` lets an old login's cookie meet a new one's.
`MaxSigns = 3` is a registration's count and two overlapping assertions.
In `Totp_workers`, with `Window = 2`, a set-up takes the code of step 2 at time
2, and the code of step 3 is then correct from 4 to 9 and logs in at 4, 6, 8 and,
for a request that waits before its replay check, 10, which is `MaxTime`: TLC
finds the bound of `AtMostFourLoginsPerCode` violated if it is lowered by one.
The constraint `Bounded` leaves nothing out up to time 5, which covers a set-up,
logins of both workers and a commit of either between any two steps of the other;
later there is one secret, and one worker's logins beside all other requests of
the second. `CodeTTL = TokenTTL = Timeout = 1` and `Retention = 2` is the boundary of
`RetentionAssumption`; the deployment has 60 s, 60 s, 60 s and one hour, far
inside. In `BackupCodes_workers`, `Limit = 2` and
`Window = 2` are the least for which two windows of one worker overlap a third
stretch of time with more than one window's worth; TLC finds `LimitPerWorker`
violated if its bound is lowered by one. `MaxCommands = 3` is a client, the
change of it and one more, before, between or after the queries of a request;
the replacement of the `SECRET_KEY` is one of them, the restart is not counted.
`MaxMade = 4` is an initial key and three generations: a first run, a
failed one and a retry, or a renewal between runs. `NumTables = 9` is the real
number. Symmetry is declared where the named values are interchangeable, and
not where liveness is checked.

**Deadlock.** The bounds stop most models, which therefore say
`CHECK_DEADLOCK FALSE`. `SchemaUpgrade` has no bound on steps, and in
`ClientAuth` requests go on when the commands are used up: TLC checks that
neither stops.

**Fairness.** Only `CodesRemoved` needs it. `FairSpec` asks that the clock
ticks, that `cleanup-codes` is run again and again and ends (`SECURITY.md:78`,
"Schedule `flask cleanup-codes`"), and that gunicorn ends a request that is at
its timeout. Nothing is asked of users, relying parties or handlers.

**Disagreements between code and documents** (findings in `PROJECT.json`): the
four violation runs. `NonceBounded` states what remains true of nonces,
`FreshCAIsTrusted` of CAs, and `HeadIsComplete` of the schema. Others, met while
modelling, have no run of their own:

* `helpers/totp_helpers.py:48` says that a code is refused if it "has already
  been used within the current 30-second window". With two workers it need not
  be (`UsedCodesRefused` states it). The set-up form reads the clock for
  `last_used_at`, hashes ten backup codes and then commits (`totp.py:114-121`).
  In `Totp`, with two workers and without the constraint: the form is posted
  twice, the first post commits, the second stamps the row at 2, the other worker
  grants a login at 4, the second post commits 2, and the other worker accepts
  the same code again at 4. Two overlapping posts to `/totp/verify` can do the
  same in the moment between 184 and 185. What remains true is
  `ForgottenOnlyIfStale` and `SpacedPerWorker`, and with one worker the sentence
  itself (`OneWorkerRefusesUsedCodes`).
* `docs/oidc-auth.md:76` has a private_key_jwt client sign with its private key,
  and `X2FA.md:274` embeds "the client certificate" as x5c. `_key_from_x5c`
  (`grants.py:207-209`) takes the key of any certificate that an active CA has
  signed and does not compare its common name with the client of the assertion,
  as `tls_client_auth` does: a certificate issued to one client serves for every
  private_key_jwt client. `AcceptedOnRecord` follows the code and does not
  exclude it.
* Several documents promise a single use: `SECURITY.md:65` of challenges and
  authorization codes, `docs/security.md:110` of challenges, `:156` of backup
  codes (with the page that shows them, `templates/setup_done.html:32`), `:242`
  of authorization codes. Requests that overlap may each get through, so the
  code keeps the weaker promise of `OneTime`, one use per worker at the most;
  one use is what `BoundedUse` says of a single worker.
* `docs/cli-reference.md:160` says that `cleanup-codes` removes the codes with
  `expires_at < now`, and line 161 that it removes challenges. The code removes
  authorization codes only, and keeps them for an hour (`cli.py:334`), as
  `docs/security.md:192`, `:240` and `X2FA.md:590` say. `NonceKept` depends on
  it: with the rule of `cli-reference.md` in place of the code's, it is violated
  (the mutant `CleanupReadsExpired`).
* `docs/oidc-auth.md:104-109` has self-signed certificates imported with
  `add-ca`, and their common name matched with the client. The code looks for
  the fingerprint that `add-client --cert` or `update-client-cert` left in the
  client's row (`grants.py:245-272`), and at neither the CAs nor the name.
  `ReadPinnedClient` follows the code.
* `add-client` over a revoked client says that it updates it, and leaves it
  inactive (`cli.py:227-237`); an installer run over it completes.
  `ShownSecretStored` is about the secret, not about that.
* `docs/oidc-auth.md:113` lists `client_secret_jwt`. In the order of
  `TOKEN_ENDPOINT_AUTH_METHODS` private_key_jwt comes first, and it raises
  `InvalidClientError` for an assertion whose key it cannot resolve, so that
  `authenticate_via_client_secret_jwt` is never reached.
* `ratelimit_config.toml.default` sets a moving window, and a storage; both stay
  unread (see `BackupCodes` above), and what holds instead is `LimitPerWorker`.
* The handlers read `RATE_LIMIT_*` from `x2fa_ratelimit`, the file defines
  `RATELIMIT_*`; and `write_configs` puts three keys in `[production]`, the only
  section `load_config` then reads, which lacks the limits of `/authorize` and
  `/token` and `CHALLENGE_TTL_MINUTES`. A handler whose key is missing fails.
* `/totp/setup/verify` may be posted again with a valid code, each time with ten
  more backup codes; after a login by backup code nothing makes the user set up
  a factor; the nonce of a code is the second request's, not the session's.
* Back during an installer run leaves its thread running beside the next run,
  with the same `InstallConfig`; the secret shown may then be the other run's.
* `DemoRPScreen` calls `_check_demo_rp_preflights`, which is defined nowhere.

## 4. Proofs

The theorems hold for arbitrary sets of browsers, users, clients, tokens and so
on, and for arbitrary bounds, under the `ASSUME`s of the modules, which TLC
evaluates in the runs: bounds and lengths of time are natural numbers; `Workers`
is finite; `None` is none of the values it stands beside (`NoneAssumption`,
`NoRowAssumption`, `NoHistoryAssumption`). Only one assumption carries an
argument of its own: `RetentionAssumption`, that codes are retained for longer
than a token lives and a request may take (one hour against two minutes).

Few of the properties are inductive. Each proof goes through an invariant that
is, `IInv` unless another is named: it holds initially, every action keeps it,
and it implies the property; action properties are step lemmas over `IInv`. What `IInv` adds to the property is the reason why it
holds.

**Login flow** (`LoginFlow_proofs`)

* `TypeCorrect` (`TypeOK`), `CodesAreBacked` (`CodeBacked`). A code's fields come
  from a session that was copied when the request arrived, perhaps long before
  the browser's present login. `IInv` says that *every* copy, in a jar
  (`JarBacked`) or in flight (`FlightBacked`), is backed by the history. `asked`
  only grows at its end and `proved` only grows (`BackedGrows`), so a copy once
  backed stays so, and it does not matter which reply arrives last.
* `RevocationIsFinal` (`RevocationHolds`).
* `NonceReuseBounded` (`NonceBounded`), by `NonceBudget`: the codes with a nonce,
  *together with* the requests that have passed `exists_nonce` with it, are no
  more than the workers. A request passes only while there is no such code, and
  saving turns a request into a code. `OneWorkerNonceUnique`: with a single
  worker, what `LoginFlow_nonce_race` refutes for two is true.
* `HistoryImplementsFlow`: a behaviour of `LoginHistory` is one of `LoginFlow`.
  `CodesPerVerificationBounded` (`CodesPerVerification`), by `HInv`: the codes
  that arrived since the browser was last sent a verified session, with the
  replies that carry one and the requests that still may (`Spent`), are no more
  than the workers, and a reply with a code clears the session
  (`CarryingClears`). The overlapping replies that bring back a verified session
  start the count again, which is what makes the bound one per verification.

**One-time tokens** (`OneTime_proofs`, and the three that implement it)

* `BoundedUse` (`UsesBounded`). `Counted`: a holder is a use that may still
  happen, and holders are gained only while there are no uses.
* `CodesAreOneTime` of `BackupCodes` and of `TokenEndpoint` (each has its
  `OneTimeCodes`) and `ChallengesAreOneTime` (`OneTimeChallenges`): the detailed
  specification implements `OneTime`; initial states map to initial states, each
  action to `Issue`, `Hold`, `End`, `Redeem`, `Release` or a stutter. The
  refinements need `RequestsBacked`, that a request past a step still finds the
  row as that step left it. For `TokenEndpoint` this also shows that the
  branch of `SpendCode` for a row that has gone meanwhile cannot be
  reached: what cleanup removes is older than any request.
* `CodeUsesBounded`, twice, and `ChallengeUsesBounded` transfer `BoundedUse` to
  the handlers: no token lets more requests through than there are workers.

**WebAuthn** (`WebAuthn_proofs`). `TypeCorrect`; `SignaturesAreAccepted`
(`NextSignatureAccepted`), since every count in a row or in an answer a browser
may still post is one the authenticator has passed (`CountsGenuine`);
`CodesGoWithCredentials` (`CodesPerCredential`); `CountFallsOnlyToStale`
(`CountFallsOnlyIfStale`).

**TOTP** (`Totp_proofs`). `TypeCorrect`; `LoginsAreSpaced` (`SpacedPerWorker`),
from `Remembered` (the row's `last_used_at` is no earlier than any login with its
secret that it was not set back behind) and `Waited` (a worker loaded the row
after its own last login, and whether its check has passed or it has stamped the
row, its own clock was then 30 seconds past that login); `FourLoginsPerCode`
(`AtMostFourLoginsPerCode`), from `InTime`: the logins of a worker with one code
fall into different time steps, and all but the last into the three that the
code is correct in. `LoginsForgottenOnlyToStale` (`ForgottenOnlyIfStale`): a
request whose row nobody changed since it was loaded commits a stamp no earlier
than any login. `OneWorkerRefusesUsedCodes`: with a single worker there is no
other request (`OneAtATime`), so nothing is forgotten, and `UsedCodesRefused`,
which two workers can break, holds. `UnconfirmedOnlyToStale`
(`UnconfirmedOnlyIfStale`).

**Backup codes and rate limiter** (`BackupCodes_proofs`). `TypeCorrect`;
`EveryLoginAudited` (`LoginsAudited`), counting the requests that have their
audit row and are owed a login (`AuditsCover`); `LimitsAddUp` (`LimitPerWorker`).
The latter has an invariant of its own, `WindowsInv`: the admissions of an open
window are numbered up to its counter and no older than it (`OpenWindows`); those
of a window that ran out are older, and the first of them has aged out
(`PastWindows`); a kill accounts for one window (`LostWindows`). The admissions
then map one-to-one into a set of `2 * Limit - 1` places a worker and `Limit` a
kill.

**Token endpoint** (`TokenEndpoint_proofs`). `TypeCorrect`; `NonceIsKept`
(`NonceKept`), from `TokensOnRecord`: the row of a code is at most the code's
lifetime and a request's timeout older than the token, so with
`RetentionAssumption` cleanup comes too late to take it from a valid token;
`RevokedGetsNothingEver` (`RevokedGetsNothing`).

**Client authentication** (`ClientAuth_proofs`). `TypeCorrect`; `OnlyOnRecord`
(`AcceptedOnRecord`, with x5c as the code has it): the history covers the registry as it is (`Watched`), and
what the queries behind a request found was in it (`Passed`). `EntitledGetsIn`
(`EntitledAccepted`): as long as no command intervenes, the authenticators
behind a request would still find no client (`Exhausted`).

**Installer** (`Installation_proofs`), for any number of CA names, runs and
generated values. A run starts from its first step whatever failed before, so
each conjunct of `IInv` says what the steps that are past have left:
`Configured` (the `SECRET_KEY` in the configuration, then the signing key),
`SecretShown`, `CARegistered` (an active row for the run's own certificate,
unless `add-ca` skipped the name), `CertIssued`, `RenewalInStep`. From it follow
`TypeCorrect`, `SigningKeyIsReadable` (`SigningKeyReadable`), `ShownIsStored`
(`ShownSecretStored`), `RegisteredCAIsTrusted` (`FreshCAIsTrusted`) and
`RenewalsKeepTrust` (`RenewalKeepsTrust`, an action property).

**Migrations** (`Installation_proofs`), for any number of processes and tables.
Through `SchemaIInv`: `SchemaTypeCorrect`; `OneCreator` (`SoleCreator`): the table a creator is at says
how many there are (`InStep`), so whoever loses the race for the first table is
out; from it `RecordedIsComplete` (`HeadIsComplete`), since a count of tables
between none and all has a creator at work (`Unfinished`), and
`SuccessIsRecorded` (`SuccessRecorded`).

**Model-checked only.** `CodesRemoved`, since liveness under fairness is out of
the prover's reach, and the four violation runs, whose counterexamples are the
result.

## 5. Not modelled

* *Configuration wiring.* Which TOML section is read, and whether it has every
  key the handlers use, is decided once at start. The models assume a complete
  configuration.
* *Cryptography and libraries.* py_webauthn, pyotp, bcrypt, Fernet, X.509 and
  Authlib are their verdicts; QR codes and formats are left out.
* *Error pages*, translations, templates, help texts, statistics, the wizard's
  forms; the audit rows of TOTP.
* *Back during an installer run*, which leaves the worker thread running beside
  the next run: one run at a time is modelled.
* *The demo relying party's set-up*, which does not get past its first check.

## 6. Plan

Written: the modules above, in this order, since the login flow and the one-time
tokens carry the service's promise and the installer its operation.

Next, models, where they add to what is checked:

1. `X2FA`: `LoginFlow` with `TokenEndpoint`, so that codes issued are codes
   exchanged and `NonceUnique` meets cleanup.
2. Installer: a second run beside the first.

Next, proofs: of every safety property the runs check there is one, so these
come with the models: for 1, that composing keeps what each part promises (the
nonce of a code from its issue to its removal); for 2, that two runs may break
`ShownSecretStored` and which part of `IInv` they leave.
