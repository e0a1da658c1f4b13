# Verification of goverifeye-api

goverifeye-api is the NestJS/PostgreSQL backend of a product authentication service. Vendors
generate batches of verification codes, print them on units, activate them for the market, suspend
and recall them; shoppers scan a unit and ask whether it is genuine; a platform operator reviews
vendors and products. This directory holds TLA+ models of its components, TLC configurations that
check them on small instances, and TLAPS proofs of the properties that matter most. Every definition
is translated from the source (paths below are relative to the repository's `src/`); `PROJECT.json`
maps each one to its lines.

## 1. The system

Several instances of one stateless process (`main.ts`) share one PostgreSQL database through TypeORM,
an object store (Supabase) and a mail provider (Resend or SMTP). A request is a sequence of SQL
statements. Three things decide what a handler can do to another one:

* **Row locks.** Some handlers run in a transaction and read with `pessimistic_write`. Such a handler
  is one atomic step, as long as all it depends on is locked.
* **Read, change, `save`.** Others read an entity without a lock, check it, change it in memory and call
  `repository.save`. `save` is two statements: a SELECT that finds the columns in which the row differs from the
  entity, and an UPDATE of just those columns. Whatever changed between the read and the save is
  written back, even columns the handler never touched. `BaseEntity` has a `@VersionColumn`, but nothing
  compares versions on an UPDATE.
* **Timers.** The outbox worker and the anomaly worker of each instance poll the same tables.
* **The bucket.** Objects are stored and removed by calls that no database transaction covers: each is a step of its own,
  and a handler may end between one of them and the save that belongs to it.

### Inventory

| Component | State | Operations | What is hard | What makes it correct |
|---|---|---|---|---|
| Code batches (`codes/`, `platform/platform-manage-codes`) | `code_batches`, `verification_codes`, `product_batches`, `batch_activation_events`, `recall_actions` | generate, release, reveal, activate, suspend, reactivate (batch, code), recall (batch, product), verify | locked and unlocked handlers meet on the same rows; verify locks one of the four rows it reads | units are bound to one lot by one activation; verdicts are true; a recall is final |
| Activation limits (`codes/batch-activation.service.ts`) | `batch_activation_limits` | vendorAccess, failedAttempt inside reveal and activate | three counters per request, in deadlock-free order; rolling windows | never more than the allowed wrong tries; cooldowns fixed; nobody waits for ever |
| Code generator, namespaces (`codes/`) | `code_namespaces` | allocateCodes | capacity boundary, first use | serials are never shared |
| Scan identity, anomalies, fraud cases (`codes/`) | `scan_sessions`, `verification_events`, `fraud_cases` | start and consume nonce, assess, upsert case | nonce reuse; unlocked find-or-create by several workers | a nonce is spent once; one open case per category |
| Products (`products/`) | `products` | create, update, archive, restore, resubmit, images, counters | every writer saves the whole entity | status changes are not undone by unrelated saves |
| Governance (`governance/`) | `organizations`, documents, change requests, audits, incidents, MFA factors | reviews, setProductStatus, change requests, MFA | reviews of data that changes meanwhile | a decision applies to what was reviewed |
| Vendor onboarding (`onboarding/`, `approvals/`) | `organizations`, documents | drafts, submit, decide | edits during review | no edit after submission |
| Authentication (`auth/`) | `users`, `auth_sessions`, `otp_challenges`, `password_reset_challenges`, `mfa_login_challenges` | register, login, refresh, logout, revoke, reset | rotation without locks; parallel guesses | revoked stays revoked; a token is spent once; attempts are limited |
| Vendor and platform teams (`team/`, `platform/platform-team`) | `team_members`, invitations, `users` | invite, accept, update, deactivate | counting administrators without a lock | an organisation keeps an administrator |
| Platform generation (`platform/platform-generate-code`) | placeholder products, `open_market_batches`, `open_market_claims` | generate for a vendor, open market | find-or-create under advisory locks, by name and status | batches lie on active products |
| Shoppers (`customer/`) | `shoppers`, `shopper_sessions`, `shopper_challenges`, `customer_checks`, `customer_concerns`, `customer_support_requests` | challenges, check, report | retries with one requestId | a retry returns the first answer and counts once |
| Outbox and jobs (`operations/outbox-processor`, `artifact-job`, `email-delivery`) | `outbox_messages`, `background_jobs`, bucket | enqueue, drain, claim, process | several workers, failures after every statement | one worker per message; no second delivery; every message settles |
| Idempotent requests (`operations/reliability`) | `idempotency_records` | execute | concurrent and repeated requests, failures half way | one answer and one job per key |
| Commerce (`commerce/`) | `code_pricing`, `background_jobs`, `payments`, `support_tickets` | createJob and single-row writes | - | through idempotent requests |
| Products' and vendors' files (`products/product-image-storage`, `onboarding/document-*`) | the bucket, URL columns, `organization_documents` | upload, set, replace, delete | two systems without a transaction | a verified row has its file; a file disappears only for its owner |
| E-mail templates, profile, notifications | their own tables | single-row writes | - | unique active template |
| Reports, guards, storage bootstrap, seeds, assembly | none of their own | reads, wiring, start-up | - | - |

How they interact: `customer.check` calls `codes.verify` in its own transaction, which consumes a scan nonce,
counts on the code and the product, and opens alerts. `reveal` and `activate` count against the activation
limits inside their own transactions. `createJob`, OTPs, resets and reviews put a message into the outbox in
the transaction that makes the change; the outbox worker runs the artifact job or sends the e-mail. A
password reset revokes all sessions. `JwtStrategy` reads the session and the user on every request.

## 2. Modules

| Module | Models | Kind |
|---|---|---|
| `CodeLifecycle` | batches, units, lots, product status; all writers; verify statement by statement | component |
| `ManagedCodes` | what the platform's and the vendor's pages show of those rows | views over `CodeLifecycle` |
| `CodeLifecycleProofs` | seven theorems, and four about `Scans` | proofs |
| `RollingLimit` | what `docs/batch-activation-v3.3.7.md` promises of one failure counter | abstract specification |
| `ActivationLimits` | vendorAccess, lockLimit, failedAttempt | component, refines `RollingLimit` once per counter |
| `ActivationLimitsProofs` | four theorems | proofs |
| `Sessions` | login, refresh, logout, logoutAll, revokeSession, the reset's UPDATE | component |
| `SessionsProofs` | four theorems, and three about `SignIn` | proofs |
| `SignIn` | one-time codes and registration, password sign-in, MFA challenges and factors, reset codes | composition over `Sessions` |
| `Outbox` | claim, delivery, artifact jobs, outcome | component |
| `JobRequests` | `createJob` in `ReliabilityService.execute` | composition over `Outbox` |
| `JobRequestsProofs` | five theorems, and three about `Files` | proofs |
| `VendorDocuments` | the documents of a vendor and their objects | component |
| `Vendors` | registration, edits, submission, decisions, change requests, invitation, deletion, announcements | composition over `VendorDocuments` |
| `VendorsProofs` | five theorems | proofs |
| `Team` | accounts, member rows and invitations of a vendor and of the platform | component |
| `TeamProofs` | four theorems | proofs |
| `Shoppers` | codes, accounts, sessions, checks, concerns and messages of one e-mail address | component |
| `ShoppersProofs` | four theorems | proofs |
| `Scans` | browser sessions and nonces, judgement of scans, background pass, fraud cases | component |
| `Gve16` | the Feistel network that makes a token of a serial | algorithm |
| `Generation` | products, serials and batches: own, assigned and open generation | component over `Gve16` |
| `OpenMarket` | lookup, link and confirmation of inventory | composition over `Generation` |
| `OpenMarketProofs` | eight theorems, one of them about `Gve16` | proofs |
| `Files` | images, verification documents and logos, and the columns that name them | component |
| `MC*` | values, constraints and symmetry for TLC | instances |

Some modules end with an operator `TypeOK` that no run lists. It says what the shape of each variable is; the runs check
properties in its place, nearly all of which evaluate to an error on a state of another shape.

### How state and actions correspond to the code

What is one step is decided in the same way everywhere. A transaction that holds the lock of all it reads is
one action, taken when it commits. A read without a lock is a step, and so is the save that writes back what was read,
with every column that differs, or the whole row when it is gone in the meantime. A call of the bucket or of a provider is a step. A
handler whose later steps can fail has an abort.

**CodeLifecycle.** `product`, `batch`, `code` and `lots`/`lotDates` are the rows. `Generate`, `Release`, `Reveal`, `Activate`,
`RecallBatch`, `RecallProduct` and `PlatformSuspend` hold their locks. The handlers without locks have an action per statement:
`CodeRead`, `CodeDiff`, `CodeSave` for `setCodeStatus`; `SwitchRead`, `SwitchCodes`, `SwitchDiff`, `SwitchSave` for the
vendor's `suspendBatch` and `reactivateBatch` (three separate transactions in the code); `ScanLock` to `ScanCommit` for `verify`,
whose lock on the code row every other writer of that row waits for (`Unlocked`). `PinCheck` is the database constraint
`CHK_batch_pin_release`: a row that violates it makes the statement fail. `SetProductStatus` lets the product's
status take any value at any time, which covers every handler of the product. `activations` and
`recalledCodes` are history. `ManagedCodes` adds the reads: `Metrics`, `BatchList`, `BatchPage`, `CodeList`, `ExportRows` for the platform,
`VendorBatches` for the vendor.

**ActivationLimits.** `failures[k]` and `cooldownUntil[k]` are the row of counter k (a vendor, an address or a
batch). A request locks its vendor's and its address's row in the order of their hashed keys (`LockScope`), then the batch
(`EnterBatch`), checks the cooldowns, and later fails (`Fail`), ends otherwise (`Finish`) or is rolled back
(`Abort`). `Tick` moves the clock between any two of these. All instances share one clock.

**Sessions.** `row[s]` is a row of `auth_sessions`. `RefreshRead`, `RefreshUser`, `SaveDiff`, `SaveUpdate` are the
statements of `refresh`; `LoginRead`, `LoginInsert` and the same save those of `login`; `RevokeRead` and the save those of
`revokeSession`. `Logout`, `LogoutAll` and `ResetPassword` are one UPDATE each. A token is its rotation and
the second it was issued in, which is all that two tokens of one session differ in. `expiresAt` is left out: a refresh token's own
expiry is never later than its session's, so a request with an expired one ends before it reads the session.
`active` stands for "may sign in" (active, or the administrator of a vendor in onboarding).

**SignIn.** One vendor's e-mail address. `code` holds the rows of `otp_challenges`, `password_reset_challenges` and `mfa_login_challenges` as one
sequence in the order of their `createdAt`. A code is sent in two steps, the UPDATE that finds the open codes
(`SendBegin`) and the commit that consumes them (`SendCommit`), or none (`SendAbort`). `verifyOtp` takes no lock: `VerifyRead` reads the row
and counts the try in memory, `VerifyDiff` and `VerifyUpdate` are the two statements of its save. `MfaRead` and `MfaCommit` are `completeLoginMfa`, which locks
its challenge, followed by the sign-in; `ResetRight` and `ResetWrong` are `resetPassword` under its lock. `Register`, `LoginPassword` and `MfaCommit` start
the `LoginRead` of `Sessions`, and `ResetRight` is its `ResetPassword`. The rows of `factors` are read and saved without a lock (`BeginMfa`, `VerifyMfa`,
`DisableMfa`, then `FactorSave`). Codes that expire are refused like unknown ones and are no steps. A wrong code of a second
factor is compared and then forgotten (`MfaWrong`): its count is rolled back, so the tries of an MFA challenge have no end. A code or a password is right or wrong. `wins`, `wrong` and `crossed` are history: the last records codes that were checked
while they were checked or replaced.

**Outbox and JobRequests.** `message[m]` is a row of `outbox_messages`, numbered in the order of creation, `worker[w]` the
worker of an instance. `ClaimLock` and `ClaimCommit` are `claim`; `SendOk`/`SendError` the providers;
`JobStart`, `Upload`, `JobComplete`, `JobFail` and their errors `ArtifactJobService.process`; `Settle` the save at the end
of `process`. `SettleError` and `Crash` leave the message in `processing`, as the code does. `record[k]` is the idempotency
record, and `Find`, `Insert`, `Work`, `Complete`, `Undo` the statements of `execute` around `createJob`; `Stop` is a process
that ends in between. A failed statement is taken to have had no effect, except that an upload or an
e-mail may have been taken although the call failed. The limit of twenty messages a poll is left out: the worker
polls again.

**VendorDocuments and Vendors.** `org` is the vendor's row of `organizations`, `user` its administrator's account, `docs` and `stored`
the document rows and their objects. The decisions (`DecideOnboarding`, `ReviewChangeRequest`), `Submit` and `Complete` lock the row and are
one action; `Company`, `Address`, `VendorLogo` and `VendorLifecycle` read it, and `Save` writes it later; a change
request is checked under FOR SHARE (`CreateChangeRequest`) and committed later (`CommitChangeRequest`), and no writer of the row gets in between
(`Writable`). Documents are added, completed, renamed and deleted in the order of their calls (`AddDocument`, `Upload`,
`CompleteDocument`, `SaveDocument`, `DeleteObject`, `DeleteRow`), and every request can end between two of them (`EndEarly`). `mails` is what was
put into the outbox about the vendor, with the event identifiers of `onboarding-welcome`. One field (`companyName`) stands for
the profile; the malware scanner is one reason more for a completion to fail. `crossed` and `torn` are history: they record that requests
overlapped on the row, or left a document half changed.

**Team.** `users`, `members` and `invitations` are the rows. No handler locks any; each is a `Begin` with its checks (`Invite`, `Accept`, `Update`, `Deactivate`,
`Reactivate`, `PlatformUpdate`, ...) and a commit (`CommitInvite`, `CommitMember`, `CommitPlatform`, ...). `pendingEmail` is the unique column that the two
teams' invitations share. `Lifecycle` is the platform's deactivation and reactivation of the vendor, which changes accounts and not
member rows. `Seed` is the start-up seed of the super administrator. `drifted` and `revived` are history: two requests about members overlapped or rows and accounts
differ; a revoked invitation was saved back open.

**Shoppers.** One e-mail address with the challenges mailed to it, its account, sessions, and the checks, concerns and messages under
client-made identifiers. `Login`, `VerifyAction` and `ResetPassword` hold the challenge's lock while argon2 runs; `PasswordLogin`,
the account of a reset and `HandleConcern` are read without one. A code is sent by an UPDATE that locks the codes it replaces (`ReplaceChallenges`) and by the
insert (`CommitChallenge`); a reset reads the account, `save` selects it again (`FindAccount`), and updates or inserts it (`CommitReset`); `DeleteAccount`,
`LockAccount`, `DeleteChallenges` and `CommitDelete` are the statements of the deletion that can wait. `held` has the challenges a call has locked. `tries`, `wins`,
`done` and `meanwhile` are history: the last has the codes sent after a deletion deleted the codes and before it committed.

**Scans.** `sessions[s]` is the row of a signed cookie with its current nonce; `Scan` locks it and the code, judges the scan, and `Verified` commits the count,
the event and the case. `SwitchCode`, `CompareCode` and `SaveCode` are the read of `setCodeStatus` and the two statements of its save, which writes every column that differs,
the count included; `SwitchBatch` stands for the handlers that change the status alone. `scans` counts the events of a code; `rewound` is history, the codes whose count a
switch wrote back. Fraud cases are read and saved by three kinds of requests without a lock: a scan (`openAdminAlert`), the
background pass (`StartPass`, `FindCase`, `Upsert`) and reviewers (`Review`, `Reviewed`). What the pass finds is any set of
its categories: the statistics are SQL aggregates over events that the model does not keep. `Forget` moves the windows of ten minutes and two
hours.

**Gve16, Generation, OpenMarket.** `Gve16` has the ten Feistel rounds over halves of sizes `LeftSize` and `RightSize`, with any function of the
version of the key, the namespace, the round and the half in the place of the HMAC. In `Generation`, `VendorReads`/`ReviewerReads` and `Save` are the unlocked edits, `GenerateOwn`, `GenerateAssigned` and `GenerateOpen` start a
batch, `LockProduct`, `Reserve`, `Commit` are the lock of the product, the advisory lock with the namespace row, and the end of
the transaction. A batch is made with any version of the key, because instances of two versions run while it is rotated, and `TokensFree` is the unique index on
namespace and token. The products that hold the platform's batches are found by their name (`holding`) and status or else inserted active (`Resolves`), by
`RepeatAssigned` also when the key already has its batch; edits, reviews, archiving and a vendor's own batches take them like any other product, and any product may be
renamed. `reviewed` and `origin` are history: the products somebody approved, and who made each. In `OpenMarket`, `LinkReads`/`LinkSaves` and `VerifyReads`/`VerifyFails` save a claim they read without a lock;
`VerifyLocks` and `VerifyCommits` are the confirmation, under the locks of claim, inventory, product and batch.

**Files.** `file[f]` is an object of the bucket and `row[r][k]` the URL in a column. Each request is its read, its calls of the bucket
and its save, in the order of its operation: a delete removes first and saves then (`DeleteRemove`, `Save`), a replacement saves first and
cleans up then (`Save`, `SetRemove`). `Fail` ends a request anywhere. `create` and `update` take any URL (`Edit`).

## 3. Runs

| Run | Question | Result |
|---|---|---|
| `code_lifecycle` | Do the bindings of units stay whole, is what the platform lists as activated activated, and are genuine verdicts true at commit, with one `setCodeStatus`, one batch switch and one scan interleaved statement by statement with every other handler? | holds |
| `lots` | Do batches in one lot agree on its dates, and is a recalled unit never genuine again, if nobody switches single codes? | holds |
| `recall_overwritten` | The latter with `setCodeStatus` | violated, finding |
| `activation_limits` | Is each counter a rolling limit, are cooldowns fixed, does every request end? | holds |
| `sessions` | Is a token spent once, does a live row hold one token, is a revocation final unless a refresh holds the row, is a code accepted once, a one-time or reset code within its tries, and not after it was replaced? | holds |
| `job_requests` | One answer and one job per key, one worker per message, no second delivery, true outcomes, every message settles? | holds |
| `vendors` | Does access follow the platform's decisions, is every review announced, does a verified document have its file, does an approved edit replace the value its vendor saw? | holds |
| `team` | Does a vendor keep an administrator, does nobody hold two open invitations, are deactivated members out? | holds, unless requests about members overlap |
| `shoppers` | Does a code win once within its tries, has a repeated request one effect, does a deleted account stay deleted? | holds, unless a code is mailed while it is being deleted |
| `scans` | Is a nonce accepted once, are copies suspected from the threshold on, does every suspicion find an open case? | holds, unless `setCodeStatus` writes a count back |
| `generation` | Are serials given out once, do tokens read back under the key they were made with, does the unique index refuse only after a rotation, are only reviewed products active, or those inserted for a batch, do only active ones get codes, is inventory sold once? | holds |
| `files` | Do files disappear only by requests of their owner, and does a replacement spare the file its row names? | holds |

### The finding

**A recalled unit can be genuine again** (`recall_overwritten`). `setCodeStatus` reads a code that is live, `recallBatch` commits,
and the save writes `revoked` over `recalled`. A `reactivateBatch` that had read the batch before the recall then sets
the code, and the batch, back to `market_active`. `docs/GVE16_TEST_PLAN.md` (GVE-12) excludes this.

### What else the code does, as read while modelling

None of these has a run of its own; the models contain the behaviour wherever the component is modelled, and properties that it would break say so
in their exceptions (`crossed`, `drifted`, `revived`, `torn`, `meanwhile`,
`rewound`).

*Codes.* `reactivateBatch` sets `market_active` on a batch that was never activated (its units stay unbound, `LiveCodesBound`). A
suspension that overlaps with an activation saves the batch back without its lot; its units then answer `invalid`. The platform's lists compute
"suspended" from codes stored as `suspended` (`platform-manage-codes.service.ts:104`, `:141`, `:204`, `:222`), and none ever is: `revoked` is stored. `CHK_batch_pin_release`
refuses the recall of a released batch whose PIN is live. `verify` saves a product it read without a lock, which can make an archived one active
and lose scan counters.

*Sessions.* A refresh that read its session before a sign-out or a reset saves `revokedAt: null` over it. A shopper's `passwordLogin` opens
a session for a password that was reset meanwhile.

*Signing in.* Wrong answers to `verifyOtp` that overlap share one attempt, and one that overlaps with a replacement writes `consumed: false` back, so that the
replaced code can be used (`crossed`). The count of a wrong MFA code is rolled back by its own exception (`governance.service.ts:1007`), so that a challenge takes any
number of wrong codes and then a right one. `completeLoginMfa` saves the
factor it read without a lock, which turns a factor on again that was disabled meanwhile; so does `verifyMfa` with one that a newer enrolment superseded. `beginMfa` is
allowed while a factor is active, `disableMfa` turns off the newest only, and sign-in then asks for the older one. The administrator of a vendor in
onboarding who enrols a factor cannot sign in any more: `verifyLoginMfa` asks for `isActive`, where `login` does not.

*Outbox.* When the save at the end of `process` fails, the row stays in `processing`, which no claim selects, although the
log line promises a retry.

*Vendors.* A submission after the first is never announced, because its event is keyed by the organisation. A rejection leaves users active; an
approval activates members that were deactivated. Editing an approved vendor's company or address makes it a draft. Two change requests for one field
can both be pending. Renaming a verified document points its row at a key nothing was uploaded to. `deleteVendor` removes files before the transaction that may refuse the deletion.
`JwtStrategy` lets an inactive administrator in while the organisation is not approved.

*Teams.* Two administrators who leave, or are demoted, at once both count two. A change of a platform member's role or status changes only the
member row. A super administrator listed as `platform_staff` can be deactivated by a `platform_admin`. One's own account can be deactivated without a look at who is left. A revoked invitation can
be saved back open by a resend that read it before.

*Shoppers.* The vendor's update of a concern inserts it again when the shopper's deletion has erased it meanwhile. A reset whose code was mailed after
`deleteAccount` deleted the codes (`customer.service.ts:209`) and before it committed reads the account that is still there, and, when its `save`
finds it gone, inserts it again with its old identifier (`meanwhile`). Two requests for a code at once leave two codes that can both be used.

*Scans.* `setCodeStatus` (`codes.service.ts:510`) saves the whole row it read without a lock: verifications that commit in between are taken out of `verificationCount`, and
once the code is back on the market a fifth scan can be answered `valid` (`rewound`). `high_frequency` is always filed as "Possible cloning" (`anomaly-detection.service.ts:83`); the findings about IP addresses cannot fire, because no address is
stored; cases are read and saved without a lock and without a unique index, so that two passes can open two cases of one category.

*Generation.* A repeated key of an open-market batch that was claimed meanwhile makes a second batch. The code confirmed for one product
activates another when the claim was linked anew in between. Stale saves lose `totalCodes` and insert deleted products again; an active product's content can be edited without a new
review. The products that hold the platform's batches are ordinary rows: a vendor who has the identifier can rename, edit or archive one, or make codes for it, and it is active although
nobody approved it; the platform's next batch then gets another one, or lies on whichever active product has been given the name. Repeating `createBatch` with a used key inserts
such a product when none is active. `docs/batch-activation-v3.3.7.md:18` says that platform generation "cannot create a placeholder product"; it does (`platform-generate-code.service.ts:184`).
The round function takes the current version of the key (`cryptographic-code-generator.service.ts:123`), so after the rotation that `docs/VERIFICATION_CODE_LIFECYCLE.md:58` describes, tokens
of one namespace may meet those of the earlier version. The unique index refuses such a batch as a whole, `nextSerial` is rolled back with it, and every later batch of the organisation that takes the same serial is refused
too while that version is current. `decryptToken`, which only tests call, uses the current version and cannot read older tokens. `cancelBatch` cannot succeed. `seed-vendor.ts` leaves NOT NULL columns out and cannot commit.

*Files.* `update` leaves the replaced image in the bucket, a deleted product leaves all its files, and a delete that fails after its first half
leaves a row that names a removed file.

### Bounds, and why they are enough

* `code_lifecycle`: one controlled batch of two units, two products (own and placeholder), one lot, one request of
  each unlocked kind. Two units are what it takes for a batch to be half bound; one request of each kind already
  overwrites the others; a second scan would only wait. `lots` has two batches, one of each mode, because dates relate two batches, and
  two dates to differ in.
* `activation_limits`: two requests, two vendors with a batch each, one shared address; a threshold, window and cooldown of
  two; times 0 to 4, so that a window ends, a cooldown ends and another begins. `MaxTime` bounds the clock.
* `sessions`: one session (sessions of a user meet only in `logoutAll` and the reset, which take all of them), two
  requests, two seconds, rotations up to `MaxRotation` = 2 (two successors, so that an old token is two rotations behind), one
  reset (`MaxResets`). Of `SignIn`: three codes (`MaxCodes`), two of them one-time codes before the registration (one replaces
  the other), two tries (`MaxGuesses` = 3 bounds the wrong answers to an MFA challenge, which the code does not), two checks at once, two factors. After the registration `Bound` explores either the sessions, or codes and factors while
  at most one request signs in and one changes factors; they meet in a sign-in and in the reset, which both halves have.
* `job_requests`: two workers, two messages (one behind another), two attempts (a retry and then a dead letter), two requests
  with one key. Keys do not interact. `MaxMessages` bounds the table: a request whose job would not fit stays where it
  is, so `CHECK_DEADLOCK FALSE`; a system with no request and no message has nothing to do.
* `vendors`: one document, two document requests, one unlocked save, two change requests, two names, two decisions (`MaxDecisions`: an approval that is
  taken back, a second rejection), a reviewer who is a delegate. `Bound` keeps requests on a single document apart from requests on the
  row, with which they share nothing but the count of documents, and stops a behaviour that a history flag has excused.
* `team`: the registered owner, the root administrator, one person whom both teams may invite, two invitations (an old and a new one), two
  requests. `Bound` keeps requests about members apart from those about invitations, except `accept`, where they meet.
* `shoppers`: two calls, two codes, two accounts in turn (the deleted and the next), two passwords, two tries, one token and one
  request identifier. `Bound` keeps checks and concerns from overlapping with calls about codes: they meet in the account only.
* `scans`: one code, one browser, two requests and the pass, three scans with the threshold at three, three nonces, two cases. `Bound` has one finding in a
  pass, no fraud cases beside browser sessions, and neither these nor a second case beside switches of the code.
* `generation`: one vendor with two products and the platform with one, two idempotency keys, batches, requests, claims and
  claimants, two versions of the key; halves of sizes two and three, so serials up to 5 and batches of 1 or 3: the second batch of 3 does not fit, and
  tokens of the two versions do meet. `Bound` has five parts. `FewRequests`: two requests at a time, two saves only of one product. `FewStates` and `AllSettled`: one
  product with a name that belies what it is for, and before a second product or a batch all are active or were archived or recalled while active. `OneBatch`: the first batch
  has the old key, and a second one is checked but ends the behaviour; two requests beside the first batch both make that second one. `FewClaims`: once there is a claim,
  no more batches, one request about products at a time, two codes of claims sent in all, one claim that has expired or was answered wrongly.
* `files`: a product and an organisation of one vendor, two documents, two logos and an image of another vendor; two requests, on one row at a time
  (`Bound`), for requests on different rows share nothing.

Where runs say `CHECK_DEADLOCK FALSE`, a bound is what stops the system: no identifier, number or decision is left. Symmetry is used only in runs without liveness
properties.

### Fairness

* `ActivationLimits`: strong fairness of `LockScope` and `EnterBatch`, because PostgreSQL queues the waiters of a row lock and
  a request that waits gets it when its turn comes; weak fairness of `Fail \/ Finish`, because an admitted
  transaction waits for nothing. Nothing is assumed of `Begin`, `Abort` and `Tick`.
* `JobRequests`: weak fairness of each worker's own steps, because `setInterval` fires again and again, `drain` catches
  every error, and the calls it waits for end; of `ComeDue`, because time passes; strong fairness of
  `ClaimCommit`, because a database that is tried again and again commits a claim in the end. Nothing is
  assumed of requests, crashes and failing saves.
* The other modules have no liveness properties: what they describe happens when somebody asks for it, and no handler of theirs waits
  for anything but a row lock of a request that ends.

## 4. Proofs

`CodeLifecycleProofs`, for any batches, codes, products, lots, dates and numbers of concurrent requests:

| Theorem | States |
|---|---|
| `TypeCorrect` | `Spec => []TypeOK` |
| `LiveCodesAreBound` | `Spec => []LiveCodesBound` |
| `UnitsAreBoundTogether` | `Spec => []UnitsBoundTogether` |
| `LotDatesAlwaysAgree` | `Spec => []LotDatesAgree` |
| `GenuineVerdictsAreTrue` | `Spec => GenuineWhenCommitted` |
| `RecallIsFinal` | `Spec => []NoGenuineAfterRecall`, assuming `CodeWriters = {}` |
| `ListedAsActivated` | `Spec => []ListedActivatedIsActivated` |

The inductive invariant is `IInv == TypeOK /\ Binding /\ WritersHoldBoundCodes /\ ScansHoldLiveCodes`. None of the properties is inductive
alone. `Binding` says that codes exist exactly when their batch does, that units are unbound before the activation
of their batch, are bound all together by it, and that batch and lot keep their dates. Suspending and reactivating only move
the status of codes, so it is enough that they start from a bound code: `WritersHoldBoundCodes` says that a
`setCodeStatus` in flight holds a code that is, or was, live and hence bound, and `ScansHoldLiveCodes` that a scan past its
batch check holds a live code, which its row lock keeps live. `RecallIsFinal` adds that a code covered by a recall stays recalled as long as nobody
switches single codes (the run `recall_overwritten` shows that the assumption is needed). `ListedAsActivated` is about what `ManagedCodes` shows: a list
status is computed from the rows of the codes, which are live only where `Binding` says that one activation bound them all.

`SessionsProofs`, for any sessions, requests, seconds and rotations: `TypeCorrect`, `RevokedForGood` (`Spec => RevokedStaysRevoked`),
`TokensBuyOneSuccessor` (`Spec => []EachTokenIsSpentOnce`), `RowsHoldOneToken` (`Spec => []LiveRowsHoldOneToken`). The invariant adds what a request in flight
holds: a refresh or a sign-in holds a token of its own rotation, a replay or a revocation holds a row it has already
revoked; so no save but that of a refresh or a sign-in can write a revoked row live. For the last two, `OrderInv` is about the order of rotations: the
tokens accepted so far are older than the one a live row holds and than the one a refresh in flight will write; a stale save writes nothing newer than that
and always revokes; only a refresh or a sign-in writes a row live, with the rotation and the hash of one token.

The second half of `SessionsProofs`, about `SignIn`, for any codes, tries, checks and factors, and without `Bound`: `CodesAreSpentForGood` (`SignInSpec => []CodesWinOnceWithinTries`),
`SignInImplementsSessions` (`SignInSpec => Spec`, with the `Spec` of `Sessions`), `SessionsOfAVendor`, which carries the three theorems about sessions over to
a vendor who signs in by any of the ways. The invariant is `SInv`: the tries a row stores are the answers given for it, a row that was accepted or replaced is
consumed (`Counted`), and a request that checks a code which nothing crossed is the only one and holds the row as it is
(`Checked`); that is what the row locks give reset codes and MFA challenges, and what one-time codes have only while nothing overlaps.

`ActivationLimitsProofs`, for any vendors, addresses, batches, requests, windows and cooldowns:

| Theorem | States |
|---|---|
| `TypeCorrect` | `Spec => []TypeOK` |
| `CooldownsAreFixed` | `Spec => CooldownIsFixed` |
| `CountersAreRollingLimits` | `Spec => EveryCounterIsARollingLimit`: each counter implements `RollingLimit` |
| `NoMoreThanMaxAttempts` | `Spec => []NeverMoreThanMaxAttempts` |

An admitted request holds the locks of all its rows, locks exclude each other, and no row of an admitted request is cooling down (`IInv`): what
`vendorAccess` checked is still true when `failedAttempt` counts. `Rows` relates a row to all failures of its key: both are in
the order of time, the row is the end of the history, what it has lost is too old to count, and a row that is full has started a
cooldown. With it each step of the component is a step of `RollingLimit` or leaves its variables alone. `After` is the `filter` of
the code on a list in the order of time, written without recursion so that it can be reasoned about; TLC compares the two on all short lists (`AfterFilters`).

`JobRequestsProofs`, for any workers, messages, attempts, keys and requests:

| Theorem | States |
|---|---|
| `TypeCorrect` | `Spec => []TypeOK` |
| `MessagesAreNotShared` | `Spec => []OneWorkerPerMessage` |
| `StatusTellsTheTruth` | `Spec => []OutcomeIsTrue` |
| `OneJobForAKey` | `Spec => []OneAnswerPerKey` |
| `NothingIsDeliveredTwice` | `Spec => DeliveredOnlyOnce` |

The invariant is `OutboxInv /\ RecordInv`, and each half is kept by the steps of both modules. `WorkerHolds` says what the stage of a
worker means for the row it has in hand: pending while the row is only locked, processing once the claim is committed, acknowledged
exactly in the stage `delivered`. `MessageHolds` is the other direction: a pending message has an attempt left and was never acknowledged.
So a worker that stops leaves a row that nobody claims again, which is why nothing is delivered twice, and also why it is not
settled. For the keys, an owner holds a record in `processing` (`RequestHolds`), no two owners have one key (`OwnersApart`), and an answer
names the job of a completed record (`KeyHolds`).

The second half of `CodeLifecycleProofs`, about `Scans`, for any codes, browsers, requests and thresholds:
`ScansTypeCorrect`, `NoncesCannotBeReplayed` (`ScansSpec => []NoncesAreSpentOnce`),
`CopiesAreNotCalledSafe` (`ScansSpec => CopiesAreSuspected`), `SuspicionsHaveCases` (`ScansSpec => SuspicionsAreFiled`). `SessionHolds`: the latest nonce of
a session has not been spent. `CallHolds` and `CallsApart`: locks exclude each other, so that a scan in flight holds the current nonce and the
current count. `Counted`: a count that no switch has written back is the number of events. The last theorem needs that a set of live cases of one category has a latest one (`LastOne`, since the natural numbers are well
founded: `WFMin`): a suspicion extends it, or opens a case if there is none. These
theorems hold without the constraint `Bound` under which TLC explores the module, so what `Bound` leaves out is covered by them.

`OpenMarketProofs` begins with `TokenLeadsBack`: each round of the network is undone by the round that decrypts it, for halves of any size and any round
function, so ten of them lead back, if both sides have one version of the key. Then, for any vendors, products, keys, versions, requests, claims and claimants, and without `Bound`:
`TypeCorrect`, `SerialsNeverCollide` (`Spec => []AllocationsNeverCollide`), `TokensLeadBack` (`Spec => []TokensReadBack`, at the real sizes of 1,000 and 10,000
where the run has two and three), `OneKeyNeverMeets` (`Spec => []OnlyRotationsRefuse`), which joins the last two: serials of a namespace are distinct, and of two distinct serials one version makes
two tokens. The invariant is
`Wellformed /\ SpacesKnown /\ SpacesApart /\ BatchesCovered /\ BatchesApart /\ ReservedAlone`: two organisations never have one namespace;
the serials of a batch lie below the next one of the namespace they are from (`BatchesCovered`; not of the namespace of the
organisation that has the batch now, because a claim moves batches); and who has reserved serials is alone in his
organisation and has its row as it is (`ReservedAlone`), which is what the advisory lock gives.

The second invariant, `Trades`, gives `ActiveWasReviewed` (`Spec => []ActiveProductsWereReviewed`), `CodesFromActiveProducts`
(`Spec => CodesComeFromActiveProducts`) and `SoldOnce` (`Spec => InventoryIsSoldOnce`). It says that every status that could become active, in a row, in
its `statusBeforeArchive` or in the copy a request is about to save, was reviewed or is that of a product inserted for a batch (`ProductsCleared`, `RequestTrades`); and
that a confirmation which is going to commit is the only one with its claim and its
batch, and has its product's row as it is (`DealTrades`).

`VendorsProofs`, for any documents, names, requests, decisions and administrators, and without `Bound`:

| Theorem | States |
|---|---|
| `TypeCorrect` | `Spec => []TypeOK` |
| `DocumentsHaveTheirFiles` | `Spec => []VerifiedDocumentsHaveFiles` |
| `AccessIsDecided` | `Spec => []AccessFollowsDecisions` |
| `ReviewsAreMailed` | `Spec => []EveryReviewIsMailed` |
| `EditsStay` | `Spec => NoEditIsUndone` |

The invariant has a half for documents and one for the organisation. `Whole`: a document that no two requests have had at once is in the hands of
one request at most; its row has its object unless that request is deleting it, and so has the row a request is about to save. `Copies`: as long as
no whole-row save has crossed another change, the copy of the organisation in an unlocked request is the row but for what that
request changes. That is why an approval or an accepted name survives its save. `Nobody`: nothing is in flight for an administrator
who is not there. `OutcomeEvents`: a message about a decision has that decision's number for an event, so that a later message with
the same event id cannot have been dropped for an earlier decision.

`TeamProofs`, for any people, invitations and requests: `TypeCorrect`, `AnAdministratorIsKept` (`Spec => []AnAdministratorRemainsUnlessDrifted`),
`InvitationsAreAlone` (`Spec => []OneOpenInvitation`), `DeactivatedStayOut` (`Spec => []DeactivatedMembersAreOut`). Accounts never change sides, so a request about a
member of the vendor stays one (`Sides`). An open invitation has its e-mail in the unique column until a save revives one (`Pending`, `Unrevived`).
Until two requests about a team overlap, what a request has read is what it saves over, and the member rows agree with the
accounts, so that counting either finds the same last administrator (`Undrifted`).

`ShoppersProofs`, for any callers, codes, accounts, request identifiers and limits, and without `Bound`: `TypeCorrect`, `CodesWinOnce` (`Spec => []ACodeWinsOnce`),
`RetriesCountOnce` (`Spec => []RequestsAreDoneOnce`), `DeletedAccountsStayDeleted` (`Spec => DeletedStaysDeleted`). The row of a code tells all guesses and whether
one was right (`Counted`), and a code that is being checked is locked by one call (`Apart`). A reset that has locked its code
holds the account it read, or has a code from `meanwhile` (`Holds`): `deleteAccount` also deletes the codes it finds, waits for that lock, and so cannot come in
between, while a deletion that has deleted the codes holds all of them but those sent since.

The second half of `JobRequestsProofs`, about `Files`, for any rows, columns, files and requests: `FilesTypeCorrect`, `FilesBelongToTheirOwner`
(`FilesSpec => FilesAreRemovedByTheirOwner`), `ReplacementsSpareTheirRow` (`FilesSpec => ReplacementLeavesNoDanglingRow`). The last needs that a replacement
whose row nobody saved after it finds its own file there (`Saved`).

The assumptions are the ASSUMEs of the component modules, which TLC evaluates in the runs. Two proof modules extend two components that share
no state, `CodeLifecycleProofs` and `JobRequestsProofs`; therefore `Scans` and `Files` have names of their own for what every module has
(`ScansSpec`, `FilesSpec`, `Null`).

Only model-checked: liveness (`EveryRequestEnds`, `EveryMessageSettles`), which needs ENABLED. Every other property of a passing run is a theorem. The
type invariants `TypeOK` are proved and in no run.

## 5. Not modelled, and the plan

Left out of the modelled components, because it stops a request before it changes anything or is never read back: checks of permissions other
than those a property is about, audit rows, texts of e-mails and pages. `cancelBatch` has no action: no transaction
commits a batch in `generating`. `docs/GVE16_TEST_PLAN.md` (GVE-11) still describes five failed attempts revoking a batch; the code and the
newer `docs/batch-activation-v3.3.7.md` have the cooldown instead.

Parts of components that are left out:

* *Governance*: incidents, the profile history of a vendor, dashboards, listings.
* *Scan analysis*: the statistics of the anomaly pass are SQL aggregates over a window of events. What they find is
  any set of categories in `Scans`.
* *The code generator*: HMAC-SHA256 and the base-36 text with its check characters. `Gve16` takes any round function, which covers HMAC.
* *Commerce*: quotes and price lookups are single-row writes; the code answers that payments are not implemented.
* *Profile, notifications, tickets of vendors*: single-row writes of one user.

Components that are left out as a whole: reports, dashboards and audit log reads (read only), guards, filters and logging
(stateless), storage bootstrap, application assembly and configuration (once, at start-up), e-mail templates (text; a partial
unique index keeps one active version per key).

Next, in this order:

1. The abstract life of a unit as a shopper sees it (never sold, on the market, off the market, recalled for good), and `CodeLifecycle` as an
   implementation of it where nobody switches single codes; then the proof of that refinement.
