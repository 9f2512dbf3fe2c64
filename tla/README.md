# Verification of the project delivery service

The service takes an approved contract, splits it into service items, and leads every
item through assignment, planning, field work and reporting. These modules specify what
the code under `src/` does, the TLC configurations check it on small instances, and the
`*_proofs` modules prove the safety properties for every value of the constants.

## The system

All state lives in MySQL (InnoDB, the default isolation level REPEATABLE READ). Requests
run in any number of API processes; background work runs in Temporal activities or in an
in-process loop. No process keeps state that another one depends on, so the interleavings
that matter are those of database transactions, of what a command has read before its
transaction, and of leases.

| Component | State | Operations | What is hard |
|---|---|---|---|
| service item delivery (`application/delivery_*.go`, `mysql/delivery_events.go`) | `pm_service_item`, `pm_delivery_event`, `pm_impl_plan` | one event per command, applied under the row lock | reads before the lock; a snapshot fixed before the lock; long sequences of revocations and rollbacks |
| report ledger (`mysql/delivery_report.go`) | `pm_report_revision` | artifact, phases, supersession, correction | three persons per revision; files verified outside the transaction |
| equipment (`delivery_equipment.go`, `delivery_capabilities.go`) | `pm_equipment_reservation`, `pm_capability`, the equipment list of `pm_impl_plan` | reserve by day, return, delete | several items, one device; row locks one after the other |
| project board (`domain/project_status.go`, `mysql/repository.go`, `monitoring.go`) | status columns of `pm_project` | derived in Go and in SQL | two derivations of one thing, on rows with old and unknown words |
| decomposition (`delivery_contract.go`, `repository.go`) | items of a project | activate, adjust, confirm, return | archives items others are working on |
| split rules (`split_config.go`) | policy, overrides, categories | read by every activation, edited | merged lines with different requirements; edits between two reads |
| contract identity (`contract_identity_guard.go`, `mysql/contract_import.go`) | guard rows, projects, import bindings | activate, create, import, supplement | two tables, two names of a contract, no common key |
| delivery effects, notifications, audit (`delivery_effects.go`, `delivery_outbox.go`, `auditoutbox/`) | three outbox tables | claim, publish, acknowledge, retry | leases, crashes, lost answers, duplicates |
| SLA scan (`delivery_outbox.go`, `delivery_sla.go`) | reminders, rules | scan, administer | overlapping and repeated scans, a key per day |
| native scope change, supplement exit | `pm_native_scope_change` | request, decide, withdraw | a proposal against an old scope; another lock order |
| import confirmation (`import_confirmation.go`, `import_operation.go`) | operation ledger, imported rows | confirm | retries at the same time, one key for two files |
| penetration package | `pm_penetration_work_package`, its report | decision, plan, execution, report | checks before the transaction; gates on the item that contains it |
| handover | freezes, receipts | freeze, transfer, complete | late and repeated transfers; responsibility moves under commands in flight |
| project export (`project_snapshot.go`) | none of its own | stream of all projects | pages and statements of one snapshot; limits |
| sessions (`platform/oidc*.go`, `platform/session_*.go`, `sessiongovernance/`) | `pm_oidc_login_transaction`, `pm_oidc_session`, a cache of answers | log in, use, refresh, rotate, report activity, log out | a row is read, other services are asked, the row is written; meanwhile others do the same or revoke it |
| background control | Temporal schedules | pause, drain, migrate, promote, resume, restore | three schedules changed one by one; processes die between two |

How they interact: a command of the application layer reads (authorisation, evidence, the
version the client saw), then `ApplyDeliveryEvent` opens a transaction that locks the item,
runs the handler (`applyItemEvent`), locks the project, runs `applyProjectEvent`, refreshes
the cached project status and writes the event with its outbox rows. Everything later is
driven by the outbox rows.

## Modules

### ServiceItem

One item of a contract project, every event of `applyItemEvent`.

* `item` is the locked row; statuses carry English names (`PendingConfirm` 待确认,
  `PendingReview` 待复核, `PendingAssign` 待分配, `PendingExecution` 待实施, `Preparing`
  实施准备中, `InProgress` 实施中, `Exception` 异常处理中, `FieldCompleted` 现场实施完成,
  `Terminated` 已终止). `plan` and `reserved` are the two places that say which device the
  item holds. `ledger` is the table of report revisions. `requests` and `reported`,
  `reviewed`, `evidence` are the parts of the event history that handlers look up.
* One action per event. An event whose checks all run under the lock is one action.
* Where the application layer decides on what it has read before the lock, the command is
  two actions: `Send...` reads and puts a command into `inflight`, the second action applies
  it. `versioned` says whether the client sent an expected version. The handlers compare it
  under the lock, and every event that changes the row bumps the version, so a versioned
  command disappears from `inflight` as soon as such an event commits (`Surviving`); version
  numbers themselves are not kept. Commands that read nothing of importance before the lock
  need no first step: with a version they apply to the state they saw, without one to
  whatever state there is.
* A review of a deviation is two steps for another reason: `ApplyDeliveryEvent` makes a
  plain read before it locks the item, and under REPEATABLE READ that read fixes what the
  later plain reads of the handler see. `SnapshotReview` is that read.
* `stamped` numbers deviation reports in the order of their `created_at`, which is taken
  before the transaction; `reported` are those that have committed.
* `open` and `approvedBy` are observations for the properties, no column holds them.

Abstracted: payloads, names, dates and texts; engineers and their qualifications (the
verdict of `AssignExecutionTeam` is an input); the days of a reservation (other items'
reservations can refuse a preparation, which here is a step not taken; see
`EquipmentReservation`); SLA time stamps. Left out: the gates of the penetration package and
the guard of native scope changes, which only refuse events (`PenetrationPackage`,
`ProjectScope`); the archiving of items by an adjusted decomposition (`ProjectScope`).

`SpecialMethods` says which kinds of items an instance has, `{TRUE, FALSE}` where both are
wanted.

`ReportRegister` is what the report promises to those who rely on it: numbered revisions, of
which the last goes through its phases and the earlier ones are as they were when they were
replaced; who asked for a replacement, who approved it, and which requests are settled. There
is no item, field work, version or command in flight in it. `Register` maps to it what a reader
is shown (`Shown`): the rows of the ledger, the current one in the phase the item has, also
before `ensureReportRevision` has written it.

`ServiceItemClaims` states what comments of the code say and the code does not do, one
definition per finding. `MCServiceItem` adds the symmetry set.

### DeliveryOutbox

The two outbox tables of the delivery domain, `pm_delivery_effects_outbox` and
`pm_notification_outbox`, which share one lease protocol. They are one module because the
completion of an effects job writes into the other table in the same transaction.

* A row is `<<event, kind>>`: the effects job of an event, the message written with the
  event itself (`Direct`), and the message its job derives (`Derived`). `outbox` holds
  status, owner (`locked_by`), lease (`locked_until`: NULL, in the future, past), whether
  `next_retry_at` has passed, and the failures counted.
* A worker is one execution of `Activities.RunOne`, which draws a new owner id every time
  and works on one row. Its steps are the points between which another transaction or a
  crash may fall: claim (`Claimed`), remote work (`Published`, `EffectsBuilt`), outcome
  (`NotificationSent`, `NotificationRetried`, `EffectsCompleted`, `EffectsRetried`), or the
  `ErrConflict` of an outcome that comes too late (`Conflicted`).
* `Abandoned` is a crash, the timeout of the activity and every license check that refuses
  between two steps: they have the same effect, the row keeps its lease.
* `accepted` is the platform, which keeps one message per idempotency key; `Published` takes
  its answer apart from what it did. `EffectsCompleted` with `heard = FALSE` is a commit
  whose answer is lost.

Abstracted: which rules match and who receives what (an input of `EventApplied`, one answer
of `EffectsBuilt`); a message to more than 500 recipients, which is cut into several rows of
the same transaction; delays, of which only "due" or "not due" is kept. A job whose payload
cannot be decoded is one whose `EffectsBuilt` always fails.

`DeliveryLedger` is what the two tables promise to the modules that write into them: a ledger
in which effects are none, due or done and a message is none, due, sent or dead, each outcome
happens in one step and nothing is claimed, leased, lost or late. `Ledger` maps a row to what a
reader is told of it (`Told`): PENDING, PROCESSING and RETRY_WAIT are all "due", whatever worker is
at the row. The failures counted and what the platform has accepted are the same on both sides.

### AuditOutbox

`prj_audit_outbox`, its dispatcher (one goroutine in every replica of the API) and the
operator's list of failures. The protocol differs from the other two: rows are claimed in
batches under one lease and worked off one after the other, outcomes are written by the id
of the row alone, and `MarkFailed` reads the attempts in one statement (`AttemptsRead`) and
decides in the next (`MarkedFailed`). `recorded` counts what the platform keeps of an event,
where "two" stands for "several"; each report has an id of its own, so each one it takes
counts. `attempts` saturates at `MaxTries`, from where on no statement distinguishes values.

`MCDeliveryOutbox` and `MCAuditOutbox` name the instances.

### OIDCSession

The sessions of browsers: the login transaction, the row of `pm_oidc_session` each login
makes, and the requests that use it. `central` says whether the platform governs sessions
(`CENTRAL_SESSION_ENABLED`); it is chosen at the start and decides which of two protocols
the requests follow.

* `session[l]` keeps of a row what decisions are made from: its status, the generation of
  the stored tokens (`token`) and rights (`revision`), whether the tokens are due, how long
  ago the rights were checked, and whether the next attempt is put off or the idle deadline
  passed. `provider[l]` is the newest token generation that was issued; the provider takes
  no other. Generations number what the code stores as opaque values.
* `request[r]` is one call of `Authenticate`, of the callback, or of an activity endpoint.
  Its steps are the points between which another transaction may fall: the read of the row,
  each call to provider or platform, each write. `GivenUp` is a call that fails or a browser
  that leaves; inside a transaction it rolls back.
* Central protocol (`authenticateCentral`): the state of the central session is asked first
  (`StateAsked`, and `StateHeard` when the answer reaches the cache), then come up to two
  transactions under the row lock, one that rotates the tokens (`RotationAnswered`,
  `RotationCommitted`) and one that checks the rights. `lock` is that row lock; updates
  outside of `WithSessionLock` wait for it.
* Local protocol: deadlines are judged when the row is read, since the clock of a request is
  read once; the row is written back later by `UpdateSession`, which asks only that it be
  not revoked and, by that clock, not expired.
* Time is the actions that make something due (`TimePasses`).

Abstracted: cookies, encryption, claims and their verification (a token that does not verify
is a refusal), audit reports, which rights a revision stands for, and the difference
between the expiries of the access token and of the ID token, which are one. All logins are of one
user and one upstream session, so that a logout by `sid` or `sub` hits all of them.

What the local protocol does not promise is not claimed either: a write-back may restore
older tokens and rights (`SeenRecorded` after another request's `RefreshStored`), and of two
requests that refresh at once one is refused and revokes the session.

### EquipmentReservation and DeviceCalendar

Several items want the same devices. Who has one is written in the equipment list of the
plan, which decides, and in a row per device and day. A command is `PreparationAsked`, one
`DeviceLocked` for each master row it concerns, then its effect or its refusal; a deletion
locks, checks the plans and deletes. The lock of the item's own row is held all along, which
is why an item has one command at a time. `OnSite` stands for three statuses that treat
devices alike. Plans without day rows exist, since plans are older than the table.

`DeviceCalendar` is the abstract specification: the catalogue and one set of
`<<item, device, day>>`, changed by atomic steps (take free days of lendable devices, give
them back, change a device, remove one that nobody has).
`ImplementsCalendar` instantiates it with the lists of the plans.

### ProjectScope

The items of one project, its supplement branch and the scope changes of a native project.
A client's operation is a transaction: `ClientAsks`, the plain read that fixes its snapshot,
the row locks of items and of the project in the order of that operation, `Commits`. The
snapshot holds what the code reads without a lock; what it reads under one is current.

Abstracted: events are ordered as they commit; versions and teams of items are left out
(their guards only refuse); the check of catalogue and sites at an approval, deadlock
victims and timeouts are `RolledBack`; replays change nothing; "Working" stands for all
statuses after the confirmation; the detection of scope changes is switched on. Rows of the
first generation may stem from an earlier adjustment.

### SplitRules

How lines of a contract become items: policy, overrides and categories, their precedence,
the outcome for a line, the grouping of lines, and what of it waits for a person. A request
reads the configuration in the order of the code, step by step, while administrators save,
delete and seed it. Kinds of request: event, user, adjustment, by hand, import.

Abstracted: folding of names, summaries of requirements, qualifications; sites are resolved;
an override's conditions on texts are the set of contracts they fit.

### ContractIdentity

To which project a contract belongs: activation by an event, creation by hand, import (new
project or link), ordinary supplement. Contracts have an id (0: none) and a number, either of
which identifies them. `IdentityLocked` takes the guard rows in order; a claim checks
(`ClaimChecked`), then its transaction writes and commits. Abstracted: customer, version and status checks of a
link (`FilingRolledBack`).

### ImportConfirmation

The ledger of confirmed imports by idempotency key, the rows, and clients that repeat a
request, lose answers, or use a key for another file. A digest is the content it is taken of.

### PenetrationPackage

The work package inside an item: decision, plan, execution, report, with a demand's read and
check in one step and its transaction in another, and the parent's two gates. One tester
stands for engineers, plan and authorisation; a plan may be refused for reasons that are not
modelled; items assigned before the package existed get it when it is first asked for.

### Handover

A person is frozen, what he is responsible for is listed, and transfers are delivered late, twice
and at once, each with a receipt in the transaction of its update. `updated_at` is the version; no two
updates fall into one millisecond. Keys are numbered as they come into use.

### BackgroundControl

Processes of two builds change the same schedules one by one under an operation written into
each schedule: pause, drain, migrate, promote, resume or restore. A build is its
configuration; a look over the schedules is one step, and so is the double snapshot of the
drain; the tool sends the actions of one operation one after another (`README.md`).

### ProjectBoard and SlaReminders

`ProjectBoard` holds the Go derivation (status, progress, report stage, breaches) and the SQL one
(ranks, aggregates, predicates) over rows with current, old and unknown words (`"Legacy"`), the
pages built on them, and what deliveries do to the rows: here each step may happen at any time.
The cached status is written at the end of each event (`Synced`) from items that are read without
a lock, so by the rows as the transaction's first plain read saw them (`ViewTaken`, `Seen`). For
most events that read follows the lock of the project, which `guardNativeScopeMutation` takes
(`native_scope_guards.go:173-177`), and the rows are current. Three have an older one: a field
client's event looks its `client_operation_id` up before that lock (`delivery.go:188-190`), the
review of a deviation looks the report of it up (`delivery.go:174`), and a confirmation finds the
project of its items. They may be overtaken and leave the column behind the items; the steps that
may take a `view` are those. `SlaReminders` adds scans and the administration of rules. Time is
whole hours, and Go and SQL judge at the same moment. A scan reads candidates and rules in one
step; `PassedOver` is an item nobody is assigned to, or whose assignees cannot be read;
`ScanEnded` is the end, a refused licence, an error or a crash.

### ProjectExport

The stream of all projects: header, pages read in three statements of one read-only transaction,
lines, end record; transactions that write projects run meanwhile. The snapshot is fixed by the
first read, after the header. A line keeps its length, the number of active items and the time of
the last modification, which numbers transactions as they commit; a status derived from the items
is `ProjectBoard`. Projects, items and bytes of a stream have a limit, and so have the bytes of a
line (`DoesNotFit`), of which the header and the end record are the shortest. The stream's own
checks of order and tenant never fail on what the query returns and are left out.

### MCDesk

The last ten modules share no state, so one run explores them side by side: `scene` says
which one moves, the others rest in an initial state. `VIEW` drops the variables of resting
components, and of the project's scope the stored status, which none of its steps and
properties reads.

## What is checked

Runs with `expect: pass` are exhaustive on their instance.

* **report** (3 users, 2 files, one rework or correction, 2 commands in flight, every
  instance advisory, no field evidence, no special method, on which no report depends). Three users are the fewest that can prepare, review
  and issue; two files the fewest that can be exchanged; one request is enough to open a
  second revision, which shows old and new revision side by side. `RevisionLedger`: one
  active revision, in the phase the item shows, old ones kept. `DutiesSeparated`: in every
  revision that ever existed the preparer, the reviewer and the issuer are three persons.
  `UndoneOnlyByApproval`: work is undone only by the first decision on a request, taken by
  somebody else. `ImplementsRegister`: whatever happens to the item, its report changes like
  `ReportRegister`, or not at all; closed revisions and reviewed files stay, each duty is done
  once, and one approval by a second person replaces one revision. `IssuedFileVerified`: with an expected version the issued file is the verified one,
  through every rework in between. Users and files are symmetric; no property of the run is
  a liveness property.
* **field** (one device, one kind of evidence, two deviations, both gate policies, 2 commands
  in flight). Two deviations and two commands are the fewest in which a report or review
  overtakes another. `PlannedOnlyWhenCleared`, `ReservationsMatchPlan`, `TerminatedForGood`,
  `NoUnexplainedGap` and `VersionedCompletionTruthful` are stated with the code they are
  about in the module.
* **outbox** (one event with job, direct and derived message; two workers; the second failure
  is final; two faults). One event is enough, since rows of different events share nothing
  but the workers; two workers are what a stale outcome needs; with two faults a lease can
  be outlived on the job and on a message of one behaviour. `EffectsExactlyOnce`: derived
  events and message exist exactly if the job is completed. `SentOnlyIfAccepted`,
  `AttemptsBounded` (a message is dead after exactly `MaxAttempts` counted failures, although
  the decision and the count come from different reads), `SettledForGood` (no late outcome
  revives a settled row), and, under fairness, `NotificationsSettle` and `EffectsSettle`.
  `ImplementsLedger`: claims, takeovers, late answers and commits nobody heard of do not show;
  the tables change like `DeliveryLedger`, or what they show stays as it is.
* **audit** (one replica, two events in one batch, two tries, two faults, one release by the
  operator). Two events in one batch make one wait for the other under the same lease.
  `NoneStranded`: what is not delivered can be claimed, is at a dispatcher, or is on the
  operator's list.
  `DeliveredOnlyIfRecorded`, `FailedOnlyAfterAllTries`, `DeliveredForGood`, and, under
  fairness, `AuditsSettle`, which includes the crash on the last attempt.
* **audit_replicas** (two replicas, one event, no fault but failing reports) shows that the
  same properties rest on there being one replica: a late `MarkFailed` of the one strands an
  event the other has finished. **audit_record** shows that a repeated report cannot be
  recognised by the platform.
* **session** (one login, two requests, both protocols, two generations of tokens and
  rights, one lost rotation). Two requests are what a stale write-back, a second rotation
  and the row lock need; sessions of one user share nothing but the logouts that hit them
  all. `DeadForGood`: no request that read a session before its revocation or expiry brings
  it back. `CredentialsKept`: under the row lock tokens and rights never go back.
  `RotationKept`: the newest refresh token is never lost by a browser that leaves.
  `OneSessionPerLogin`: a callback that is delivered again makes no second session. Under
  fairness, `LogoutTakesEffect`: an answer that was asked for before the end of the central
  session and is heard after it enters the cache, but for its time to live only; and
  `RowsUnlocked`: no transaction waits for itself, as it would if the revocation of
  `centralState` ran inside of the row lock. The run stops where the session is over, so it
  does not ask for a deadlock.
* **equipment** (two items, two devices, one day). Two devices are what a circle of waiting
  needs, two items what an overlap needs, and days are treated one by one.
  `ImplementsCalendar`: the plans, which no key of the database keeps apart, change like a
  calendar kept by one hand. `NoWaitCycle`: in every group of waiting transactions one waits
  for nobody of the group.
* **desk**, one property for each component:
  * scope (two clients, two items, two generations, a change that brings one of two lines:
    `Scopes`; in a contract project one operation at a time): `NativeScopeFrozen`, from the
    request of a scope change to its decision nobody changes an item, and an approval replaces
    the scope it was made for;
  * handover (a lead who leaves and an engineer, two keys, two calls): `TransferredOncePerKey`,
    also after the responsibility has come back;
  * penetration (three of the staff, two demands, none of them new once the parent is past its
    field work): `ReportRestsOnDecision`, a report never outlives the decision and the
    execution it rests on, and three people answer for it;
  * background (two builds, two schedules, one of them paused by hand now and then, ticks of
    the last schedule, one operation): `UpgradeUnderControl`;
  * identity (two projects, three contracts with one number, two filings at once):
    `OneProjectPerContract`;
  * import (two clients, two keys, three files): `ImportedOncePerKey`;
  * split (two categories, a contract of two lines and one of one, one request, three forms of
    the policy, of which one groups by batch and site, one category at a time being deleted):
    `RulesLostOnlyInMixedGroups`, a line loses what its category prescribes only behind another
    line of its group, and only where the plan keeps neither methods nor categories apart;
  * board (a project of up to two items of any status and report phase, two rules that stay,
    the last two hours; one older view at a time, of a project before its reports,
    in the first of them): `ViewsAgree`. What SQL selects by derived status, stage and breach is what
    Go shows, whatever the column says, and what the monitoring page selects by the column is
    what Go would show with the status in it. That the column has the derived status is
    not claimed, it lags in the run;
  * SLA (one item in breach of up to two rules, two scanners, the end of a day; rules are
    edited in the last hour): `RemindedOncePerDay`;
  * export (three identities, pages of one project, two writes; two projects, three items,
    five bytes and lines of two bytes at most): `ExportIsOneMoment`, a stream with an end record is the database at
    one moment, and only what is too large is refused.
  Two actors are the fewest that can overtake each other; the data is the least that makes
  their work collide. The run is there to find out about each property and to fire every
  action; that no larger instance behaves otherwise is what the theorems below say. Clients,
  demands, builds and scanners share two symmetric values, and two of the staff are exchanged
  together with the two import keys.
* **reviewed_file**, **review_race**, **stuck_exception** each find a behaviour that a
  comment of the code rules out; PROJECT.json quotes the comments under `findings`.

Type invariants are proved for every value of the constants and not part of a run.

The `ServiceItem` instances have no deadlock. The components of the desk and the items of the
equipment run may have nothing left to do, so these runs do not ask for one. The outboxes come to rest when every row is
settled, so their runs do not ask for one; that they come to rest only there is what the
liveness properties say. The passing runs fire every action.

Fairness. None is assumed of `ServiceItem`, the equipment and the desk: their steps are
decisions of persons or calls of other services, and nothing obliges anyone to take them. The outboxes assume:

* strong fairness of claiming each row: schedules start activities again and again, and
  claims take the oldest due rows (`ORDER BY created_at`, `id`, `next_attempt_at`), so a row
  that is claimable again and again is taken one day;
* weak fairness of a worker's or dispatcher's next step: a call to the platform has a
  timeout, and an activity that hangs is `Abandoned`;
* weak fairness of time: leases run out, delays pass;
* for `EffectsSettle` only, strong fairness of the directory answering and of the
  completing transaction committing. Without it a job may rightly be retried for ever, since
  it has no dead letter. It excludes jobs whose payload cannot be decoded.

`OIDCSession` assumes weak fairness of each request's next step (every call has a timeout)
and of the expiry of a cached answer (at most five seconds). Nothing is assumed of the order
in which a row lock is granted, so no request is claimed to get it.

Faults are bounded by `MaxFaults`, so the liveness properties say what happens once faults
stop; a failing platform is not a fault and may fail for ever.

Bounds: `MaxRevision`, `MaxDeviation`, `MaxRequests` and `MaxInflight` cut off the history;
each appears as a guard of the action that would exceed it. `MaxRevision = 0` in the field
run switches reworks off; the report run has them. `MaxToken` and `MaxRevision` of the
session run bound the generations: two are the fewest in which one can be lost.

## What is proved

`ServiceItem_proofs` and `ServiceItemReport_proofs` prove every safety property the two
passing runs check, for all values of the constants. They assume only what the constants are
(`NoOneAssumption`, `NoFileAssumption`, `SpecialMethodsAssumption`, `GatePoliciesAssumption`,
`BoundsAssumption`).

* `Typing`: `TypeOK` is inductive; one lemma per group of actions.
* `PlannedIsCleared` strengthens `PlannedOnlyWhenCleared` by `Clearance` (who has a manager
  has a lead), which is what carries it over `ExecutionTeamAssigned`.
* `ReservationsAgree` and `LedgerIsCoherent` are inductive together with `TypeOK`.
* `DutiesStaySeparated` needs `LedgerIsCoherent`: without it the row that is advanced might
  be in another phase than the item.
* `IssuesVerifiedFile` and `GatedCompletionsAreTruthful` need an invariant about commands in
  flight, `CommandKnowledge`: what a versioned command has read is still so. It is the
  reason why the version is compared under the lock, and it is not true of a review, whose
  file can be exchanged without a bump (see the finding *reviewed_file*).
* `WorkUndoneOnlyByApproval`, `ReviewedEvidenceIsFrozen`, `TerminationIsFinal` and
  `GapsAreExplained` are action properties from the same invariants. What
  `ReviewedEvidenceIsFrozen` states is not checked by a run of its own, the register includes it.
* `Implementation` (in `ServiceItemReport_proofs`): every step is a step of `ReportRegister` or
  leaves it unchanged. `RegisterInv` adds two invariants to types, ledger and duties:
  `SignedInTurn`, nobody has signed for a duty whose turn has not come, so that a signature is
  never written over another; and `RequestsFiled`, a request is blank or somebody has made it.
  `RevisionLedger` is what makes the phase of the item that of its row, on both sides of the
  step (`ShownRows`), and `DutiesSeparated` lets nobody archive what was not issued.
  `EveryReportStep` sorts all handlers by what they write of ledger and requests; the seven
  kinds are then followed one by one.

`DeliveryOutbox_proofs` proves the safety properties of the outbox run for every set of
events and workers and every bound (assuming `KindsAssumption`, that a job is written only
for an event with something to derive, `AttemptsAssumption`, `NoWorkerAssumption` and
`FaultsAssumption`).

* `EffectsOnce`: `EffectsExactlyOnce` is inductive with `TypeOK`; the step that matters is
  `EffectsRetried`, which asks for the lease and so cannot touch a completed job.
* `SentIsAccepted` adds `AcceptedBeforeSent`: a worker that is told "ok" works on an accepted
  message.
* `AttemptsAreBounded` adds `CountUpToDate` (while a worker owns its row, the count it has
  read with the claim is that of the row) and `AttemptsLeft` (a row's count is below the
  limit unless it is dead). That is where the check of owner and lease is needed.
* `SettledStays` adds `LeasedWhileProcessing`: every action that changes a row asks for a
  status or a lease that a settled row has not.
* `Implementation`: every step is a step of `DeliveryLedger` or leaves it unchanged. The
  invariant `LedgerInv` puts together what the theorems above rest on, since each promise of
  the ledger is kept by another of them: `EffectsExactlyOnce` says that the message of an event
  is not there before its effects are; `AcceptedBeforeSent`, that what becomes sent was
  accepted; `CountUpToDate` and `AttemptsLeft`, that the failure a worker takes for the last one is
  the last of the row, and no other is. `AtWrittenRow` (workers are at rows that exist) and
  `AbsentUntried` (nobody has tried a row that does not) are new: without the first the
  platform could be asked for a message nobody wrote. `UntoldSteps` is the other half: claims,
  time, the end of a worker and the retry of a job change nothing a reader is told.

`AuditOutbox_proofs` proves `Typing` and `DeliveredIsRecorded` for any number of replicas.
`NothingIsStranded`, `FailureIsLast` and `DeliveryIsFinal` assume `SingleReplica`; their
invariant `BatchIsHeld` says that the rows of a batch are untouched while it is worked off
and that the attempts that were read are those of the row. With two replicas `BatchIsHeld` is
false, and **audit_replicas** shows what follows.

`OIDCSession_proofs` proves the five safety properties of the session run for every number
of logins and requests and every bound (assuming `NoneAssumption` and `BoundsAssumption`).
They share one inductive invariant: `Moded` (no request follows the protocol that is not in
force), `Known` (it works for a session that exists), `LocksHeld` (a locked row has one
holder, inside of its transaction, and is not revoked), `LoginsOnce` (a consumed login has
one callback, which creates the session last) and `Generations` (in central mode no row is
ahead of what was issued, and what a transaction is about to store is not behind its row).
`CredentialsNeverGoBack` rests on `Generations`, `OneSession` on `LoginsOnce`,
`DeadStaysDead` on `LocksHeld` for the writes of the central protocol and on the condition
of `UpdateSession` for those of the local one.

`EquipmentReservation_proofs` proves both properties of the equipment run for every number of
items, devices and days (assuming `DevicesAssumption`: ids are ordered and there are finitely
many, `WindowsAssumption` and `OwnersAssumption`). The invariant `EquipmentInv` has five parts
besides types: `Agree` (what a plan holds, the day rows say), `Guarded` (locks belong to
commands and deletions under way), `Seen` (a device found lendable under its lock still is),
`Unused` (a device found unused by a deletion still is) and `Ascending` (a command waits only
for rows after those it holds).

* `Implementation`: every step is a step of `DeviceCalendar` or leaves it unchanged. `Agree`
  makes the refusal of an occupied day row a refusal of an occupied calendar day; it is one
  way only, since rows may outlive a list. `Seen` and `Unused` carry over what was read.
* `NobodyWaitsInACircle`: of all devices a group holds, the holder of the greatest waits for
  one that comes after it (`Ascending`), which nobody of the group can hold. That there is a greatest is
  `GreatestDevice`, by counting the devices after each.

`Commands_proofs` proves six properties of the desk, for every number of clients, keys,
people, items, contracts and processes. All of them are about commands that look first and
act later, and each invariant says under what (a key, a version, a lock, an operation) what
was found is still so.

* `ImportedOnce` needs `FirstOfItsKey`: of the transactions that are about to commit a ledger
  row one at most has a given key, and nothing is committed under it. It assumes
  `RequestsAssumption` and `NoImportAssumption`.
* `ReportKeepsItsGround` needs `StillOpen` (a decision that was open is open while the version
  is the same), `SignedInOrder` (whom a later phase of the report presupposes) and
  `TestRequired` (a test under way or completed is a required one). It assumes
  `StaffAssumption`.
* `TransfersApplyOnce` needs `UnwrittenStands` (while nobody has written since the list, the
  one who hands over is still there) and `AnsweredForGood` (behind every receipt somebody has
  written since, or the project has ended, so that the order can never be carried out again).
  A second application of a key would need the listed version, which is gone. It assumes the
  `BoundsAssumption` of `Handover`.
* `PendingScopeIsFrozen` needs `HeadHeld` (an operation that holds the project's lock and is
  about to change an item has seen no pending change under it) and `OwnKindOnly` (adjustments
  and scope changes never meet in one project). The property is about steps: only a step
  under the head lock changes an item, and a request needs the same lock.
* `ContractHasOneProject` needs `Guarded` (who has a contract holds its guard rows), `HeldByOne`
  and `LocksComplete` (a filing checks nothing before it has all of its locks),
  `StillClaimable` (what was checked under them is still so) and `OneHome` (both names of a
  contract lead to the same project). Contracts are assumed to have an id and a number
  (`ContractsAssumption`).
* `UpgradeIsUnderControl` has an invariant for what a schedule shows (`Showing`: under an
  operation it is paused, and what runs has the configuration of the routed build) and one
  for each command that may have died half way: `ResumesRouted`, `Migrating` (all schedules
  under one operation, nothing left to run, those before the cursor written) and `Promoting`.
  `OneToolEach` says that two processes never work on one operation, which is how the tool is
  used; `TaskAssumption` is all that is assumed of the constants.

`Derivations_proofs` proves the four properties about two ways to the same result.

* `TellsOncePerDay` needs `StageHasOneRule` (of the enabled rules one is for each stage, the
  unique key of `pm_sla`), from which follows that the breaches of a scan differ in stage
  (`StagesApart`), and `KeyTakenOnce`. Without the unique key a scan can find two breaches
  of one stage.
* `OnlyMixedGroupsLoseRules`: the invariant is that items and announcement are computed from
  what the request has read (`Follows`), and the work is in lemmas about the operators: lines
  with one `GroupKey` agree in category, method and special work as far as the dimensions in
  force make them (`GroupMode`: in method, unless the plan mixes them), and the first line of a
  group, the least of its numbers (`MinOfNaturals`), decides no more than that.
* `BothDerivationsAgree`: nothing is assumed of the cached column but that it is a status. The
  invariant is that a project which had items keeps some (`NeverEmptied`): without live rows it
  has had none, in no view either, and its column is one of those a project begins
  with. From it every rank, aggregate and predicate of SQL is derived from the loops of Go, for
  any number of items: sums of zeros and ones are counts, a minimum of ranks is the rank of
  what comes first.
* `StreamIsOneMoment` says how far the stream is: `Stream` (the lines are the first projects
  of one table, in order, within the limits), `NextPage` and `CountsFit` (what is read and
  not yet sent belongs to that table), `Sees` (the transaction sees that table or has not read)
  and, after a refusal, that the table was too large at some moment since the header.

The last two use lemmas on finite sums (`SumOver` of a union, of a larger set, of zeros and ones). The
library's induction theorems take an operator, so these go by the least counterexample: of the
subsets of a finite set for which a statement fails one has the fewest elements.

The proofs corrected the model in five places, each of which the code settles: initial rules
of `SlaReminders` respect the unique key of `pm_sla` (`migrations/000023`); an export is refused
when header and end record do not fit by themselves (`project_snapshot.go:128`); a client of
`ProjectScope` names some rows and a change some lines, never none; contracts of
`ContractIdentity` have an id and a number and nothing else; the items of a board and the
identities of an export are finite in number.

Every safety property a run checks has a theorem. Only model-checked are the liveness
properties `NotificationsSettle`, `EffectsSettle`, `AuditsSettle`, `LogoutTakesEffect` and
`RowsUnlocked` (fairness and ENABLED are beyond the prover), that the `ServiceItem` instances
do not deadlock, and that every action can happen.

## Observed divergences

Met while modelling, besides the findings of PROJECT.json; no run is devoted to them.

* `mysql/delivery_events.go:539-546` says that the stored project status cannot be written
  one step behind. It can, where a plain read precedes the lock of the project: by a field
  client's event with an operation id, a review of a deviation or a confirmation, when an
  event of another item commits in between. Until the next event, filters by status and risk
  of the monitoring page (`mysql/monitoring.go`) then go by the older status, while the rows
  they return show the derived one.
* An adjusted decomposition counts under its snapshot and archives an item that was confirmed
  after it; a return to decomposition may fall between a confirmation's snapshot and its lock.
* `slaProjects` (`mysql/monitoring.go:113-119`) reads archived items too, the list of breaches
  does not: after an adjustment a project can be selected as in breach with nothing to show,
  although `application/monitoring.go:39-40` wants both paths to filter alike.
* `status_changed_at` is reset by every event that assigns a status, the same one included;
  `delivery_events.go:357` speaks of a real change.
* `transferServiceItemOwnership` moves the roles of lead and manager, and that of an engineer
  only where neither was hit: somebody who is both stays an engineer of the item, which
  `service_item_transfer.go:9-13` rules out.
* The receipt of a transfer that loses a race for its key is answered REJECTED though the key
  was APPLIED.
* `domain/split_rule_config.go:44-45` says that special work becomes a penetration test with a
  review in every case. `ValidateSplitPolicy` (`:121-153`) accepts a policy by, say, batch and
  site; then a line of a `REQUIRED` category behind one of an ordinary category becomes part of a
  `STANDARD` item without review, since the first line of a group decides for it
  (`application/delivery_contract.go:567-577`). `RulesLostOnlyInMixedGroups` says where this ends.
* With dimensions that leave the category out, a line of an unknown category that is merged
  behind a known one is neither confirmed nor announced; with the default dimensions a
  `MARKABLE` category loses the penetration mark by the order of lines. Disabled categories
  count as known. Deleting the last category seeds the defaults again, and the deletion's
  count races with an activation.
* A project made by hand takes the test mode of the contract even where the category says
  REQUIRED.
* A scan skips a reminder without a trace when the assignees cannot be read; the comment on
  its key speaks of the UTC day, the code uses the business day in Beijing.
* `CloseSupplement` accepts a scope it has read before its transaction.
* A penetration decision may turn to REQUIRED after the parent's report was issued.

## Not modelled, and why

* HTTP decoding, permission lookups, file gateway, approved-contract client, notification
  client: they keep no state of their own. What they answer is an input of the commands.
* Parsing and preview of import files, the capability catalogue apart from equipment, field
  permissions: reads and single-row writes, with no second actor that a property could be about.
* The in-process background engine and the health report of the other one.
* Creation of a native project under its idempotency key: one insert that another with the same
  key loses, as in `ImportConfirmation`.
* The shutdown group: it waits for goroutines up to a budget; what it gives up on is a crash
  to the modules whose work it was.
* Configuration, migrations and one-off tools: they do not run beside the service.
* `third_party/license-core`: code of the licence service. Its refusals are steps of
  `DeliveryOutbox` (`Abandoned`) and `SlaReminders` (`ScanEnded`).
* Liveness of the desk's components: a client may always stop.

## Plan

| # | Module | State |
|---|---|---|
| 1 | `ServiceItem` | done, proved |
| 2 | `DeliveryOutbox`, `AuditOutbox`, `OIDCSession` | done, safety proved |
| 3 | `EquipmentReservation`, `DeviceCalendar` | done, proved, with refinement |
| 4 | `ProjectScope`, `ContractIdentity`, `ImportConfirmation`, `PenetrationPackage`, `Handover`, `BackgroundControl` | done, proved (`Commands_proofs`) |
| 5 | `SplitRules`, `ProjectBoard`, `SlaReminders`, `ProjectExport` | done, proved (`Derivations_proofs`) |
| 6 | `DeliveryLedger` | done, `DeliveryOutbox` proved to implement it |
| 7 | `ReportRegister` | done, `ServiceItem` proved to implement it |
| 8 | an abstract session, live or over | not stated; what it would promise is checked and proved as single properties of `OIDCSession` |
