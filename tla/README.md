# Trata: formal models of the synchronisation core

Trata is an offline-first household budget. Each device keeps the whole
household in a local SQLite database and works on it without a network; a Go
server with PostgreSQL holds the household's authoritative rows; a sync engine
on each device pushes local operations and pulls the household's change log.
This directory holds TLA+ models of that machinery, the TLC configurations that
check them on small instances, and proofs checked by TLAPS.

Paths below are relative to the repository root: `backend/` is the server,
`packages/local-data/` the device's data layer.

## 1. Inventory

### Server (`backend/internal`)

| Component | State | Operations | What makes it correct |
|---|---|---|---|
| Household change log (`repository/postgres/tx.go`, `sync.go`, `queries/sync.sql`) | `change_log` rows with a global identity `seq`; the household advisory lock | begin, lock, mutate + append, commit, rollback; pull after a cursor in two statements | no cursor ever passes a change that was not delivered; rows of a record carry rising versions; a page's state is not older than its rows |
| Push engine (`service/sync.go`, `sync_engine.go`, `sync_adapter_*.go`) | versioned rows with tombstones, `applied_operations` | replay by opId, create, update, delete, cascade, in-use guard | an opId applies at most once; references stay live; names stay unique; delete wins; log and rows agree |
| Write rules (`service/write_rules.go`) | none | validation of amounts and references | same rules for REST and sync |
| Retention (`jobs/retention`) | none of its own | hard delete of old tombstones | never removes a live row, a referenced row, or a log row a device needs |
| REST services (`service/*.go`, `repository/postgres/*.go`) | the same rows | CRUD with optimistic versions; references are read before the lock is taken | each mutation appends to the log in its transaction; an update replaces the row it checked |
| Idempotency middleware (`transport/http/middleware/idempotency.go`) and cleanup job | `idempotency_keys` with an expiry | register a key, run the handler, store its answer; replay, refuse or delete on a repeat; sweep what expired | a key creates once, except past the stale threshold or after a told failure; a replayed answer is true |
| Household membership (`service/household.go`, `repository/postgres/household_join.go`) | households, members, invitations, codes | register, invite, accept, join by code, leave, remove, revoke, dissolve | every user in a household, at most one owner in it, an invitation lets one join in and none once revoked |
| Planned payments (`jobs/plannedconfirm`, `service/planned_payment.go`, `domain/planned_payment.go`) | plans with the next due date and the series' anchor, transactions made from them | create, edit, delete; the hourly job executes due automatic plans | every occurrence gets its transaction, and one; dates stay on the series of their anchor |
| Push reminders (`jobs/pushremind`, `queries/push.sql`) | `push_subscriptions`, `push_reminders_sent` | subscribe, unsubscribe; a sweep reads candidates, sends, records, prunes | a reminder is pushed again only after a failure; a sweep passes over no reminder of its window |
| Sessions, codes, rate limits | expiring rows, counters in memory | request handlers | (not modelled) |

### Device (`packages/local-data/src`)

| Component | State | Operations | What makes it correct |
|---|---|---|---|
| Outbox (`outbox.ts`) | `sync_outbox`: operations in creation order, sent/attempt marks | enqueue, coalesce, confirm, drop | a live DIRTY record always has an operation; a frozen one is resent unchanged |
| Repositories (`repositories/*.ts`) | rows with `version` and `serverVersion` | create, update, archive, remove, cascade | unborn records vanish only if the server never heard of them |
| Sync engine (`sync/sync-engine.ts`) | cursor, run in progress | select batch, push, take results in, pull, take page in | no edit is lost; a CLEAN row is what the server had at its version |
| Conflicts (`sync/conflicts.ts`, `restore.ts`) | `sync_conflicts` | record, keep local, take server, dismiss, restore as new | no silent loss; every conflict can be settled |
| Household change (`sync/rebase.ts`, `ownership.ts`, `sync-meta.ts`; the session store and the join store of the apps) | `sync_meta`: cursor, `last_household`, `owner_user_id`; who is signed in, an open gate | adopt, rebind, carry (rebase), start clean (wipe) | a device that is through with its household has its records and no others; no edit loses its operation |
| Run policy and status (`sync/run-policy.ts`) | timers, `householdCurrent`, the check in flight | trigger, debounce, household check | runs recur, and wait for the household check |
| Planned payments (`repositories/planned-payment.ts`) | plans, the confirmation sheet | create, edit, remove, confirm an occurrence offline | as on the server, through conflicts |
| Recurrence, balances (`recurrence.ts`, `balances.ts`) | none | pure functions | dates advance as the server's do |

Interactions: user actions write rows and outbox in one local transaction; the
engine reads the outbox in a local transaction, awaits HTTP, and writes the
result in another, so *users act between any two of its steps*. A push batch is
one server transaction under the household lock; a pull reads the log without
the lock. REST writers, push batches of other devices and jobs share the rows
and the log. The network loses requests and answers, and a request that the
device gave up on may still be executed.

The hard behaviours are therefore: identity sequences that commit out of order,
two-statement reads, replays of an operation already applied, edits between
send and confirmation, echoes of one's own changes, concurrent edits and
deletes, cascades, a crash between any two transactions, one occurrence of a
plan executed by the job and by users of several devices, a household that
changes under a run, and on the server services that check in one transaction
and act in the next and messages that are sent before that is recorded. Each is a hazard in
`PROJECT.json`, at its line, with the properties that cover it.

## 2. Modules

| Module | Models | Code |
|---|---|---|
| `ChangeLogTx` | transactions of any number of writers in any number of households, devices pulling in two statements | `tx.go`, `sync.go` (repository), `queries/sync.sql`, Pull of `service/sync.go`, `pullPhase` |
| `ChangeFeed` | abstract specification: what a log promises to whoever pulls it | - |
| `PushEngine` | operators: one pushed operation against the household's state | `service/sync.go`, `sync_engine.go`, category and transaction adapters, write rules, sync writes of the repository, retention |
| `SyncServer` | one household: any operation, any number of times, and the purge | the same |
| `SyncClient` | operators: outbox, repositories and conflict records of a device | `outbox.ts`, `repositories/category.ts`, `transaction.ts`, `sync/conflicts.ts`, `restore.ts` |
| `SyncEngine` | operators: batch selection, push results, pulled changes | `sync/sync-engine.ts` |
| `TrataSync` | the composition: devices, users, network and server | all of the above |
| `Household` | membership: authenticated requests that read, check and run one transaction | `service/household.go`, `repository/postgres/household_join.go`, `users.go`, `middleware/auth.go`, migrations 5 and 6 |
| `Recurrence` | dates: how a due date advances, on the server and on a device, and what its series is | `domain/planned_payment.go`, `recurrence.ts` |
| `PlannedPayments` | plans and their occurrences: the job, REST writes, users of devices, and the sync between them | `jobs/plannedconfirm`, `service` and `repository` of planned payments, `sync_adapter_planned_payment.go`, `repositories/planned-payment.ts`, `confirm-sheet.tsx`, `sync-engine.ts`, `conflicts.ts` |
| `RestWrites` | the REST surface: requests as processes over `PushEngine`'s rows, idempotency keys in front, the cleanup job behind | `middleware/idempotency.go`, `service/transaction.go`, `repository/postgres/transactions.go`, `categories.go`, `idempotency.go`, `jobs/cleanup` |
| `WebPush` | reminders: subscriptions, markers, sweeps, the push service | `jobs/pushremind`, `queries/push.sql`, `push_subscriptions.go`, `use-push-reminders.ts` |
| `HouseholdSync` | the composition of `SyncEngine` and `PushEngine` with several households: users who move, the two gates of the app, rebase and wipe, adoption of orphaned records | `sync/rebase.ts`, `ownership.ts`, `sync-meta.ts`, `run-policy.ts`, `use-auth-store.ts`, `use-household-join.ts`, `AdoptOrphanedID` |
| `TrataClaims` | statements of comments in the code that the code does not meet | - |
| `ChangeLogTxProofs`, `ServerProofs`, `PlannedPaymentsProofs`, `RestWritesProofs`, `WebPushProofs`, `SyncEngineProofs`, `TrataSyncProofs`, `HouseholdSyncProofs` | theorems | - |
| `MC*` | TLC instances | - |

`PROJECT.json` maps every definition to its lines. A definition whose name ends
in `Mutant` is a plausible bug of the definition after it; it is used by no
specification, and stands there to show that the properties notice the bug.

How state corresponds to the code:

* **`ChangeLogTx`.** A connection is `idle`, `begun` (BEGIN issued) or `locked`
  (`pg_advisory_xact_lock` granted). `nextSeq` is the identity column's
  sequence: shared by all households and never rolled back. `log`, `version`
  are committed state; what a transaction wrote is in `wrote` until `Commit`.
  `PullRows` and `PullStates` are the two statements of `PullChanges`, with any
  number of commits in between. `Deliver` is the device's transaction that
  applies a page and stores the cursor; `Drop` is a lost request or answer, or
  a restart of the device. `seen` is a history variable.
* **`PushEngine`.** A batch runs under the household lock, so an operation is
  a function from the committed state (`rec`, `log`, `seq`, `applied`) to the
  next state and an answer. Error paths answer without changing the state, in
  the code's order: name check or reference check, then create or update. Two
  of six entity kinds are modelled, those with the most interaction:
  *categories* (unique live name, in-use guard, cascade) and *transactions*
  (which refer to a category). `name` stands for a category's name and for all
  of a transaction's fields that no rule reads.
* **`SyncServer`** adds variables: `srv` and a history `changes`.
* **`SyncClient`.** A device's database is a record: `row` with `ver`
  (`version`), `sv` (`serverVersion`), a tombstone mark and data; `out`, the
  outbox; `conf`, the unresolved conflict of each record. CLEAN is `ver = sv`.
  Every operator is one synchronous transaction. `tries` is 0 or 1: what the
  code does depends only on whether an operation has been tried, and backoff
  is "some set of retries is due".
* **`TrataSync`.** `net[d]` is the await the device's run is in. `run` up to its
  first await is `Run`; then `PushArrives`/`PushReturns`, or
  `PullArrives`/`PullReturns`. `PushFails` and `PullFails` are a lost request or
  answer, a 5xx, or a killed app (the engine has no other volatile state);
  `late` is a push that the device gave up on and that arrives later.
  `PushUnauthorized` is the 401 path, which takes the attempt back. Users act
  in between through the repositories and the conflict centre.
  `UserRestores` has both outcomes of `restore.ts`, whose two transactions may
  be separated by a crash.
* **`Household`.** `req[s]` is a request: `AuthRequired` reads the membership,
  `CheckLeave`, `CheckInvite`, `LoadInvitation`, `FindByCode` are what the
  service reads and decides, and each ends in one transaction on what was read
  (`LeaveHousehold`, `Invite`, `JoinHousehold`); requests of an owner whose only
  check is the role go from `AuthRequired` to their transaction. Transactions
  run READ COMMITTED: those that touch one user are ordered by the unique index
  on `user_id` and the row locks, so each is one step, except the dissolution,
  whose list of members (`ReadMembers`) and deletes (`Sweep`) other commits may
  come between. `Sweep` includes what `ON DELETE CASCADE` removes. An id that
  no longer exists fails its foreign key and the request ends. `Ends` is any
  refusal, failure or lost request. `admitted` is a history variable.
* **`Recurrence`** is operators only. `AdvanceNextDue` is the Go function and
  `LocalAdvance` the TypeScript one, each as it is written (the latter numbers
  months from 0). `DayNumber`, `Period` and `OnSeries` say what a series is
  without advancing, so that there is something to compare them with.
* **`PlannedPayments`.** `srv` are the rows of `planned_payments`; `paid` the
  transactions on the server that were made from plans. A sweep of the job is
  `idle`, `listed` (it has read the day and the households with due plans,
  without a lock) or `locked` (inside `WithinHouseholdTx`, with the rows and
  transactions it has not committed in `row` and `made`). `JobExecutes` is one
  occurrence; `JobCommits` follows when nothing is due by the day the sweep
  began; `JobAborts` is any error or a stop of the server. `dev` are the plans
  of a device, CLEAN when `ver = sv`; `bills` the transactions it has made and
  not pushed. `sheet` is the confirmation sheet, which keeps the plan as it was
  when it was opened. The sync of one record is that of `SyncClient` and
  `PushEngine`, with a push applied and answered in one step, so the pending
  operation of a plan is a function of its row (`Pending`) and needs no outbox;
  what lost and repeated deliveries do is the subject of `SyncServer` and
  `TrataSync`. `CreatedFields` is the plan adapter's create, which drops the
  anchor. `series`, `told`, `edits` and `aborts` are histories: a series of
  occurrences begins when a user chooses a date, and `told` holds the plans
  some device recorded a conflict about.
* **`RestWrites`.** A request is a process, its `stage` the statement it runs
  next: for a POST the insert of the key row, its lookup and deletion when the
  key is taken (`clash`, `drop`), the unlocked reads of what the body refers to
  (`check`), the transaction under the household lock (`insert`) and the update
  of the key row after the answer was given (`persist`); for a PATCH the read of
  the current row (`Start`), `check` and `write`. A request that was cancelled is
  one that takes no further step. `Insert` has the commit whose acknowledgement is
  lost: the handler answers with an error, and the row is there. A key row is
  named by the request that created it, as DELETE and UPDATE address it by id.
  `at`, `tx`, `answer` and `told` are what the request remembers; the properties
  compare them between requests.
* **`WebPush`.** A sweep is `todo`, the candidates it has read that lie in its
  window, and `sent`, the message the push service took and that is not recorded
  yet. `Stop` in that gap is the lost marker. Time is a number, a zone its offset
  from UTC, and the model keeps the arithmetic: `ReminderInstant` is the instant
  of the reminder's hour there. `Enable` is the upsert by endpoint, with the user
  left as it was. Markers go with their subscription (`ON DELETE CASCADE`), and
  by age. `gone` are the endpoints whose row was deleted since the sweep read it:
  a row that the endpoint gets later has an id of its own, and no marker of this sweep
  is for it. `told` is a history that counts the pushes to a subscription.
* **`HouseholdSync`.** `srv[h]` is one household, `home[u]` the membership. A
  push or pull carries no household: the server takes the one of its user at the
  time it arrives. `meta` is `sync_meta`; `app` is the session store, the join
  store and the run policy's `householdCurrent` and `checkInFlight`; `cookie` is the
  session a request is sent with, which changes before the ownership gate is
  passed. `gate` counts the steps of the household check (`asked`, then `choose`)
  and of a clean start, whose three writes are three steps; `dialog` is the same
  choice offered by the device on which the user joined. `net` and `late` are as
  in `TrataSync`, with the user and the marker of the moment they were made.
  `crossed` is a history: the devices on which something made for one household
  was served by another, answers or pages were taken in after a rebase, or a
  record was found in a living household - see section 5. `robbed` holds the
  households an orphaned record was adopted from, whose log keeps rows of it.

## 3. Runs

| Run | Instance | Shows |
|---|---|---|
| `change_log` | 2 connections, 2 households, 2 records, 1 device, pages of 2, `MaxSeq` 3 (84 thousand states) | no cursor skips a committed change (`NoSkip`); `VersionsFollowSeq`; `StateNotOlder`; cursors do not move back; every committed change is delivered (`CommittedIsDelivered`) |
| `server` | 2 categories, 2 transactions, 2 names, 4 operation ids (726 states up to symmetry) | `RefsLive`, `NamesUnique`, `LogAgrees`, `OpAppliesOnce`, `TombstoneFinal`, and that the log implements `ChangeFeed` (`FeedSpec`) |
| `sync` | 2 devices, 1 category, 2 transactions: from empty databases with 3 edits and 2 failures, and from databases that share a category and a transaction with 2 edits and 1 failure (406 thousand states) | `DirtyIffPending`, `CleanAgrees`, `UnbornUnknown`, `CaughtUpAgrees`, `NoEditLost` |
| `sync_live` | 2 devices, 2 edits: sharing a category, with another to be made and 1 failure; or sharing 2 categories and a transaction, without failures (174 thousand states) | `Converges` |
| `household` | 2 users, 3 household ids, 1 invitation, 2 requests at a time, from no accounts and from a household of two (661 thousand states) | `OneOwner`, `AdmitsOnce`, `RevokedStaysOut`, `OwnerNotDemoted`, `RehomedAtOnce` |
| `planned` | 1 monthly plan on January 31, 2 devices, 1 sweep at a time, a clock that shows January 31 and March 31, 3 edits, 1 failed sweep (233 thousand states) | `DueOnSeries`, `NoneMissed`, `PaidTwiceIsTold`, `CleanSameDue`, `DueNeverGoesBack`, `AutoExecuted` |
| `rest` | 3 POSTs under one key with two bodies, 2 PATCHes of one transaction, 1 category, stale threshold 0 and expiry 1 on a clock to 2 (1.4 million states up to symmetry) | `RetryWaitsOut`, `ReplayIsTrue`, `ReplacesWhatItChecked`, `OrphanIsLate` |
| `push` | 2 users of 2 households, 2 browsers, 1 plan with 2 dates, days of 4 units, 3 zones, 3 edits, 2 failures (1.2 million states) | `RepeatedByFailure`, `EverySweepReminds`, `FarEastUnreminded` |
| `household_sync` | 1 mobile device, 2 users, 2 households, 1 category, 1 transaction, 2 edits, 2 moves, 1 change of session, 1 write by others, 1 failure, 4 of these in all (1.2 million states) | `NothingStranded`, `SettledAgrees`, `LeavesForGood` |
| `claim_*` | see section 5 | a comment's statement is violated |

`TypeOK` is an invariant of the runs `sync` and `household_sync`; that of the other
modules is proved without a run (section 4).

### Bounds

* `MaxSeq` in `ChangeLogTx` counts allocated sequence numbers. Skips need two
  rows that commit out of order; a page boundary and a rollback gap need one or
  more; pages of 2 in a log of 3 give full, partial and empty pages.
* `MaxSeq` in `server` bounds log rows: a new operation needs room for itself
  and a cascade, so nine rows hold several creates, a cascade of two
  transactions, a purge and a rebirth. `MaxVersion` bounds only the base
  versions that devices claim. Four operation ids bound the successful
  operations; refused ones and replays are unbounded.
* `MaxEdits` bounds what users create, change and remove; settling conflicts,
  restoring and runs are not counted, but are bounded by `MaxOps`, the
  operation ids of one device. Three edits from empty give create, concurrent
  change or removal and one more by either device at any point of either run.
  `MaxFailures` bounds lost requests and 401s. `MaxVersion` 9 and `MaxSeq` 99
  are never reached in these runs and in `household_sync`. `PageSize` 2 gives full pages that are
  followed by another pull.
* `UserData` is what users enter: the runs use payloads that are not archived.
* `sync_live` needs two categories for a refusal: one device renames a category to the name
  the other gives a second one, or deletes what the other's edit refers to. Four
  operation ids per device are enough: with three, a page would wait for ever for the id
  of the delete it queues again. Failures and transactions are in separate initial states,
  as together they exceed what liveness checking bears.
* `household`: two requests are enough for a check and what invalidates it.
  Household ids are never reused; three let both users register and one of them
  move once more, and from `Together` let everybody be moved out of the shared
  household. `MaxSends` 1 is a spent budget as soon as there is an invitation.
* `planned`: January 31 is followed by a February that clamps and a March that
  must not, and on March 31 the job has three occurrences to catch up. `MaxEdits`
  counts what users write through REST or a device and the sheets they open;
  three let both devices act, or one and REST, while the job runs. Confirming,
  resolving and syncing are not counted: each is bounded by what was written.
  One sweep at a time with a failure covers reruns; overlapping sweeps are
  ordered by the household lock, and the theorems are about any number of them.

* `rest`: two POSTs are a request and its retry, the third is the one that comes
  when the second has deleted the key row of the first while that still runs.
  With a threshold of 0 and an expiry of 1, a clock that shows 0, 1 and 2 has a key
  pending, stale and expired. The two bodies differ in whether they carry an id. `InPlay`
  leaves aside states in which PATCHes and more than one POST are under way: they
  share the household's rows only. The theorems have none of these bounds.
* `push`: of the three zones one lies west of UTC, one as far east as `ReminderHour`,
  where the hour strikes at UTC's midnight, and one further east by all of `Lookback`,
  where the window is over by then. `Lookback` is such that two sweeps can meet
  one instant. `KeepDays` 1 prunes markers within the run. Three edits enable a browser
  and still move the plan or the user twice.
* `household_sync`: of the five kinds of event at most four happen, in any mixture
  that their own bounds allow; steps of the engine and of the gates are not counted.
  Two edits make a category and its transaction; two moves bring a user away and
  back, or out of a household that then has no members. The device begins signed in
  and past the gate, a state that `Login`, `PassOwnership`, `AskHousehold` and
  `CheckHousehold` reach. `InPlay` does not follow a device that mixes households once
  all events have happened: the properties exempt it until its next rebase.
  Users archive nothing.

Symmetry: `server`, `sync`, `household`, `rest`, `push` and `household_sync` permute what their properties do not
tell apart - devices, names, records, operation ids, users, households, requests, endpoints. Some of
their initial states name one or the other value (`SyncedInit` a name and a
transaction, `Together` a user); as no action and no property does, what holds
from one of them holds from its renamings. Runs with a liveness property use
none. Operation ids in `TrataSync` are pairs of a device and a counter, so they
permute with devices.

Deadlock is checked in the run of `ChangeLogTx`. The other instances stop for
good when a bound is spent - operation ids, edits and household ids are finite
in them and not in the program - so deadlock checking is off there.

`SyncedInit` is the state after one category and one transaction were made
through the REST API - which stores no operation ids - and both devices have
pulled: the code reaches it, and starting there leaves the bounds for what
happens next.

### Fairness

* `ChangeLogTx!FairSpec`: a device keeps pulling (weak fairness of `PullRows`),
  and not every answer is lost (strong fairness of the two later steps).
  Writers need none: PostgreSQL may starve or abort a transaction.
* `TrataSync!Fairness`, per device: runs recur and pull even with an empty
  outbox, because the run policy (`run-policy.ts`) triggers one after every
  local mutation, at every start, return to the foreground and regained
  connection, and on a manual refresh - the assumption is that the app keeps
  being used - and backoff is at most 15 minutes (strong fairness of a run in
  which every retry is due); a request that does not fail is answered and its answer taken in (weak
  fairness of these steps; for a push's answer it is written as `PushAnswered`, which says the
  same, as the server can always answer a push); a user settles a version conflict, which otherwise
  stays open for good, as the code intends. Failures end with `MaxFailures`:
  with failures for ever no device would converge. No fairness is assumed for
  edits, restores or late requests.
* `PlannedPayments!FairSpec`, per sweep: the job is started by a ticker at every
  interval and once at the start of the server (weak fairness of `JobLists`); its
  transaction gets the household lock in the end, though others take it in
  between (strong fairness of `JobLocks` - PostgreSQL queues waiters); it goes
  on unless it fails (weak fairness), and fails `MaxAborts` times at most. Users,
  devices and the clock are free to stop.

## 4. Proofs

TLAPS checks these for every value of the constants, under the ASSUMEs the
modules name (bounds are naturals, pages are not empty, kinds are disjoint,
`Transaction` is finite, and where a rebase queues what stays, `Category` too).

**`ChangeLogTxProofs`** - for any number of connections, devices and
households: `TypeCorrect`, `CursorNeverSkips`, `CursorNeverMovesBack`,
`VersionsAreOrdered`, `PulledStateNotOlder`.

`NoSkip` is not inductive: a writer might hold a row below a stored cursor and
commit it afterwards. The invariant `IInv` rules that out with named parts:
locks are exclusive within a household (`Exclusive`); a transaction's rows are
of its household (`OwnRows`), below `nextSeq` (`Allocated`) and above
every committed row of it (`Fresh`) - they were allocated under the lock; a
cursor is zero or the seq of a committed row (`CursorCommitted`); the page in
flight is a prefix of what followed the cursor (`PullIsPrefix`). A second
invariant `VInv` on top of it links versions and rows, and gives
`VersionsFollowSeq` and `StateNotOlder`.

**`ServerProofs`** - of `SyncServer`: `ServerTypeCorrect`, `ReferencesStayLive`,
`NamesStayUnique`, `LogTellsTheState`, `EveryOpAppliesOnce`,
`TombstonesAreFinal`, and `LogImplementsFeed`: the refinement of `ChangeFeed`,
initial states to initial states and every step to a `Publish` or a stutter.
`Apply` is a large function, so the proof first states what it may return
(`UpsertCases`, `DeleteCases`, `ApplyCases`): nothing, one row written, one row
buried, or a row buried with its cascade. Each kind of change then has one
lemma on what it keeps, and the invariant's preservation is their combination.
`CascadeLog` is the heart: the rows of a cascade have distinct sequence numbers
above the old ones.

Of `Household`: `MembershipTypeCorrect`, `AtMostOneOwner`,
`InvitationIsSingleUse`, `RevocationIsFinal`, `OwnersAreNotDemoted`,
`OnlyTheUnlistedAreLost`, for any number of users, invitations and requests at a
time. The invariant adds to the types that a request in progress is of a
registered user, about a household there once was, and that an invitation has
let one user in exactly if it is accepted - refreshing, revoking and sweeping
keep that, and only a join that claims it changes it. `RehomedFacts` is the
lemma all moves rest on: whoever is given a new household owns it alone, as its
id is new. `MembershipSteps` sorts the steps of the program into the four ways
a membership can change.

**`PlannedPaymentsProofs`** - of `Recurrence`, for all dates: `AdvanceIsDate`
(no February 30), `TwinsAgree` (the Go and the TypeScript function give the
same date), `AdvanceIsNextPeriod` (the next day, week, month or year: none is
skipped), `AdvanceStaysOnSeries` (a date of the anchor's series advances to one
of it, so a clamped date does not stick). The lemmas number the days from the
first of year 0: each month starts where the one before it ends
(`MonthsFollow`), each year too (`YearsFollow`), so adding days to a date adds
them to its number (`DayNumberAdds`). The repository pins the two functions by
a table of examples; the theorems are about every date.

Of `PlannedPayments`: `PlansTypeCorrect`, `SeriesNeverDrifts`,
`NoOccurrenceSkipped`, for any plans, regularities, devices and overlapping
sweeps. A plan lives in more places than the properties name: the rows a sweep
has read, and the server's state noted in a conflict, which *take server* writes
back to a device. The invariant `SInv` says of every such copy what `Sound`
says of one - its due date is on the series of its anchor, and every period
before it has its transaction - and for a sweep's rows it counts the
transactions that commit with them. A copy changes by being written anew
(a new series, nothing to show), by advancing (the theorems of `Recurrence`:
exactly the one period that gets its transaction), or by
becoming another copy; transactions are only ever added.

`CleanDevicesAgree`, `NeverPaidTwiceUntold` and `AdvancementsAreKept` need to know how
copies relate. `Kept` says of versions what the sync promises: a CLEAN row or a noted
conflict tells what its version held, if that is still the server's (`Reports`), and the
versions a device knows are the server's or older. `Line` is the argument about double
payment, for a plan that is not deleted and about which no conflict was recorded. Its
versions are then one line on which series and dates only move on (`Onward`), because the
number of the edit counts the series (`Counted`). A device at the server's version is
where the server is or further (`Ahead`), and past all it has paid itself (`OwnPast`). The
server is past every payment but those of devices with the plan still to push
(`Accounted`), and two payments of one occurrence can exist only while one of them is by
a device whose push will be refused, will delete the plan, or is the first past that
occurrence (`Apart`, `Excused`): what happens then is a conflict, the plan's end, or the
other device becoming the one that is refused. A sweep's rows and payments continue
the line from where it took the household lock (`Advancing`).

**`RestWritesProofs`** - `Typed`, `RetriesWait`, `ReplaysAreTrue`,
`UpdatesReplaceWhatTheyChecked`, `OrphansAreLate`, for any requests, keys, bodies,
thresholds and clock. What makes the middleware work is not in any property: a
request that has not committed and is not stale still owns a row of its key
(`Covered`), so a second row can exist only when the first was deleted - because
it was stale, expired (later still, as `Stale < Ttl`) or failed. `Apart` says of two
requests of one key what follows when both are past their registration, `RowOK` what a
completed row may contain, `Source` who stands behind a replayed answer; together
they are `KeyInv`. `Checked` is the other half: the row a PATCH has read is the current
one, or the current version is higher (`PatchInv`), so that comparing the version
under the lock compares everything. `OrphansAreLate` rests on a second layer: the
log tells each record's version (`LogTells`), and a delete leaves no reference behind
- a plain one because it is refused, a cascading one because it buries them.

**`WebPushProofs`** - `Typed`, `RepeatsNeedFailures`, `SweepsRemind`,
`FarEastIsPassedOver`, for any users, browsers, plans and zones. The first two rest on
`Accounted`: a reminder that was pushed once more often than there were failures is
marked, or waits for its marker, or its window is over; and what a sweep has before it was
pushed less often. It is kept because a sweep reads only what is unmarked, there is one
sweep, and a marker that is pruned belongs to an occurrence whose window is over for every
later sweep (`StaleIsOver`), which is what the assumption on `KeepDays` is for.
`SweepsRemind` and `FarEastIsPassedOver` are the two sides of the arithmetic of zones: no
sweep passes over a reminder in its window, except one of the day itself in a zone further
east of UTC than the reminder's hour (`InWindowNotHandled`); and where the zone is further
east than the hour and the scan window together, every such reminder is passed over for ever
(`FarEastHandled`). Against the specification, which knows no such zones, the second is
the result that matters (section 5).

**`SyncEngineProofs`** has no theorem of a specification: it states what every
transaction of a device's database does, for any database in order. `Fine` is that
order: types, operation ids that are distinct and were generated (`Numbered`), and of
each record that its operations fit its row (`Sound`) and that a live DIRTY one has an
operation (`Waiting`). Its numbers are the crux: `ver` is at least `sv` plus the number
of operations that wait, so that confirming one of several never makes a record CLEAN.
`Touched` says what one transaction did to one record and left alone elsewhere; every
operator of `SyncClient` and `SyncEngine` is shown to be such a touch or a fold of them,
and four readings of a touch are carried through the folds:

* `Leads` - the database stays `Fine`, and an operation that was sent stays what it was
  (`Follows`); the results of a batch and a page are taken in one by one;
* `Stems` - an operation that may create a record is only ever enqueued by a create, and
  a version is only ever learned of a record that is there (`Rooted`);
* `Retained`, `Held` - an edit stays in its row or in a conflict, whatever the answer;
* `Candid` - what a record, its conflict and its operations say of the server is so: a
  CLEAN row is the server's at its version, the last operation carries what the row
  holds (`Requeued` follows the first and the last through the queue), and a sent one
  that was applied says what the server has at the version it was given.

The folds over a batch are the library's `FoldLeft`, whose definition chooses a function
on subsets of the index set. `IterExists` shows that there is one, and `Climbs` walks
along it, so that a fact about one answer becomes one about all of them.

The server's half of a push is here too, for one household is served like many: `Moves`
says what one operation does to a household's rows and log, `ApplyMoves` what the record
of operation ids adds, `Reports` what a pulled change tells.

**`TrataSyncProofs`** - `DatabasesTyped`, `NoEditWithoutOperation`, `UnbornNotOnServer`,
`EngineLosesNoEdit`, `CleanRecordsAgree`, `CaughtUpDevicesAgree`, for any devices, records,
payloads, lost and repeated answers and late requests. The inductive invariant `InOrder` says of each device that its database is
`Fine`, and relates it to what is under way: an operation in a request or in a late push
is what the device still holds under its id, and was sent (`SentAsIs`); the server has
applied an upsert at the version after its base or not at all, and nothing that was never
sent (`SeenByServer`); answers are answers to the batch they stand beside (`AsAnswered`);
ids are generated before anyone hears of them (`Heard`). Without the last two a replayed
answer could confirm what it was not given for.

`UnbornUnknown` does not follow from it: an unsent create, and a record of that id on the
server, are in order. `Originated` adds that a record has one origin (`OneOrigin`): at
most one operation of all the devices may create it - the first operation of a device that
has never heard of it, or an upsert from version 0 under way -
and the server has applied it if it has the record. Whatever else is under way, noted in a
conflict or logged is of a record the server has (`Traces`, `Grounded`). A restored record
gets a new id, and so a new origin. From there: an unborn record's first operation is its
one origin, and was never sent, so the server has not applied it. The same invariant shows
why no answer discards an edit (`AnswersTrusted`): an operation confirmed by an answer was
sent, at the base it still has, and a conflict is about a record that is there and not the
device's own create.

`CleanRecordsAgree` needs to know what is told and not only who tells it. `Spoken` is the
third invariant: every device is `Candid`, every version an answer, a page or the log
mentions was or is the server's (`Attests`, `ChangeSays`, `Honest`), and copies of one
operation say the same (`Quotes`). All of it is of the form "if the server is still at
this version, then it has this"; so it survives every write of the server, which raises the
version of what it changes (`Grows`). It is stated with a flag `plain`: the server's create
drops the archived mark (section 5), so a category that was archived before its create
was sent is CLEAN at version 1 and differs from the server's. `CleanRecordsAgree` is
therefore about users who archive no category, which is what the runs' `UserData` is;
`CleanRecordsAgreeButMark` has no such assumption and says exactly what remains.

`CaughtUpDevicesAgree` closes the gap that `CleanRecordsAgree` leaves: a CLEAN record might
be at a version the server has long left behind. The fourth invariant, `UpToDate`, says
that nothing is missed: what a device has not taken in of a record is beyond its cursor
(`KeepsUp`). Per record (`Abreast`), the version the device has heard of - its row's or
that of the open conflict - is the server's, or an entry of the log about the record is
still to be pulled (`Fresh`, `Behind`); the same of a version at which the server has
applied an operation whose answer the device may yet take in; and a record the device does
not have is not live on the server, or to be pulled. It holds because

* the server announces what it writes (`Announces`): every write of a record, those of a
  cascade too, has an entry beyond the previous end of the log, and the last entry of a
  record tells the version it is at (`Ledger`);
* a page is all of the log between two cursors, in order (`Orderly`), so that taking in one
  change moves the cursor past no other record, and past the last entry of this one only
  with its version (`CursorMoves`). A page that is on its way stays orderly, as the log
  only grows at its end;
* a batch has one operation per record, on records without a conflict (`Apart`), and its
  answers are those the server gave (`Timely`): the conflict tells the version the row was
  at, or one that is announced beyond the device's cursor (`Awaits`). User edits and
  pages cannot come between in a way that makes an answer stale.

The theorem has two hypotheses. Users archive no category, as above. And no cascade wipes a
row the server may have heard of: `WipedRowsUnborn`, the claim of a comment (section 5).
With two categories the code does break it - a transaction moved to a category of the device's own is wiped
with it, its delete never travels, and the server keeps it - and there the device is
caught up and does not agree. With the one category of the run `sync` it cannot happen, so
the run needs no such hypothesis; the theorem says that this is the only way.

**`HouseholdSyncProofs`** - `HouseholdsTyped`, `HouseholdChangeStrandsNothing`,
`RecordsLeaveForGood`, for any users, households and devices. What `InOrder` says of a
device and the server, `DeviceOK` says of a device and every household at once: no push
names the household it is meant for, so each must have applied an upsert of the device at
the version after its base, or not at all. Two things are new.

* A database may become another one under a run. A wipe (`WipedOn`) and a rebase
  (`RebasedOn`) both lead to a database in order, by the same relation `Leads` as every
  other write: operation ids go on from where they were, so an answer that comes later
  meets no operation of its id and changes nothing. A rebase is a fold that queues each
  row that stays (`Carrying`), and needs a live row to have a version (`Aged`), or an
  answer could leave one of version 0 that it would not tell from a new one.
* A batch is a fold over households (`BatchClimbs`), in which a create may take a
  record from another household. `BatchFine` says that each of them stays in order.

`RecordsLeaveForGood` adds `Owned`: a record is in one household, whose log has it in its
present version. `PushedKeeps` is the step that matters: the household that serves the push
gains only records no other has, except by adoption, which takes the record from the one
household that had it; that one has no members, and the serving one has the user whose
push it is. A later operation of the batch may bury the adopted record, by a cascade; so
the property asks for the record, not that it is live.

Only model-checked: `SettledAgrees` of `HouseholdSync`, and liveness
(`CommittedIsDelivered`, `Converges`, `AutoExecuted`), which is out of the prover's reach.
`SettledAgrees` needs the invariants of `CaughtUpDevicesAgree` per household, together with
which household each stored version, conflict and page in flight stems from; `crossed` and
`robbed` record what breaks that link.
It has the two hypotheses of that theorem as well: users archive no category, and no cascade
wipes a row the server may have heard of. The run has one category, so that a
cascade cannot; with two, the device that wipes a transaction with a category of its own
(section 5) is through with its household and does not agree with it.

## 5. Where the code does not do what it says

Three are runs whose single property states what a comment or a specification
says; TLC finds a behaviour of the code that violates it.

* `claim_cascade_covered` - *the flagged category delete covers the buried
  transactions* (comment of `remove` in `repositories/category.ts`). An unsent
  edit before the delete makes coalescing rewrite the payload to `null`, and the
  cascade flag is gone.
  A second way needs two categories: a transaction whose move to a category is still
  unsent is deleted with that category, its operation is dropped as covered, and the
  server, where it refers to another category, keeps it. The device is left with a DIRTY
  tombstone without an operation, and never learns that the record is live elsewhere.
* `claim_owner_abandons` - *the owner cannot leave a household that still has
  other members* (`openspec/specs/household/spec.md`). `Leave` counts the members
  in one read and moves the owner in a later transaction; and an owner who
  accepts an invitation or presents a code is not asked at all.
* `claim_carry` - *a base-0 create of a record in a household without members
  adopts the record, and is reported as applied* (`openspec/specs/sync-protocol/spec.md`).
  `AdoptOrphanedID` deletes the orphaned row; a category or an account with a
  transaction is still referred to from the orphaned household, the foreign key refuses
  the delete, and the batch fails with a 5xx - each time, and before any
  pull. A user who joins a household and carries an ordinary budget along therefore
  never syncs again. The repository's tests carry accounts without transactions.

Five more are stated in the modules and have no run. To see one violated, name it
in the cfg given here.

* `WipedRowsUnborn` (`TrataClaims`; `MCClaimCascade.cfg` with two categories and
  `MaxEdits` 3) - *born transactions cannot exist for an unborn category* (comment in
  `repositories/category.ts`). A born transaction moved to an unborn category vanishes
  with it, without a tombstone or an operation.
* `EveryoneHasHousehold` (`Household`; `MCClaimOwner.cfg`) - *a user without a
  membership is a violated data invariant* (comment of `AuthRequired`). A join that
  commits between a dissolution's list of members and its deletes goes with the
  household. `RehomedAtOnce` shows that this is the only way.
* `AnchorIsLastSet` (`PlannedPayments`; `MCPlannedPayments.cfg`) - *the anchor is the
  day of the date the user last set* (`openspec/specs/planned-payments/spec.md`).
  `plannedPaymentAdapter.create` passes no anchor and the query stores the due date as
  one, so a plan made offline for January 31 and confirmed before its first push is
  anchored at February 28 on the server. The device keeps January 31 until it pulls a
  later version. (The edit forms resend the due date, so that any edit of a plan that
  stands on a clamped date makes that date the anchor; whether the user has set
  it then is a matter of reading.)
* `OccursOnItsDate` (`PlannedPayments`; `MCPlannedPayments.cfg`) - *the transaction is
  dated, by default, with the confirmed occurrence's date* (same specification). The
  sheet keeps the plan it was opened with and `confirmPlannedPayment` compares no
  version: if a pull advances the plan meanwhile, the plan advances past an occurrence
  whose transaction is dated with the one before, of which there are then two.
* `EveryZoneReminded` (`WebPush`; `MCWebPush.cfg`) - *the server shall send one reminder
  push per occurrence to each subscription, `on_day` occurrences at 10:00
  subscriber-local time on the scheduled date* (`openspec/specs/web-push/spec.md:47-52`).
  Further east than UTC+10 that instant is before UTC's midnight, when the query still takes
  the occurrence for handled early (`push.sql:39`, `pushremind.go:139` and `:212`).
  `EverySweepReminds` says that this is the only way a reminder is passed over, and
  `FarEastUnreminded`, a theorem too, that there it always is.

Met while modelling, without a run: a retry in backoff after a lost answer is not
selected, the empty batch counts as a completed push phase and the pull brings a
lone device's own change back as a conflict (`sync-engine.ts:287` against the
comment of `pushPhase`); a *deleted* conflict, which the comment of
`selectPushBatch` calls informational, is refreshed with kind `version`, and the
pending delete is held back (`sync-engine.ts:597`); `categoryAdapter.create`
passes no `ArchivedAt`, though `queries/categories.sql:7` says that it rides along;
the daily budget of invitations counts rows, so that refreshing one pending invitation
sends any number of mails and counts once (`household_join.go:76`).

Of `RestWrites`, and why its properties are worded as they are:

* `openspec/specs/transactions/spec.md:156-168` promises that a repeated request
  creates no second transaction. It does when the first is still running after five
  minutes, when it committed and its answer was never stored (the server stopped in
  between; again after five minutes), and when it committed but its handler was told of an
  error.
* The references a request has checked may be gone when it writes, and no later
  check repairs that: a live transaction of a deleted category (`OrphanIsLate` says that
  there is no other way to one). Its foreign key then also keeps the retention job
  from purging the category.

Of `WebPush`:

* Re-registering an endpoint keeps its first user, and signing out does not
  unsubscribe: a browser two people share goes on receiving the first one's reminders.
* A stop between the send and its marker sends twice, against "an occurrence shall not be
  notified more than once per subscription" (`openspec/specs/web-push/spec.md:55-56`).
  `RepeatedByFailure` is what holds: each repetition goes with a failure of its own.
* A plan deleted or confirmed after the candidates were read is still reminded of.
* `ensureRegistered` hands the browser's subscription object to a function that reads
  `keys` from its JSON form, so it never re-registers; and `pushremind.go:139`
  truncates to 24 seconds, not hours (harmless, as the column is a date).

Of `HouseholdSync`, all of it inside `crossed`:

* A run in flight, a later run in the same session, and the mobile background task
  do not ask for the household again, so operations of the old one can be pushed to the
  new one, against `openspec/specs/sync-protocol/spec.md:238-243`; and answers
  to the old outbox are applied to a rebased or wiped database.
* A carry out of a household that still has members - any but the last one's - makes
  every record a version conflict without the server's data.
* A device that holds a record at a higher version of the old household drops the
  changes of the adopted one, which starts again at 1.
* A join code outlives the members of its household.
* `background-sync.ts:5-7` says that the engine is single-flight across instances;
  `running` is a variable of each instance (`sync-engine.ts:206`). It also runs for
  whoever's cookie the device holds while the ownership dialog is open.
* `gatedRun` does not ask whether the user is still signed in after it has awaited the
  household check.

Of the run policy, which is taken as fairness: a manual refresh during a run is queued
without its `force` (`sync-engine.ts:736-739`, `:759-761`), so it does not bypass the
backoff that `sync-composable.ts:35` says it does.

Of the ledger, which is not modelled: `destinationAmount` is read from the payload
and passed to no query on any server write path (`repository/postgres/transactions.go:29-41`,
`sync.go:1260-1272`), against `docs/adr/0008`; and in the web app a 401 that the sync
worker meets pauses the engine without signing the user out
(`local-db-worker.ts:66-77`).

Consequences for the passing runs: `sync` has one category, so that no
transaction moves to an unborn one, and users archive nothing; `household_sync` exempts
devices in `crossed` until their next rebase or wipe, and households in `robbed`. They are
statements about the rest of the behaviour; what happens in those cases is what
the claims show.

`Converges` is about behaviours in which the server does not go on refusing an operation.
A refused operation - a name that another device took, a category that another device
deleted, a delete of a category in use - stays frozen as it was sent (`sync-engine.ts:279`), the edit that would mend it
waits behind it, and the record stays pending as long as the name is taken or the category
gone, which may be for ever: without its hypothesis `Converges` is violated, in `sync_live`
too. It concludes that the devices come to rest, not that they
agree. Agreement then follows of every record that is CLEAN and was not wiped
(`CaughtUpAgrees`); a wiped row (`WipedRowsUnborn`) and a DIRTY record without an operation,
which a cascade can leave as described under `claim_cascade_covered`, are at rest and need
not agree.

`PaidTwiceIsTold` is less than what `openspec/specs/planned-payments/spec.md:397-398` and the
comment at `plannedconfirm.go:11-13` claim, that an occurrence is never confirmed twice: the
job and a device that confirms offline do make two transactions for it, and what holds
is that a device is told of the conflict. `RetryWaitsOut` lets the takeover of a stale key
through whether or not the first request still runs: one that committed, and stopped before
its answer was stored, is run again by a retry after the threshold.
`CleanSameDue` is about the due date and the mode and not the
anchor, and `PaidTwiceIsTold` identifies an occurrence by the period the plan was
advanced past and not by the date of its transaction, because of `AnchorIsLastSet` and
`OccursOnItsDate` above.

## 6. Not modelled, and why

* The other entity kinds (accounts, debtors, debt operations)
  share the engine with the modelled ones; the adjustment cascade of accounts
  is the one new behaviour, and planned.
* Push batches are not cut at the batch limit, payloads always pass validation,
  and unknown entity kinds do not occur in `TrataSync`.
* `TrataSync` has no retention. Its pull is one step; that the two statements are
  harmless is what `StateNotOlder` says.
* `HouseholdSync` takes a change of membership in one step (`Household` has the steps),
  changes fit in one page, and one background run at a time shares the device's engine.
  A check that is awaited by a run across a logout is left out, as is the timer that
  debounces runs.
* `RestWrites` has transactions and categories of the REST API, not accounts, debts
  and reports. Of an update of a category it has the archive mark, not the name, type and
  look, nor the planned payments that block archiving: no request's check of its references reads
  them. Amounts, types and accounts of a transaction are left out. The user of a
  key is fixed. A response whose storing fails is a request that stops before `Persist`.
* `WebPush` has one sweep at a time, as the job has; payload, encryption and the
  service worker that shows the reminder are left out.
* `Household` leaves out names, currency and mail; its invitations go to accounts
  only, as an address without one cannot accept.
* `PlannedPayments` leaves out edits of the regularity (a plan's is a constant),
  the references of a plan, restoring a deleted plan as new, reminders, and the
  monthly figure of a plan. Years below 100, which `Date.UTC` reads as 19xx, are
  not dates users choose.
* Authentication (passwords, codes, sliding sessions) and rate limits are sequential
  handlers over rows that expire; screens, the web worker's RPC, formatting and generated
  code hold no protocol.
* Rounding, balances and currencies are not in these models.

## 7. Plan

In this order:

1. Accounts and the adjustment cascade in `PushEngine` and `SyncClient`, in the
   existing `server` and `sync` runs: an account's delete absorbs its adjustments on the
   device, and its references are the second of a transaction.
2. `TrataSync` with retention, and liveness with failures and transactions in one
   instance.
3. The run policy over `TrataSync`: debounce, the check in flight, `rerunQueued` and
   `paused`, in place of the fairness of `Run` in `sync_live`.
4. Proofs: `SettledAgrees` of `HouseholdSync`, which is `CaughtUpDevicesAgree` with several
   households.
5. Sessions and codes (`service/session.go`, `password_reset.go`), if their expiry
   is to be checked against requests in progress.

Modules that share state share a run where their questions can be asked of one
instance, so that a composition extends a run rather than adds one.
