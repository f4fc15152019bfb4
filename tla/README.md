# Balancia in TLA+

Balancia keeps shared expenses. It is a Next.js monolith on PostgreSQL with one
background worker (pg-boss), and a browser client that queues what is entered
offline. This directory holds a formal model of the parts of it where several
actors meet, or where a long sequence of calls does: the ledger of a group and who
may leave it, recurring expenses and their calendar, the offline queue, the
arithmetic of splits and suggested repayments, who sits in a group and what lets
somebody into an account, and the background jobs.

Source paths below are relative to `src/src/` of the repository; "docs" without a
name is `docs/financial-correctness.md`. A module has the component's variables, one
action per step of a handler, and its properties at its end; the modules named `MC...`
and the `.cfg` files instantiate them for TLC; those named `...Proofs` hold theorems.

## 1. The system

### 1.1 Components

| Component (non-test lines) | State it keeps | Operations | What makes it correct |
|---|---|---|---|
| `modules/expenses` (4416), `modules/settlements` (1571) | `expenses`, `settlements` with payers, shares and a version; `entry_client_keys` | create, edit, delete, undo, convert one into the other | an edit overwrites only what its author saw; a client key makes one entry; a change of kind neither loses nor doubles an amount; nobody removed is added to an entry |
| `modules/groups` (5058): people | `participants.removed_at`, `groups.archived_at` | remove, leave, restore; archive | nobody leaves while they owe or are owed; an entry landing in the same instant counts or is refused |
| `modules/balances` (1730) | none: five reads and pure arithmetic | `readBalanceRows`, `computeBalances`, `simplifyDebts` | balances sum to zero; what a check reads is a state that existed |
| `modules/recurring` (2492) | `recurring_expenses` with `next_run_at`, `recurring_occurrences` | create, edit, pause, resume, delete, undo; generate what is due | one expense per date; nothing before nine; counts kept; what a pause skipped stays skipped; every date made in the end |
| `lib/offline`, `components/offline`, the entry form | IndexedDB outbox, drafts, snapshot | enqueue, flush, replay, discard, forget | each entry is written once, as its author, through lost answers; none is lost; nobody's waits for ever |
| `modules/agent-access` (2074) | OAuth codes, grants, refresh tokens | authorize, exchange, refresh, resolve, revoke, prune | a code is spent once; a refresh token used twice ends its grant |
| `modules/join` (1667), `modules/guests` (247), invitations in `modules/groups` | join links, invitations, guest sessions | redeem, claim a place, revoke | one live invitation per person; nobody claims a place that is taken or removed |
| `modules/auth` (7813) | sessions, verification codes, passkeys, accounts | sign in, sign up, verify, close an account | a code is spent once; an ended session stays ended |
| `modules/backup` (4711) | destinations, runs | begin, upload, sweep, prune | one run per destination at a time; an abandoned run is cleared up |
| `modules/imports` (3482) | import runs, fingerprints | parse, map, commit | a retried commit writes nothing twice |
| `modules/attachments` (485), `lib/storage` | uploads, links | upload, link, sweep | the sweeper takes no upload that is linked |
| `modules/notifications` (2153), `lib/push` | deliveries | enqueue, deliver, sweep | each announced once at most and looked at in the end; a device given up on only after failures nothing has interrupted |
| `worker/`, `lib/jobs` | pg-boss queues, heartbeat | run, supervise, shut down | lost connections are taken up again; a shutdown lets jobs finish |
| `modules/currencies` (2401) | cached rates | convert, refresh | conversion is frozen at write time; allocations of a conversion add up |
| `lib/security` | rate-limit windows, spent challenges | count, spend | limits hold between processes |
| `lib/db` | migrations | migrate | two containers do not migrate at once |
| the rest: activity, api-tokens, categorization, demo, exports, payouts, profile, receipts, reminders, search, telemetry, UI, routes, i18n | single rows, or none | reads, formatting, writes of one row | local to a function |

### 1.2 How they interact

* Requests (server actions, REST, MCP tools) resolve who is calling
  (`lib/security/authorization.ts`) and call a module's service, which opens
  **one PostgreSQL transaction under READ COMMITTED**: every *statement* sees what
  had committed when it started. What keeps two transactions apart is row locks
  (`FOR SHARE` on the people an entry names, `FOR NO KEY UPDATE` on a person being
  removed, `FOR UPDATE` on a template being edited), unique indexes
  (`entry_client_keys`, `recurring_occurrences`) and a version on each entry.
* The worker's hourly `recurringGenerate` job calls the recurring service, which
  writes expenses through the expenses service, as does the request that saves a
  series. The web process and a separate worker may both run it.
* The browser's outbox replays entries under client keys; imports, categorization
  and notifications hang off the same services.

### 1.3 What is hard

Interleavings of statements of two transactions; a read that is used after another
transaction has committed; replays of a request whose answer was lost; a process lost
between two commits; and columns with two meanings (`next_run_at` is both the due date
and the floor of the next run). `PROJECT.json` lists each of these hazards at its line.

## 2. Modules

| Module | Models | Run by | Theorems in |
|---|---|---|---|
| `LedgerRows` | the rows of one group's ledger and the balance arithmetic | | |
| `GroupBook` | **abstract**: every operation on the ledger as one step | `ledger_core` | |
| `Ledger` | the transactions of expenses, settlements, conversions and removals, statement by statement | `MCLedger`, `LedgerRemoval` (a history variable for removals) | `LedgerProofs` |
| `Schedule` | dates of a rule whose periods all have one length | | |
| `Recurring` | a template, its runs and the requests that change it | `MCRecurring`, `MCJobs`; `RecurringHistory` (history variables for what was missed and skipped) in `MCSeries` | `RecurringProofs` |
| `Calendar` | the dates of a rule on months and leap years, and what an edit, a pause and a run make of them | `MCSeries` | |
| `Outbox` | a browser's queue of entries, the tabs that fill and drain it, and the route that takes them | `MCOutbox`, `MCMoney` | `EntryProofs` |
| `Money` | allocation, conversion, balances and suggested repayments | `MCMoney` | `EntryProofs` |
| `Membership` | seats, accounts, links and roles of a group | `MCAccess` | `MembershipProofs` |
| `Grants` | what an account has allowed AI assistants: codes, grants, refresh tokens | `MCAccess` | `CredentialProofs` |
| `Accounts` | what lets somebody into an account, and what ends it | `MCAccess` | `CredentialProofs` |
| `BackupRuns` | the runs of one cloud destination | `MCJobs` | `WorkerProofs` |
| `Deliveries` | pushes of notifications | `MCJobs` | `WorkerProofs` |
| `Attachments` | receipts: a row and an object that cannot change together | `MCJobs` | `FilesProofs` |
| `Imports` | the commit of a staged file | `MCJobs` | `FilesProofs` |
| `WorkerHost` | the worker inside the web process, its start and its shutdown | `MCJobs` | `WorkerProofs` |
| `Sums` | no code: what the folds of the community modules come to when they add up | | itself; `LedgerProofs` and `EntryProofs` use it |

`MCMoney`, `MCSeries`, `MCAccess` and `MCJobs` run several components in one instance.
Those share no state, so a behaviour is one of one of them: a constant variable (`side`
or `part`) says whose, chosen at the start, and the others rest in an initial state.
Nothing is lost by that, and nothing is claimed about how they meet.

### 2.1 Ledger

State: `removed` is the people whose `removed_at` is set; `entries` the rows of
`expenses` and `settlements` together, live or soft-deleted, each with its content
(who paid, whose shares they are), version, client key and the entry it replaces;
`spent` is `entry_client_keys`; `shared` and `removal` are the row locks on people;
`req` is what each call in flight carries and has read.

A transaction is split wherever another can commit between two of its statements:

| Phase of a call | Code | Actions |
|---|---|---|
| starts | the fast path on the client key; or a form is opened on an entry | `Create`, `Convert`, `Open` |
| `existing`, `previousPayers`, `previousShares` | `updateExpense` reads the entry, then `participantsOfExpense`; `updateSettlement` reads both with the row | `ReadExisting`, `RefuseDeleted`, `ReadPreviousPayers`, `ReadPreviousShares` |
| `lock` | `assertParticipantsInGroup`, `lockParticipants`: FOR SHARE, row after row in any order, holding those it has; then what the query returned is judged | `LockRow`; `AcceptNamed`, `ClearRemoved`, `RefuseRemoved` |
| (removal) | the target row FOR NO KEY UPDATE | `LockTarget` |
| `expenses`, `payers`, `shares`, `settlements` | the statements of `readBalanceRows`, for a removal and for a repayment that clears somebody removed | `ReadExpenses`, `ReadPayers`, `ReadShares`, `ReadSettlements` |
| `write` | the writes and the COMMIT, or a rollback | `WriteNew`, `RefuseNew`, `WriteEdit`, `RefuseEdit`, `Remove`, `RefuseRemoval` |
| any | the connection or the process is lost | `Crash` |

`Delete`, `Undelete` and `RestorePerson` are one UPDATE each. A write and its commit
are one step: until the commit nobody sees the write, and the row is locked. `Delete`
is one step although the code reads the row first, because its UPDATE repeats
the guard.

Abstractions: one ledger currency; an entry's content is who is on it and for how
much; ids are handed out in order. Authorization, attachments, notifications and the
archived flag, which are resolved before the transaction, are left out.
A form is submitted with whatever its author read when it was opened (`opened`), and
with or without the version (`Versioned`: the API takes edits without one).

`GroupBook` is what the ledger promises: a creation, conversion, edit, deletion, undo,
removal and return, each as one step on rows. `ImplementsBook` states that the
transactions refine it, the locks and the calls in flight hidden. It holds where
every edit carries its version; without one an edit may put back somebody who
was taken off and removed meanwhile (§5).

### 2.2 Recurring

State: `template` is the row of `recurring_expenses` with `next` the day of
`next_run_at`; `added` the occurrences with the expenses generated; `archived` and
`gone` the two facts outside the template that matter to it (the group is archived;
somebody the template names has left); `act` what each run or request has read; and
`clock` counts half days, a date's nine o'clock being an odd number.

| Code | Actions |
|---|---|
| `generateDueOccurrences`, `generateTemplate` | `Tick` (the copy of the row), `ReadLast`, `ReadCount` (`seriesSoFar`), `Generate` or `Skip` for each date (a transaction each), `Recount`, `MoveMarker`, `Fail` |
| `setUpRecurringExpense` | `Create`, `SetUp`, then the same run |
| `updateRecurringExpense` | `Edit`, one step: its FOR UPDATE conflicts with the foreign-key lock of an occurrence |
| `setRecurringPaused` | `Pause`; `Resume`, `ReadLast`, `ReadCount`, `WriteResumed` |
| `deleteRecurringExpense`, `restoreRecurringExpense` | `Delete`, `Restore` |
| `setGroupArchived`, `rescheduleAfterUnarchive` | `Archive`; `Unarchive`, `ReadLast`, `ReadCount`, `WriteUnarchived` |
| `removeParticipant`, `restoreParticipant` | `LeaveOrReturn` |

`Pause`, `Delete` and `Restore` are one step because what they read they do not use.
A run's `now` is taken at its start. The people of a template are
one flag: an occurrence is skipped whenever *any* of them has left. Weekly rules without a
weekday are not modelled; `Schedule` takes a week of `unit` days, and rules of months and
years are `Calendar`'s.

### 2.3 Outbox

State: `outbox` is the object store of that name, by client key; `page` what each tab's
page was rendered for (`DeviceActor`) and `session` whose cookie the browser holds, two
facts that may differ; `form` and `flush` what each tab waits for, a drain holding the
copies it has read; `leaving` the tabs in the middle of a sign-out; `late` the requests
nobody waits for any more, which the server may handle yet; `rows` the
expenses written, and `archived` whether the group takes any. `author` records
who pressed the button for each key.

| Code | Actions |
|---|---|
| `onSubmit` of the entry form | `PressOffline`; `PressOnline`, then `FormAnswered` or `FormLost` (which queues) |
| `flushOutbox`, `send` | `Start` (read, filter, first request), `Serve` or `Lose`, then `Remove`, `HoldBack` or `BackOff` by the verdict, each with the next request |
| `isDue`, `backoffMs` | `BecomeDue` |
| the pending strip | `Discard` |
| the group layout, sign-in, sign-out | `Render`, `SignIn`, `Forget`, `EndSession` |
| what befalls them | `LoseSession`, `Close`, `ArchiveOrRestore`, `HandleLate` |

A drain is split wherever it awaits: another tab, the server or a sign-out may act
between the reading of the queue, the answer, and the writing back. The copy that a
drain writes back is the one it has read, as in `recordAttempt`, even when the record is
gone. The server's answer is one step (`Ledger` shows that a key makes one entry
whatever interleaves), in the route's order: who calls, whether the group takes their
entries, the key, then what the entry says.

Abstractions: one group; people with accounts (a guest's seat that becomes an
account, and the upgrade that adopts entries from before owners were kept, are left out);
the payload is the press it came from; attempts are a flag, waiting or due. A form
that knows nobody queues what is never sent, and is left out.

### 2.4 Calendar

State: the template's `rule`, `next`, `last` entry and `paused`; `settled`, the day up to
which every date has been made or is skipped, which is not in the code. Days are counted
from Friday, 1 January 2027.

| Code | Definitions |
|---|---|
| `firstOccurrence`, `nextOccurrence`, `occurrenceAfter`, `occurrencesUpTo`, `firstOccurrenceDueAfter` | the same names, capitalised (`CivilFirstOccurrence` beside `Schedule`'s): the walk from one date to the next |
| `editWindow`, `periodStart` | `EditFrom`, `EarliestStart`, `PeriodStart` |
| `setUpRecurringExpense`; `generateDueOccurrences`; `updateRecurringExpense`; `setRecurringPaused` | `Save`; `Run`; `EditSeries`; `PauseSeries`, `ResumeSeries`, one step each |

The reference they are checked against does not walk: `Fits` says which days fit a
rule, `Period` in which of its periods a day lies, and `Named` puts the two together.
luxon's arithmetic (the length of months, weekdays) is `DaysInMonth` and what is
built on it. `Recurring` has the interleavings, counts and failures of the same code;
it walks `Schedule`, whose weeks and days are all of one length.

### 2.5 Money

State: each person's `balance`, the `entry` just written with what was typed and its rows,
and the suggestions `shown` on somebody's screen. `AllocateByWeights`,
`ConvertAllocations`, `Booked` (`computeBalances`) and `SimplifyDebts` are functions of
their input; `EnterWeighted`, `EnterExact`, `Suggest` and `Repay` apply them entry
after entry. People are numbered in the order callers list them, which
decides ties. MoneyDecimal's digits are taken to be as many as it needs. A list of
suggestions older than an entry promises nothing and is dropped.

### 2.6 Membership

State: `seats` (participants), `members` (group_members, with the order in which they
`joined`), `invites`, `guestSessions`, the group and its `creator`, `accounts`, and what
each request has read (`calls`). A transaction is split wherever what it has read may
be changed by another before it is used:

| Code | Actions |
|---|---|
| `createInvitation`; `revokeInvitation` | `OfferLink`, then `WriteLink` under the index on live links; `RevokeLink` |
| `joinAsGuest` | `PickName`, then `TakeName`, for a name on the list; `JoinAsNewGuest` |
| `redeemInvitation` | `OpenLink`, `StartSession` |
| `claimGuestSession` (the upgrade of a guest) | `BringCookie`, `ClaimSeat` |
| `claimMember`, `createMember` | `ClaimMember`, `JoinAsNew` |
| `addParticipant`, `removeParticipant`, `restoreParticipant` | `AddName`; `BeginRemoval`, `FinishRemoval`; `RestoreSeat` |
| `deleteAccount` and the succession of the door; `deleteGroup` | `BeginClosing`, `ReadSurvivors`, `ReadGuests`, `CloseAccount` or `CloseGroup`; `DeleteGroup` |
| a transaction that does not commit | `Abandon` |

The shared link is live throughout; expiries, and the balance that lets somebody leave
(`Ledger`'s), are left out.

### 2.7 Grants

State: `agent_codes`, `agent_grants` and `agent_refresh_history`, what each request to the
token endpoint has read, where a "disconnect everything" stands, and the day. A refresh
token is a grant and a generation. `Exchange`, `Spend`, `LoseRace`, `AfterRace` are
`exchangeAuthorizationCode`; `Refresh`, `Rotate`, `RefuseRotation` and `PresentReplaced`
are `refreshGrant` with the token that is in force and with one that was replaced;
`Revoke`, `Disconnect`, `TakeBackCodes` and `TakeBackGrants` end grants; `Prune` deletes
what is old. History variables (`mintedBy`, `rotations`, `uses`, `reused`, `before`,
`taken`) keep what pruning forgets. `disabledAt`, which nothing in the code sets, and
the expiry of access tokens are left out.

### 2.8 Accounts

State: whether the address is verified and a password set; sessions, keys and
passkeys (`creds`); the mailed links and codes (`tokens`); where each request stands. A
link is spent in one statement (`FollowLink`), a code is read and then spent
(`ReadCode`, `SpendCode`, `RefuseCode`); what follows is a transaction or a statement of its
own: `Prove` (`proveAddress`), `ResetPassword`, `ConfirmChange`, `EndLogins`, `EndKeys`,
`SignIn`. `Retoken` and `Issue` retire old tokens and write a new one. `StartLogin` and
`ResolveLogin` are a session made, and one whose cookie is resolved; `Add` and `Drop` mint
and end keys, passkeys and sessions; `VerifyOldPassword`, `WriteNewPassword` and `EndOthers` change
the password. The instance has SMTP. Expiries, guesses and what is typed are left out:
a request that would be refused for them is not a step.

### 2.9 Background jobs

`BackupRuns`: the destination's row, its runs, the jobs queued for them, and the files
in the cloud by the order they were begun in. `SweepBackups`, `SelectDue` and `OpenDue`
are the ten-minute sweep, `BackUpNow` the person's; both open a run and then `Publish` its
job, or the process is lost between (`PublishFails`, `OpenerDies`). `TakeJob` copies the
destination's row, `Put`, `ListCopies`, `RemoveCopy` and `EndRetention` are the backup,
`RunSucceeds` or `RunFails` and `Mark` write back. `GrowOld` makes a run older than
`STALE_RUN_MS`. Pause, resume, setup, reconnection and deletion may come at any moment.

`Deliveries`: a change commits its notifications (`Record`) and then asks for a job
(`Enqueue`); `TakeDelivery` and the sweep (`SweepStale`, `SweepClaim`) claim them, and
`Pushing` reads the devices, sends, and counts failures, a statement at a time;
`PusherDies` at any. `Subscribe` sets a device's row anew, `Unsubscribe` deletes it. The
history `misses` counts, per device, the jobs in a row that were answered and did not reach
it, from what the services said and not from `failure_count`.

`Attachments`: `StoreUpload`, `CountFiles` (under the group's row lock), `InsertRow`,
`TakeBackObject` and `UploaderDies` are an upload; `LinkUpload`; `MarkDeleted` and
`RemoveObject` a deletion; `SelectOrphans`, `SelectDeleted`, `PurgeObject`, `PurgeRows`
and `SweeperDies` the daily maintenance; `ReadGroupKeys`, `DropGroup`,
`RemoveStored` and `RemoverDies` the deletion of a group. Storage refuses, and processes
are lost, up to `MaxFaults` times. Two histories keep what then lies in storage with nothing
to lead to it: `abandoned`, objects whose last removal was tried and failed, and `lost`, those
of an upload or a deletion whose process was lost.

`Imports`: `BeginCommit`, `ReadRows`, `ReadPrints`, then per line `PassRow`,
`SkipDuplicate`, `WriteRow` or `FailRow` (a savepoint each), then `FinishCommit` or
`AbortCommit`. A line stands for its fingerprint; who it names is left out, and so is its
former fingerprint (751-755), by which a line is skipped just as by the one it has now.

`WorkerHost`: a step is what runs between two awaits of one process. Next bundles
`instrumentation.ts` apart from the route handlers, and a module-level variable is then
there twice (`lib/jobs/worker-status.ts:19-22`); `boss` and `starting` are such variables
(`lib/jobs/queue.ts:84-85`), so each is a function of `Copies`: the worker, its jobs and the
shutdown use one, requests the other. Only `workerState` is on `globalThis`. Within a copy
`AwaitBoss` and `PublishJob` share a start (`BossStarts`, `StartRefused`). `WorkerRuns` or
`SubscribeRefused` subscribe, `Cleared` and `TryAgain` are the supervisor's retry, `Signal`
and `Exit` the shutdown. A stop ends closed or given up on (`StopSettles`); an instance that was
given up on is `left`, its pool perhaps open, and may close yet (`ClosesLate`).

## 3. Runs

Passing runs finish; violation runs show a disagreement of §5.

| Run | Asks | Bounds |
|---|---|---|
| `ledger_core` | do creates, versioned edits, deletions, undos, removals and crashes refine `GroupBook`; is nobody put on an entry while their removal is decided; does an edit overwrite only what its author saw? | 2 people, 3 calls, 1 entry, version 4: other edits commit between the opening and the submission of one |
| `ledger_keys` | one entry per client key; a replaced entry is replaced once; whoever leaves is square; a repayment for somebody removed settles what is outstanding and no more; does each call that has begun end, whatever row locks it holds while it waits for another? | 2 people, 2 calls, 1 key, 3 entries, an income that both share and a repayment, no edit, no undo |
| `recurring_alone` | a series by itself: counts, the marker, what stays skipped (`side = "history"`); is the next date always the one the rule names, and do edits keep their dates (`"calendar"`)? | 9 half days, batches of 2; eight forms of rule on five days from 31 January 2027 to 29 February 2028 |
| `outbox` | is what was typed once written once, and does nothing leave the queue unwritten but by a discard or a sign-out; are an entry's rows fair, and do suggestions clear everybody? | 2 tabs, 1 person, 2 entries, 1 mishap; 4 people, entries of 5 units, weights 0 to 2, credits of 1, rates 1:1 and 2:3, balances from −3 to 3 |
| `outbox_live` | do two people leave each other's entries alone; does every entry go out? | 1 tab, 2 people, 2 entries, 2 mishaps |
| `access` | do seats and memberships agree; one link a seat; who may get the door; are codes, tokens and links spent once; does reuse end a grant; does what was ended stay ended? | 2 seats, 3 users, 2 invitations, 1 guest session, 2 calls; 1 code, 2 grants, 2 rotations, 4 days; 2 logins, 1 key, 1 passkey, 2 tokens, 2 requests |
| `jobs` | two workers at once, and processes lost between any two steps: is each date, line and push made once, a device dropped only for cause, one destination written by one run, its newest copy kept, every object accounted for but two residues, and "running" true? | 2 runs of each job, 4 half days, one date a run, 2 rows of each kind, 2 copies, 2 failures or faults, 3 instances of pg-boss, 2 refusals: the requests' instance, one left open and a third that starts |
| `jobs_live` | is what was begun ended: are dates made, backup runs closed, notifications looked at, deleted receipts removed, and does the worker come up? | as `jobs`, one worker, 6 half days, 1 failure |
| `ledger_torn`, `recurring_edit_race`, `outbox_author`, `backup_pause` | violations: §5 | |

`ReplacedOnce` and `RemovedWhenSquare` are asked where nothing is undone and nothing is
edited, because there they hold. An undo may bring an entry back beside its
replacement (only the Activity screen hides the button), and edits, deletions and undos
take no lock on the people of an entry: `RemovedWhenSquare` is of removals whose reads
still stand when they commit, and `ledger_torn` shows the rest. `SkippedStaySkipped` and
the marker are asked of one run at a time: a run that fails, or another beside it, loses
the floor (§5).

**Why the bounds are enough.** Two calls are what every race of §1.3 takes: locks
and reads relate a pair of calls; in the ledger a third lets an edit that was opened long
ago meet two others, and the theorems of §4 lift most safety properties to any number.
Edits race on one entry; three entries let a key, a conversion and another of the same
source meet. Contents put a person in debt, in credit and at zero, and drop them
from an entry. In `Recurring` a week of two days tells "a day of the rule" from "a
day"; `Batch` is the code's cap of 120 small enough to be met; nine half days are
four dates, more than a batch, a pause and a resumption together.

`Calendar`'s five days are 31 January, 28 February, 2 March and 11 April 2027 and 29
February 2028, so that a series is saved, run, edited, paused or
resumed on the last day of a long month, of a short one and of a leap year's
February, and after an outage of ten months. The forms are the 31st, every second 5th, the
last Friday, the fourth Monday until an end date, every second Wednesday, 30 February every
year, the 30th of whatever month it started in, and every third day until an end
date. What lies between two of the days is walked date by date, and checked.

In `Money` four people are enough for ties, for a debtor with two creditors and for two
debtors with one; five units on weights up to 2 leave from none to three units over, and
2:3 converts a half away. Entries are written when everybody is square (`MaxBefore`), since
what an entry adds does not depend on what was there; suggestions are asked of every
balance from −3 to 3.

In `access` a third user makes a claim meet a closing and an heir; two grants let a
code be exchanged twice over; `RefreshLife` of two days and `MaxGen` of 2 let an old token
come back after its successor has been replaced, and after pruning. Two tokens are a
link and the one that supersedes it. In `jobs` one destination, one device, two files and
two staged files of the same two lines in opposite order are what the races are over;
`KeepLast` and `MaxFiles` are 1, so that both limits are met. Only `MaxEntries`,
`MaxVersion`, `MaxClock`, `MaxGen`, `MaxDay`, `MaxCopies`, `MaxFaults`, `MaxRefusals`,
`MaxChanges` and the finite sets of ids appear in guards. A call of the ledger reserves its
row before it starts (`RoomToInsert`, `RoomToEdit`), so that no transaction in flight is
cut short by a bound. `MaxChanges` bounds only what befalls the device and the group:
losses, late answers, replays and backoffs are without bound.

`CHECK_DEADLOCK FALSE` appears where the system, or the instance, really comes to rest: once
the clock, the ids and the faults are used up (`access`, `jobs`, `jobs_live`,
`backup_pause`, `recurring_edit_race`), or once everything has been written (the runs of
`Outbox`).

**Fairness.** `Ledger`: a statement that waits for nothing completes (WF on `Proceed`);
one that waits for a row lock is in PostgreSQL's queue for that tuple, so it is not
passed over for ever (SF on `LockRow`). The model has no deadlock detector, which in
PostgreSQL would end one of the calls after a second: `CallsEnd` says that none needs it.
Row locks are taken one by one and held, but FOR SHARE is shared with everybody but a
removal, and a removal takes one row and waits for no other, so nobody waits in a ring; were
they FOR UPDATE, two entries naming the same people would (the mutant). Nothing is assumed
of clients: liveness is of calls that have begun. A *removal* has not begun until it has its row: FOR SHARE
locks can overlap without end, and the code does nothing about that.

`Recurring`: the worker's hourly tick comes whatever requests do (SF on `Tick`, since an
actor of the model may be busy with a request), time passes, and a step that fails is not
one that always fails (SF on the steps of a run: the comment at
`recurring/service.ts:1269-1272` expects that "a failure is often temporary"). A request that
has begun ends; none is obliged to come.

`Outbox`: a tab that is looked at drains when it is mounted, seen again or online again, so
a drain with something to send is started (WF on `Start`) and the steps between two
awaits follow (WF on what a verdict does); a request ends in an answer or without one
(WF on `Lose`); backoffs pass (WF on `BecomeDue`); and an entry that is sent again and
again is answered one day (SF on `Serve`, per entry). Nobody is obliged to sign in or to
open a page: `EntryGoesOut` is of an author who is there.

The other jobs: pg-boss schedules the backup sweep every ten minutes, the
notifications' every five and maintenance every day, and each sweep that has begun goes on
(`BackupFairness`, `DeliveryFairness`, `AttachmentFairness`); time passes; sends are bounded
by a timeout; storage, which refuses `MaxFaults` times, answers in the end. No worker of
a run is obliged to finish: what a lost one leaves is the sweep's. `HostFairness`: the
database answers in the end, a stop closes or is given up on, and a step under way goes
on; nothing closes a pool that was left open. In `jobs_live` each property is an implication
from its part's own fairness.

## 4. Proofs

Proved by TLAPS for every value of the constants, under the named assumptions of the
modules, which say that null is none of the values it stands beside, that sets of ids do
not overlap, and that contents, rules and files are well formed. Types are proved, and so
are in no run. Each component has an inductive invariant (`IndInv`, or one named for the
component where a module of proofs has two or three, and a theorem `...Inductive`), because
the properties by themselves are not: what a request has read, and what it may therefore
do next, has to be said of each of its phases.

`LedgerProofs`

* `TypeOK` and `LockExclusion` are strengthened by `CallShape`, what a call carries in each
  phase; `TargetHeld`, that a removal holds the row of somebody still in the group, without
  which `removed` could gain the owner; `NamedStay`, that whoever a call names past its lock
  is still in the group, which is what the lock is for; and `EditsFresh`, that what an edit
  read is what the entry says as long as it has the edit's version.
* `TypeCorrect`, `LocksExclude`; `NobodyAddedUnderRemoval` (`RemovalShutsOut`): an entry that
  gains a person is written under FOR SHARE on them, which a removal excludes;
  `EditsOverwriteWhatTheySaw`, from `EditsFresh`.
* `Refinement`: `Spec => Book!Spec`, if `Versioned \subseteq {TRUE}`. Each action is
  matched with the step of `GroupBook` it takes or with a stutter; `NamedStay` and
  `EditsFresh` give the guards of `Record` and `Amend`.
* `KeyNamesOne` (`OneEntryPerKey`). `ReplacedOnceOnly` (`ReplacedOnce`) assumes that nothing
  deleted is put back, without which it is false (§3).
* `RemovedOnlySquare` (`RemovedWhenSquare`) assumes the same. `SeenInv` says that a removal has
  read every live entry which names its person: `NamedSeen`, because it holds their row from
  before its first read, so that nobody adds them meanwhile. (An undo would, as it takes no
  lock on people.) `BalanceIsSum` and `SeenIsSum` take the folds of `Balance` and
  `SeenBalance` apart into one effect per entry; `SeenIsBalance` is that the two agree when
  what was read still stands.
* `RepaymentsClear` (`RepaymentClears`), by `TotalOfOne`: a repayment has one payer, one share
  and one amount. Both need `AmountAssumption`, the checks of `lib/db/schema/expenses.ts:187`
  and `279-283`.

`Sums`

* `SumFunctionOnSet` adds a function up over a finite set by a recursive function on subsets,
  whose CHOOSE of a member says nothing of any other. `TallyExists` shows that there is such
  a function and `TallyAny` that it does not matter which member goes first;
  `SumAny`, `SumMore`, `SumSame`, `SumWithin` and `SumBoth` are the rest. The induction
  theorems of the library cannot be used (their parameter is an operator); in their place
  `SmallestOf` takes, of the subsets that would refute a claim, one with no smaller one.
  `BySubsets` puts it as a rule, from which `SumBalanced`, `SumAtMost` and `SumAtLeast` compare
  sums member by member, and `SumOfOnes` counts.

`RecurringProofs`

* `ActShape` (a row once an actor has read one, and a start no later than the clock),
  `HasLatest` (a log of dates has a latest, without which `Max` says nothing) and
  `OneExpensePerDate`.
* `TypeCorrect`, `OneExpense`, and `NothingEarlyEver`, from the start time in `ActShape` and
  the arithmetic of `DueThrough`.
* One run or request at a time (`AloneSpec`: while something is under way, a step is its
  own). `AloneInv` says what is then no longer stale: `Carries`, that the row, the time and
  the last date which a run has read are as they are, and its count no less than the
  series; `LogOfRule`, that from its start on a rule names every date of the series, which
  is why an edit may start a rule after the last of them. `WalkOnGrid` and `WalkAhead` are
  the arithmetic: a walk steps on the dates of a rule, and past where it starts. From them
  `SeriesAlwaysKept` (`SeriesKept`), with deletions, failing runs and end dates allowed.
* `PastInv` follows what is over, that is, what was missed and passed over: between runs the
  marker is past it (`MarkerAhead`), in a run the date it goes on to is (`RunsAhead`), and
  there is no marker only where the count is reached (`Marked`). What was missed the marker
  is past even in a run (`MissedAhead`), so that a run may fail. `NothingBackfilled`
  (`NoBackfill`) assumes that nothing is deleted and no rule has an end date;
  `SkippedForGood` (`SkippedStaySkipped`) also that no run fails. Each is needed: a
  deletion clears the marker, the end of a series leaves none (§5), and a run that fails
  has passed a date over and leaves its marker on it.

`EntryProofs`

* `Outbox`. A record belongs to who pressed its button (`QueueSigned`), what a drain holds are copies
  of its actor's entries (`DrainSigned`), requests and rows say what was pressed under their
  key (`Named`, `FormNamed`), a key is spent once (`KeysOnce`), and a drain that was told
  "written" was told the truth (`ToldRight`), whoever wrote it.
* `TypeCorrect`; `OnceWritten`, from `KeysOnce` and `Named`; `NoneLost`, from `ToldRight`;
  `CarriedOnce`: a press whose form still waits is in no queue, no drain and no other
  form, so that queueing it overwrites nothing; `OthersLeftAlone`, from it and `DrainSigned`.
* `Money`. `RowsAlwaysFair` (`RowsFair`), for any number of people, amounts and rates. `Cut`
  and `LeftoverIn`: what is cut off everybody's part adds up to whole units, fewer than the
  people something was cut off. `FirstFew`: nobody shares a rank with anybody (`RanksApart`),
  so a rank is one to one on as many places as there are people, and as many get a unit more
  as there are units (`PartsAddUp`); they are people something was cut off (`BumpedHadRest`),
  which is why no part is out by a whole unit (`AllocationFair`). `HalfEvenNear` bounds what one
  rounding does, and `ResidueNear` what all of them leave to whoever takes the residue.
* `SuggestionsAlwaysClear` (`SuggestionsClear`), also for any debts. `simplifyDebts` is a
  recursive function on what is left, so it must first be shown to be one: each step leaves
  fewer people to settle with (`FewerRemain`), so there is a function that fits what remains
  of n people, for every n (`LoopExists`), and where the loop ends what its steps keep is so
  (`LoopEnds`). They keep `Kept`: what has been found leads from the balances to what is left
  (`AfterAppend`); that adds up to nothing and lies between nothing and what each was owed or
  owed at first; and each transfer has left one person fewer, the last one two. Where the loop
  stops nobody owes or nobody is owed, so everybody is square (`AllSquare`). `AfterIs` takes
  the fold of a list apart into one effect per transfer, which is why order does not matter,
  and why a list of which one was followed still squares what that leaves (`AfterOneOf`).
  `BalanceInv` says so of the list on somebody's screen, and that balances come to nothing:
  `BookedBalances` needs that both sides of an entry come to one total.

`MembershipProofs`

* Three parts: `People` (the two tables, with what a seat that is not there cannot have),
  `Links` (a live link leads to a seat that is there, and alone) and `CallsFit` (what each
  phase has read is still there if the group is).
* `RankInv`: the order of joining ranks whoever has a row, and `HeirsEldest`, that a closing
  which has read its heir has nobody before them but the one who closes. Who leaves meanwhile
  takes nothing from that, who joins comes last, and an heir who leaves is nobody's any
  more (`RankRead`, `RankGrows`, `RankShrinks`).
* `TypeCorrect`, `SeatsAlwaysMatch` (`SeatsMatch`), `LinkAlone` (`OneLiveLink`) and
  `DoorAlwaysKept` (`DoorKept`). `SeatsMatch` does not say that there is one owner
  (`docs/mobile-api.md:67`, "A group has one owner"): in a group that a guest began, whose
  creator's seat makes an owner of whoever claims it, four users and two closings that
  overlap reach two. With three users, which is what `access` explores, they do not.

`CredentialProofs`

* `Grants`. `WinnerShows`: a code that a request waits to spend is still there once somebody else has
  spent it, so the loser of the race finds the winner's grant. That needs
  `AskShape`: a request does not outlast the time for which its code is kept.
  `ReplacementKept`: a replacement is remembered until its token has expired or its grant is
  gone, so that a late replay is recognised. `Generations`: each was replaced by the
  next, once.
* `GrantTypeCorrect`, `EachSpentOnce`, `ReuseEnds`, `TakenBackEnds`, `EndedForGood`.
* `Accounts`. `UnspentTokens`: what can still be spent has not been; `SweptIsOver`: what was
  swept is ended or consumed.
* `AccountTypeCorrect`, `AcceptedOnce`, `SweptForGood`, `FirstProofAlone`.

`FilesProofs`

* `Imports`. `CommitOK`: a request marks as imported only what it has written, and as a duplicate only
  what it has read a fingerprint of; `CommitSeen`: what it has read is still so, and
  what it has written nobody else has.
* `ImportTypeCorrect`; `OnceAndReported` (`ImportSafety`).
* `Attachments`. `CountedStands`: the count an upload has taken under the group's lock is no
  less than the files there are, which is why the ceiling holds; `UploadedOnce`: nobody puts
  back what the sweeper has removed; `KeysRead`: the keys read before the deletion of a group
  name every row it takes; `NamedOrRemoved`: an object that no row names has an upload or
  a removal under way, or is among those `abandoned` and `lost`. So the theorem names what
  it excepts, and the exception for `lost` is needed: `ResidueSwept`, without it, fails (§5).
* `AttachmentTypeCorrect`; `AttachmentsSafe` (`AttachmentSafety`).

`WorkerProofs`

* `Deliveries`. `Claims`: whoever has claimed a notification is the only one; `PushOK`: a job sends only
  what it has claimed; `SentIsSettled`: what has been sent is claimed, and nobody owes it any
  more. `Tallied`: what a row counts is no more than the jobs in a row that missed its device,
  which the reset and a new subscription keep true.
* `DeliveryTypeCorrect`; `SentOnce` (`PushedOnce`); `ForgottenForCause` (`DroppedForCause`).
* `BackupRuns`. `OneYoung`: of the runs that are open, one is not yet stale, whatever opens them;
  `HeldOnce`: a run is waiting to be published, queued, or in one job's hands;
  `NamesOrdered`: what a worker is about to prune is older than the newest copy.
* `BackupTypeCorrect`; `BackupIsSafe` (`BackupSafety`).
* `WorkerHost`. `InUse`: what is in use has been started; `Supervised`: what the supervisor
  waits for, by its phase; `Unsubscribed`: until it is done, no instance that runs or starts
  is subscribed; `BeforeSignal`: until a signal comes, each copy has one instance at a time,
  and the requests' copy also after it.
* `HostTypeCorrect`; `HostIsSafe` (`HostSafety`).

**Only model-checked.** Liveness, which is out of the prover's reach: `CallsEnd`,
`EntryGoesOut`, `DatesGetMade`, `RowsGetSettled` and `WorkerGetsUp`. Of safety, `NextAsNamed` and
`EditKeepsDates` of `Calendar`, whose walks are over months of different lengths. Every
other property of a passing run is a theorem, with the conditions given above.

## 5. Where the code and what it says differ

Each of the first four is a violation run; TLC's counterexample is the sequence of calls.

1. `ledger_torn`: a removal reads the balance inside its own transaction, where
   `readBalanceRows`' REPEATABLE READ is ignored. An edit that takes the person off an
   expense takes no lock on them; committing between the payers and the shares reads
   it shows a balance of zero that no committed state had. Docs 93-97: "Removal
   waits for zero".
2. `recurring_edit_race`: a run that started before an edit moves the marker
   after it, to a date of the old rule, and the edited rule's dates before that are
   never made. `recurring/service.ts:674` says the edit's lock is "held against a run of
   the worker, which moves the marker this sets"; the run takes no lock.
3. `outbox_author`: a drain compares an entry's owner with whoever its page was rendered
   for, but the request carries the browser's cookie. When a session lapses and
   somebody else signs in from another tab, the first tab's next drain writes its
   author's entries as the other's. `docs/offline.md:154`: "only that person's are sent".
4. `backup_pause`: a worker copies a destination's row when it takes its job and writes the
   copy's status back hours later; a pause made meanwhile is overwritten, and the
   schedule goes on. `docs/cloud-backup.md:44`: "a pause switch stops the schedule".

Stated in a module, failing when TLC is asked, and in no run:

* `RepaymentOpensNoDebt` (`Ledger`): converting an expense into a repayment writes the
  repayment first (`expenses/convert.ts:85`), so the debt it is measured against includes
  the expense it replaces. Somebody removed who owes one for that expense alone is left in
  credit by one. `settlements/service.ts:128-130` and docs 104-105: "It can close a debt;
  it cannot open one." (Two repayments recorded at once can overshoot too; the comment at
  line 135 accepts that, and `RepaymentClears` excepts it.)
* `CadenceKept` (`Calendar`): an edit of a paused or overdue series, of its amount say,
  starts from today, so a rule of every second month takes the other months, and a yearly
  one that names no month takes the month of the edit. `recurring/service.ts:633`: "a
  series whose schedule did not change keeps its next date"; `schedule.ts:499-500` says
  that a paused marker in the past is taken care of "the same way".
* `RemovedAreOut` (`Membership`): a guest's cookie is resolved before a removal commits, and
  the UPDATE of the claim asks only that the seat has no account (`guests/service.ts:82-88`):
  somebody removed becomes a member. `groups/service.ts:861`: "membership gone".
* `OneLiveCode` (`Accounts`): two requests for a code may retire what was live and then both
  insert. `verification-codes.ts:28-29`: asking twice "cannot leave two working codes behind".
* `PrunesWhileThere` (`BackupRuns`): a run under way when its destination is deleted goes on
  to prune. Comment at `backup/service.ts:621-622`.
* `LinkedKept` (`Attachments`): an upload a day old, linked between the sweeper's reading
  and its removal, loses its object and then its row.
* `ResidueSwept` (`Attachments`): an upload whose process is lost after `storage.put` (151) and
  before its row commits leaves an object that no row names, and the sweeper goes by rows; a
  group's deletion that is lost after its commit leaves those it had yet to remove.
  `attachments/service.ts:347-350`: the sweeper takes "the residue of ... a transaction that
  rolled back after the blob was written".
* `ImportedStays` (`Imports`): the status is read before the transaction, and the second of
  two requests marks what the first has written as duplicates. `imports/service.ts:615`:
  "Re-running a finished import is a no-op". No money is written twice (`ImportSafety`).

Met while modelling:

* **Ledger.** An edit without a version reads who is on the entry, then waits for locks,
  and puts back somebody who was taken off and removed meanwhile. Docs 98-100: "Adding a
  removed person to an entry they were not on is refused." The UPDATE of an edit
  (`expenses/service.ts:672`) does not look at `deleted_at`, and an undo (919) does not look
  at whether the entry was replaced. A key is written with its entry (374), so a crash
  leaves neither.
* **Recurring.** The last date of a series, skipped because somebody had left, leaves
  no marker and so no floor, and is tried again by every run, although
  `recurring/service.ts:1347-1348` says it "stays skipped". The same null marker back-fills
  the pause of a series whose end passed while it was paused. Deleting a template clears
  the floor its resumption set, and restoring it leaves it cleared (988): the pause is
  back-filled; docs 78-79. The count a run starts from (812) goes stale beside another
  run on an edited rule. An edit that moves the day within a period already begun
  can leave that period without its entry.
* **Outbox.** An entry that backs off is passed over by the next trigger (`flush.ts:131`), so
  newer entries overtake it; `docs/offline.md:158` has them go "in the order they were
  typed". The archived check comes before the key: the replay of an entry that was
  written just before the group was archived is held back, where `docs/offline.md` has it
  answered 201. `recordAttempt` (`outbox.ts:173`) puts back what a sign-out or a discard has
  removed meanwhile.
* **Money.** When a split with a credit is converted, two people with equal parts may get
  different rows: the residue goes to the first of the largest. With five people or
  more, the residue can fall to somebody whose part is zero, listed first.
* **Membership.** Two closings that race, or a closing beside a claim, can leave a group
  that nobody owns or reaches (`auth/service.ts:1645-1677`; the comment at 1605-1615 speaks of
  one at a time). A claim can leave a live link on the seat it takes
  (`join/service.ts:500-549`, comment 354-362). A link written while its person is removed
  works once they are restored.
* **Grants.** `capUnusedClients` (`clients.ts:96-127`) can drop a client that has just been
  allowed, though the comment at 94 says never; `MAX_LIVE_GRANTS` counts grants and not
  codes that are yet to become one.
* **Accounts.** A session or a key made by a request under way outlives a reset. The
  UPDATE of `changePassword` does not ask for the password it has verified. `confirmEmailChange`
  (1508-1514) verifies an address without `proveAddress`, so passkeys added
  before stay (`address-proof.ts:26-28`), and leaves the links mailed to the old address
  live. `deletePasskey` does not refuse the last way in, as `unlinkAppleIdentity` does.
* **BackupRuns.** A job whose run has been reaped still runs, though its row is closed. A
  manual run opened during the setup of a destination writes "setup" back over
  `finishSetup`. `updateDestination` reads and then writes, which the model takes as one
  step.
* **Deliveries.** The comment on pruning says that what has been read goes; it deletes read
  or not. "Ten consecutive failures" (`docs/notifications.md:209-210`) are consecutive in the
  order of the jobs' statements: a device that has answered a job which has yet to record
  it can be dropped by another, and a job lost before it records counts for nothing.
* **WorkerHost.** Requests publish through a second pg-boss, which nothing subscribes and the
  shutdown does not stop (`worker-status.ts:19-22`, `queue.ts:84-85`); `docs/environment.md:233`
  counts one small pool beside the app's. After a signal a job that is still draining
  and publishes starts an instance that nothing stops. A stop that is given up on leaves its
  pool, and the supervisor's next attempt opens another.
* **Imports.** Two commits that race may each create the same new person.

## 6. Plan

What is done is in §2. What is left, by what most depends on it:

1. The rest of modelled components: seats that become accounts in `Outbox`; an entry's
   conversion and attachments in `Ledger`; creating and mapping people in `Imports`;
   registering and capping clients in `Grants`; receipts and restoring in `BackupRuns`;
   who is told of what in `Deliveries`; `describeRounding` and the spread by category in `Money`.
2. Composition: `Outbox` with `Ledger`'s client keys; `Membership`'s removal with the
   balance check of `Ledger`; `Accounts`' closing with `Membership`'s.
3. An abstract `Series` (dates made, dates given up) that `Recurring` implements when runs
   come one at a time.
4. Theorems about `Calendar`; one owner in `Membership` under a condition on how
   many closings overlap.
5. The rate limiter's windows, the challenges of the proof of work, and the advisory lock of
   the migrations.

## 7. Not modelled

`PROJECT.json` gives each component's reason. In short: parsing, recognition,
formatting and rendering have no state that actors share, and they are most of the code: the
screens and their translations, the categorization's seeds, OCR, imports' parsers and
the statistics. pg-boss, PostgreSQL, luxon and the
rate provider are modelled by what the code relies on (row locks, unique indexes, READ
COMMITTED, a job that comes hourly, the length of a month); telemetry loses counts by design.

## 8. Running it

`tlc -config <run>.cfg <module>` for a run, its module being the one `PROJECT.json`
names; `tlapm <module>.tla` for the proofs of `LedgerProofs`, `RecurringProofs`,
`EntryProofs`, `MembershipProofs`, `CredentialProofs`, `FilesProofs`, `WorkerProofs` and
`Sums`.
