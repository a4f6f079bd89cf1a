# Customer Vault: TLA+ specification

Customer Vault is a web application in which a company keeps its customers, the
systems installed there, who looks after them, and the reports of the periodic
inspections. A React client (`frontend/`) talks to a NestJS server (`backend/`)
that keeps its state in MariaDB through Prisma and in directories on disk. This
directory specifies both: the server's handlers await by await, and the pages,
popups and streams of the client callback by callback. It holds TLA+ modules
translated from the source, TLC configurations that check them on small instances,
and proofs that hold for instances of any size. The repository has no unit tests,
so the specification is also the only executable statement of how handlers and
pages interleave.

Line numbers refer to the repository as it is checked in; `PROJECT.json` maps every
definition to the lines it stands for.

## Execution model

The server is one Node process. A handler runs alone until it awaits something: a
Prisma query, a bcrypt hash, a file operation, a child process, an SFTP transfer. So
**one action is one awaited operation together with the synchronous code up to the
next await**, and actions of different handlers interleave freely. Only one place
opens a transaction of its own (`customers.service.ts:685`, the replacement of source
management); it is one action. In the browser an action is one callback: an event
handler up to its first await, the answer of a request, an effect. A request and
its answer are separate actions, so answers come late, in any order, after the page
was left, or never.

- In the server's modules `pc[r]` says which await handler `r` is at, `job[r]` what was
  asked, `local[r]` what the handler remembers across its awaits. A value in `local`
  may be stale when it is used; most hazards of this code are of that kind.
- In the client's modules a request under way is a record with a `step`, in a set
  (`loads`, `saves`, `calls`, `uploads`, `fetches`, `marks`, `asks`). A page carries a `mount`
  number: what belongs to an earlier mount is dropped where the code drops it, and acts
  where it acts.
- `Abort` is a failing query: `HttpExceptionFilter` turns the exception into an
  error response, and nothing that was written is undone. `Failed` and `Lost` actions are
  requests or answers that do not arrive.
- `Restart` is the death and restart of the process (`docker-compose.yml`,
  `restart: unless-stopped`): handlers in flight vanish, tables and files stay.
- variables listed as *history* are read by no action, only by properties.
- a `scenario` is chosen once per behaviour and says how often each kind of step may
  happen in it, so that one run explores several mixtures without their product.
- operators named `Slip_...` are plausible programming mistakes, used by no
  action. Put in the place of the operator they are named after they must
  violate a property; `PROJECT.json` ("mutants") says which. This shows that each
  property can fail.

## Inventory

| part | state | operations | what is hard | correct when |
|---|---|---|---|---|
| **Auth** (`auth/`) | lock columns of `users`, `user_sessions`, `login_attempts`, open event streams (in memory) | login (lock check, unlock, failure count, lock, duplicate check, session replacement), logout, logout beacon, heartbeat, event stream, session cron | up to twelve awaits per login, all racing with other logins, cron, settings changes; lock and counter written apart | a counter at the limit locks; a lock ends; replaced sessions stay gone; sessions end for a reason only |
| **Browser client** (`frontend/src/api`, `hooks`, `store`) | tokens and user in session storage, event stream and its timer, query cache | login with the duplicate dialog, interceptor with refresh and repetition, logout, forced logout, beacons, reload | parallel refreshes, late answers and events after a change of account | a logged-out tab stays logged out, a tab acts for the account it shows |
| **Users** (`users/`, `changePassword`) | `users`, `user_customers` | create with quota, update with reassignment, toggle, reset, remove, change password, default administrator at start | checks on rows read before the write; a role is any string, read in three ways | nobody ends the own access; administrators are ended by super admins only; the quota; flag and password agree, each as far as a role is spelled exactly |
| **Documents** (`documents/`) | upload directory, temporary files, `documents`, `customers.lastInspectionDate` | upload, remove, download, view | two stores without a transaction; free names chosen and taken in different steps; a stream without error listener; the customer form writes the date too | rows and files agree; one is served what one asked for |
| **Customers and targets** (`customers/`, `inspection-targets/`, their three pages) | `customers`, `inspection_targets`, the form of every tab | load, edit and save the whole form, add and remove targets, remove the customer | a form is older than the row it overwrites; lists are counted that are no longer true | what was typed is stored and nothing else changes; targets keep their order; nothing outlives its customer |
| **Templates** (`inspection-targets/`, `CustomerDocumentsPage`) | template files, `template_path` | check, question, upload, download | the old file, the new one and the row are written apart, and each step can be the last; file names are made of names that change | a target's path leads to its own last template; none is replaced without a question |
| **Source management** (`customers/`, two pages, export) | `source_managements`, `server_infos`, `server_access_infos` | load, save (create or replace), export | a failed load looks like an empty form; nested rows are replaced | what could not be read is not replaced; an error is not taken for an absence |
| **Encryption** (`common/crypto/`, `prisma/scripts/`) | the encrypted columns, `ENCRYPTION_KEY` | encrypt, decrypt, migration | the migration is broken off, repeated, and runs beside saves | what was typed is read back; no column stays in the clear |
| **Settings row** (`settings/`, `SettingsPage`) | one row of `system_settings`, the form | load, partial update, password of the backup server | the page sends what it holds, whether or not it has loaded | settings in force are the saved ones |
| **Backup** (`backup/`) | backup directories, `backup_logs`, the registered cron job, the SFTP server | scheduled and manual runs, retention, transfer, log | stages fail one by one; runs overlap; KST/UTC conversion; process death | success means kept and, with an address, transferred; rows end; jobs fire when asked |
| **Inspection status** (`inspection-status/`, copies in `customers/`, `dashboard/`, `documents/`) | none (computed from `documents` and targets) | pattern recognition, missing months, "needed this month" | month arithmetic around the year's end, four copies of one decision | copies agree, no month is missed or reported twice |
| **Notices and popups** (`notices/`, `NoticesPage`, `MainLayout`, `NoticePopup`) | `notices`, `user_notice_views`, the popup of every tab | CRUD, unread list, mark as read | fetches begun under an open and a closed password dialog, two tabs, notices that go meanwhile | only what was ticked is hidden, and stays hidden; nothing waits unseen |
| **Support logs and bell** (`support-logs/`, `CustomerSupportLogsPage`, `NotificationBell`) | `support_logs`, list and filter of a page, the bell's counts | CRUD, filter, pending counts in four queries, invalidation | overlapping writes and reloads, a page left before its answer | what was acknowledged is shown; the bell is right in the end |
| **Meeting minutes** (`meeting-minutes/`, its page) | `meeting_minutes`, the list | CRUD | as above | as above |
| **Logs** (`logs/`, three pages) | `service_logs` (append only), `login_attempts`, form, page and answer on display | create, merged pages, export | pages cut from tables read one after the other while they grow | no entry lost at a page's edge; what is shown is what was asked |
| **Other pages**, **HTTP shell**, **packaging** | - | rendering, single requests, bootstrap, shell scripts | - | not modelled, see below |

Parts interact through the database, and otherwise in these ways: the logout event
(Auth to the browser), the settings that Auth and Backup copy at the start of an
operation, the cron job that Settings should re-register in Backup, the cascades of
`schema.prisma`, file names made of customer and product names (Customers to
Templates), and the invalidation of the bell's query by the page that writes support
logs.

## Modules

| module | models | composed in / instance |
|---|---|---|
| `SessionRegistry` | what the session table promises, without saying how | refined by `Auth`, used by `AuthClient` |
| `Auth` | `auth.service.ts`, `auth.controller.ts`, `session-event.service.ts`, `jwt.strategy.ts` | `MCAuth` |
| `AuthClient` | `axios.ts`, `authStore.ts`, the session hooks, `useAuth.ts`, `LoginPage.tsx` | `MCAuthClient` |
| `AuthClientProofs` | theorems about `AuthClient` | - |
| `UserAdmin` | `users.service.ts`, `users.controller.ts`, `changePassword`, `ensureDefaultAdmin` | `MCUserAdmin` |
| `UserAdminProofs` | theorems about `UserAdmin` | - |
| `Documents` | `documents.service.ts`, `documents.controller.ts` | `MCDocuments` |
| `Backup` | `backup.service.ts`, the backup columns of `settings.service.ts` and its controller | `MCBackup` |
| `BackupProofs` | theorems about `Backup` | - |
| `Inspection` | `inspection-status.service.ts`, the inspection parts of `customers.service.ts` and `dashboard.service.ts`, the edit page's cycle and month | `MCInspection` |
| `ReportsProofs` | theorems about `Documents` and `Inspection` | - |
| `CustomerTables` | the rows shared by the next two | `CustomerEdit`, `Templates` |
| `CustomerEdit` | `CustomersPage`, `CustomerDetailPage`, `CustomerEditPage` over their services | `Customers` |
| `Templates` | the templates of `CustomerDocumentsPage` over `inspection-targets.service.ts` | `Customers` |
| `Customers` | the two together | `MCCustomers` |
| `CustomersProofs` | theorems about `Customers` | - |
| `Secrets` | `crypto.service.ts` and the copies of its functions in the script | `Sources`, `Settings` |
| `Sources` | both source management pages, their service, the export of `CustomersPage` | `Encryption` |
| `Settings` | `SettingsPage`, `useSettings`, `settings.service.ts` | `Encryption` |
| `Encryption` | `encrypt-server-access-info.ts` beside both | `MCEncryption` |
| `EncryptionProofs` | theorems about `Encryption` | - |
| `Records` | `NoticesPage`, `CustomerSupportLogsPage`, `CustomerMeetingMinutesPage` over their services | `Popups`, `Bell` |
| `Popups` | `MainLayout.tsx`, `NoticePopup.tsx`, the unread list and the marks | `Office` |
| `Bell` | `NotificationBell.tsx` and the pending counts | `Office` |
| `Office` | the three together, with fairness | `MCOffice` |
| `OfficeProofs` | theorems about `Office` and its three parts | - |
| `Logs` | `logs.service.ts`, `SystemLogsPage`, `UploadLogsPage`, `LoginLogsPage` | `MCLogs` |
| `AccessProofs` | theorems about `Auth` and `Logs` | - |

### Auth

`users[u]` holds `isActive`, `isLocked`, `lockedUntil` (0 for null) and
`failedLoginAttempts`; `userSessions` is the table, `settings` the row. A login walks
through `LoginLookup` (34), `IsAccountLocked` (327), `Unlock` (338), then either
`FailureSettings`, `CountFailure`, `RecordFailure`, `LockAccount` (56-62, 366-413) or
`SuccessSettings`, `DuplicateCheck`, `ResetFailures`, `RecordSuccess`, `ListSessions`,
`ClearSessions`, `CreateSession` (64-79, 416-497). The counter is incremented by the
database (`CountFailure` is atomic), and the limit is compared with the value the
increment returned. A session's identifier is the request that created it. Time is
counted in ticks; the lock time and `SESSION_EXPIRY_MS` are numbers of ticks.
Tokens are never checked against `user_sessions`
(`jwt.strategy.ts`), so `TokenArrives` accepts every token that was granted while
its user is active, also after its session is gone. Both logout routes call `logout`
without a session id, so `Logout` deletes every session of the user.
`RemoveUser` is the administrator who removes the account: the cascade of `schema.prisma`
takes its sessions and attempts, no event is sent, and a login of it that is still at work fails at
its next query about the row (`UserGone`). Token lifetimes and the throttler are left out: they only
remove behaviours.

`SessionRegistry` is the abstract specification: a session is opened once, closed at
most once, and a tab is told to log out only when its session is closed. `Auth`
implements it with `live` the rows, `ended` the granted sessions without a row, and
`told` the tabs that got the event.

### AuthClient

One tab. `user`, `access` and `refresh` are the session storage; a token is the session it
carries, and a session is the login that made it. `login` and `call` are the requests:
`Unauthorized`, `Refreshed`, `RefreshRefused` and `UnauthorizedAgain` are the interceptor
(`axios.ts:29`), with `retried` its `_retry`. `LeaveStream` is the clean-up of
`useSessionEvents`: it cancels what `reader` and `timerRef` name by then, and a connection still
pending is not among that. `Load` is a page load, by the user or after `location.href`
was assigned, which keeps the session storage and sends the beacons; `CloseTab` does not
keep it. The server is `SessionRegistry`: a request opens and closes sessions by its
actions only, and whether a token is still taken is the server's choice at every
request, so that expiry, inactive accounts and restarts are covered. `Elsewhere` is
whatever other browsers and the cron do. `useSessionValidator`, `setUser` and
`updateAccessToken` are used by no component and have no action.

### Customers

`CustomerTables` keeps the columns that are treated differently: the name (unique, part of
file names), a date of the contract, the last inspection date (written by the form and
by uploads), an engineer (null when left out) and the notes for all columns that are
written as they are. `CustomerEdit` has tabs that show the list, the detail page or the
form. `FormOf` is the conversion on the way in: a null becomes the empty string. `handleSave` sends the whole form; `Found`,
`NameChecked` and `Written` are the queries of `CustomersService.update`, and `Stored` is the conversion on the
way out: an empty date is sent as undefined, so that the column stays as it is, an engineer that is left
out becomes null, and an empty text is stored as ''. A target is
numbered by the length of the list on the screen (`handleAddInspectionTarget`).
`SaveAnswered` leads to the detail page wherever the user has gone meanwhile.

`Templates` makes file names of the customer's name, the product and the extension.
An upload asks whether there is a template (`checkExistingTemplate`; an error counts as no),
lets the user confirm, reads the row, unlinks and writes between two awaits
(`StoredFile`), and writes the path (`RowUpdated`). The unlink and the write are synchronous, so no other
request sees what lies between, but the disk may be full or the process end there (`StoreFails`: the old
file is gone, the row still names it) or before the path is written (`UpdateFails`: the new file is there,
or a part of it, and the row is the old one). The history `broken` notes targets whose last upload ended so. `Customers` composes the two: a save renames
the customer, and a removal deletes targets, while uploads are on their way. Two histories, the
names this customer has had and the products of its targets in the order of their ids, say
whether a file name can have belonged to two targets (`NothingShared`).

### Encryption

A `Secret` is a text and the keys it was encrypted with, innermost first. `isEncrypted` goes
by the form of the string alone, so texts in `LooksEncrypted` are taken for cipher text.
`FoundSource` asks for the customer and the row. `SourceLogged` is what follows an update: `service_logs` gets the
request as it came and the rows as they were found, so that `journal`, the passwords in that table, holds
in the clear what `access` holds encrypted; then the answer is decrypted.
`Sources` has the detail and the edit page: `getSourceManagement` fails on a password it cannot
decrypt, a failed load leaves the form the page began with, and a form without an id is
saved as a creation. `SourceUpdated` is the one transaction of the program: rows are deleted
and created anew, with new ids. `SourceSheet` and `SupportSheet` are the export of a customer.
`Settings` is the settings page: columns the form was never given are absent from what it
sends. `Encryption` adds the script: it reads all access rows at once and updates each by
its id, so that a row a save has replaced ends it; it then reads and writes the
settings row. `Crash` breaks it off and `Start` runs it again, perhaps with another key;
`Rekey` restarts the server with one.

### Office

`Records` has three pages which all await a write, close their dialog and load the list
anew. Of a row it keeps one mark: the status of a support log, the version of the others.
Buttons stay enabled, so a write can be sent twice; `CallAnswered` closes the dialog that is
open by then if it is of the same kind; `CallBreaks` covers a request that is lost, a
service log entry that fails after the write, and a lost answer, which the page cannot
tell apart. Updates and removals look the row up first (`Found`) and may be overtaken. One customer is modelled; that
the bell leads from one customer's page of support logs to another's without a new mount
(`NotificationBell.tsx:44`), where a removal answered later loads the former customer's list, is left out.

`Popups` has tabs of one reader. `Ask` is a fetch of unread notices; it remembers whether the
password dialog was open when it began, as the closure of the effect does. `Enter` at a
first login asks twice: the effects run once before the first of them has opened the
dialog. `Arrived` opens the popup on either of the two effects' conditions. A ticked popup stays
open until its mark is answered; `ReadViews` and `getUnreadNotices` are the two queries of the unread
list, and `MarkStored` is the insert of an upsert that MySQL does as find and insert.

`Bell` counts in one query for the user's customers and one per status. `Invalidated` is
react-query's rule: a fetch under way is begun anew, except the very first, which is waited
for. `Told` is called when the reload after a write has ended, also after the page was left.

### Logs

Entries have a moment and a table; two entries of different tables may share one. That two entries of one
table have the same millisecond is left out: `logs.service.ts:188` and 199 order by the moment alone, so the
database may return such a pair in either order, differently for every page.
A request reads service entries (`ReadServices`), then attempts (`ReadAttempts`), and `Slice` cuts the
page. `fetchLogs` is the effect on filters, page and size; `Search` does nothing when nothing
changed; the last answer to come is displayed. `ExportLogged` is the entry the export itself
writes. `AccountRemoved` deletes attempts by the cascade and leaves service entries without a name.
`InDays` reproduces that the last day ends at its midnight. `walk` is a history variable: `Walked` begins
it with every answer for page 1 and continues it with the next page, if that was asked for after the
last one had been seen. A file is page 1 of 999999 entries (`FileLimit`).

### UserAdmin

A role is a `Word`: the DTO takes any string (`create-user.dto.ts:18`), and three readers disagree about
it. The services compare it exactly, `RolesGuard` after trimming it and without regard to case
(`Normalized`), a count goes by the collation of the column (`Matched`). What the last two make of a
word is a constant, so the theorems hold for every collation. A row has a role, `isActive`, a password (the configured default or the owner's own)
and `isFirstLogin`. Identifiers are issued once. `Arrive` contains everything that
is decided before the first query: the guards of the route, the caller's own row as
`JwtStrategy` read it, and the synchronous checks. The target's row is read
(`ReadTarget`), checked by `Allowed`, and written by a later action; the caller's role
is the one it had on arrival. `create` counts the role (`CountRole`) and inserts later
(`Insert`). `update` deletes and recreates the assignments in two queries. `Restart`
runs `ensureDefaultAdmin`, which creates a super admin in an empty table. The initial
states are all installations within the quota that have an active super admin.

### Documents

Reports of one customer: `files` maps each path to the upload its bytes come from,
`documents` are the rows. A path is a `Key` (product, year and month) with a number;
number 0 is `name.pdf`, the following ones `name_1.pdf` and so on. An upload looks for a free name one
`access` at a time (`Probe`), moves its temporary file there (`Rename`, which replaces
what is there by then), inserts the row, and perhaps writes the last inspection date.
`Log` stands for what follows: the status, which only reads, and
the service log, whose failure answers a stored report with an error. Inside `create` every failure runs the
catch block (`Catch`), which removes the temporary file only. `OpenForm` and `SaveForm` are the customer form as
far as this module is concerned: it carries the last inspection date in a disabled field and writes it back
with the rest, also when an upload has moved it on meanwhile. Targets are external: `Lookup` may find that the
target is gone. A removal unlinks and then deletes the row. `SendFails` is a
file that vanished between the check and the open: it ends a download, and of a view
it ends the process, because the stream of `view` has no error listener.

### Backup

A run reads the settings, creates its log row, takes its timestamp (the file names, to
the second), and then goes through the stages `db`, `docs`, `sendDb`, `sendDocs`,
`retain`, `logSuccess` that its settings call for. `files[t]` is a directory in the order
of the modification times, which is what `cleanupOldBackups` sorts by. `Grow` is a
write to an unfinished file: it becomes the newest. A file has the run that last
opened it and whether it is complete; `BackupDatabase` may leave an incomplete one,
since the exit status of `mysqldump` is not looked at. `CronExpression` is
`buildCronExpression`; `Installed` is what `onModuleInit` registers. `UpdateSettings` is the
settings page: it sends its whole form, an empty password is stored as null, and the
controller's reference to the backup service is undefined, so the job stays as it is.
Without an `sftpHost`, which the DTO lets be empty, the transfer is skipped and the run
succeeds (`Wanted`). The password stands for all SFTP credentials (installations with a key file are left
out), and directories that cannot be created are failing stages.

### Inspection

One customer's contract, cycle and month, its targets, and its reports as pairs of a
target and the month of `inspectionDate`. Nothing about what is due is stored; the
services compute it, and their functions are operators here: `Expected`
(`analyzeInspectionPattern`: configured month, history, a single report, default),
`Missing` (the list of a year), `Needed`, `Status` and `CompletedThisMonth`
(`CustomersService`) and `Incomplete` (dashboard). The tables of
`isInspectionNeededThisMonth` are the residues of the month modulo 3 and 6; that these
are the patterns of the other service is what is proved. `DashboardService` and
`DocumentsService` hold copies of that function with the same text, modelled once.
Actions are the edit page's changes (`ChooseMonth` offers what the page offers,
`ChangeCycle` keeps the month), adding and removing a target (its reports then count
for none), uploading and removing a report, and the calendar. Months are counted
from year 0, so the year's end and lists of former years are ordinary states. The
server's time zone is UTC (no image sets another) and dates have no time, so days
make no difference. Handlers are atomic here: `Documents` has the steps of an upload.

## Runs

All passing runs exhaust their state space. Times are for two workers on a busy machine; a
scenario counts how often each kind of step may happen in a behaviour.

| run | question | instance | distinct states, time |
|---|---|---|---|
| `auth_sessions` | does a counter at its limit lock, does a lock end, do replaced sessions stay gone, do sessions end only for a reason, does `Auth` implement `SessionRegistry`? | 2 accounts that may be removed, 3 requests of every kind (one each if both accounts are at work), limits 1 and 2 with lock times 1 and 2 changed meanwhile, duplicates prevented | 0.99 M, 196 s |
| `auth_live` | do expired sessions end, does a counter at the limit get its lock? | 1 account that may be removed, 2 requests, duplicate prevention switched on and off | 81 k, 31 s |
| `client` | does a logged-out tab stay logged out, does it act for the account it shows, does the logout event hit the session it is for? | 2 accounts, 2 logins, 3 scenarios of calls, refreshes, logouts, reloads, streams | 0.94 M, 119 s |
| `users` | self protection, hierarchy, last super admin, quota, first login | every installation of up to 3 accounts, 2 requests of every kind, quota 2 super admins and 1 admin, 2 other words for a role: one in another case, one with a blank | 1.07 M, 184 s |
| `documents` | do rows and files agree, is the right report served, are temporary files removed, is the last date the newest? | 3 requests, 2 names, 2 dates, customer forms | 2.39 M, 147 s |
| `customers` | is only what was typed changed, do orders and templates stay with their targets, is a template replaced only after the question? | 2 tabs, 2 names, forms and uploads in separate and mixed scenarios, uploads that end half way, the customer removed and its name used again | 2.26 M, 239 s |
| `sources` | what do failed loads, other keys, a broken-off script and concurrent saves do to source management and passwords? | 2 tabs, 2 passwords (one looks encrypted), 2 keys, 6 scenarios | 0.87 M, 87 s |
| `office` | what do several tabs do to popups, what does a page show after its writes, does the bell catch up? | 2 pages, 2 tabs, up to 2 writes and 2 failures, popups of 2 notices | 1.08 M, 146 s |
| `logs` | do pages and exports tell the truth while the tables grow, does a walk through the pages lose entries? | up to 3 entries in two tables, pages of 1 and 2, 3 filters, 2 requests at once | 0.96 M, 75 s |
| `backup` | is success kept and transferred, do rows end, do jobs fire on time? | 2 runs, 4 settings forms (one with a remote destination and no address), 2 seconds | 2.25 M, 148 s |
| `inspection` | do the four computations agree, is every due month judged when it ends, do reports clear only their month? | 2 targets, 3 reports in 6 months, 9 months from October 2024 | 0.58 M, 107 s |
| `backup_password` | ends in the violation told under Findings | - | - |

**Why the bounds are enough.** Each hazard of the list in `PROJECT.json` needs two
actors, or one and a failure; the third request or write lets something happen
before (a session to replace, a report to remove, a lock to expire) or after. In `auth_sessions` either duplicates
are prevented and requests are of every kind, or the limits change and there are only
logins that are not forced, the ones that count. A second account takes part with one login beside
one request of the first, which is enough for a session of one to end by the other. Limits 1
and 2 distinguish reaching from passing the limit, and a row that is changed between
counting and locking. With `MaxTime = 2` and an expiry of 1 a session can be fresh,
exactly at its expiry, and past it; a lock can be set, hold and pass. Two names let a
removal free a name while another is taken, and let a customer be renamed onto the file
of another; two dates can arrive in either order, and the forms of `documents` are loaded with
the first of them, since the second puts nothing older back. Of three accounts two can be
administrators and peers, and two identifiers beyond a lone super admin let a quota be
exceeded. Of the two other words for a role one is an administrator's to the guard and to the database,
the other to the guard alone. `backup` uses retentions 1 and 2 with two files per directory, so that
retention deletes, and `FiresAtKoreanTime` ranges over every type, hour and day.
`inspection` starts in October so that the year turns after three months, and its report
months include several of one quarterly pattern, one outside it, and both years; the
months chosen for yearly inspections include 8 and 12, which no other cycle offers.
`client` has a second account, so that answers of the first can arrive under it, and a
second login, so that streams and timers of two sessions overlap. `sources` has one password
that looks encrypted and one that does not, runs the script up to three times with a crash
in between, and has a second key for the server or for the script. In `office` two tabs
mark and see one notice, a page is left before its answer, and dialogs open only while
writes are left, since an open dialog that cannot be sent changes nothing. In `logs` pages of one
entry put an edge between any two entries, also of one moment, and two requests at once let a page
be asked for before the page in front of it came.
Identifiers, requests, names, tabs and keys are symmetric where a configuration says so: no
module compares them except for equality, and symmetry is not used with liveness.
Bounds on the clock are guards of `Tick` only; the scenarios' bounds are guards of
the steps they count. The deadlock check is off where requests are handled once and the
system may come to rest (all but `Auth`).

**Fairness.** In `auth_live`, `WF_vars(LoginStep(r) \/ TokenStep(r))`: a handler whose
query was answered continues, which Node's event loop guarantees; the choice between
the query's answer and its failure stays open. `WF_vars(CleanupExpiredSessions)`: the
`@Cron` job fires every five minutes. In `office`, weak fairness of the bell's own steps alone: its
interval begins a fetch every minute (`refetchInterval`), and a fetch's queries and its answer
arrive. Nothing obliges a client to send anything, a user to act, the clock to
advance, or any request of a page to succeed.

### What the properties say

Auth
- `LimitLocks`: once the counter has reached every configurable limit the account is
  locked, or a handler that saw the limit still has its lock update ahead or died
  before it. `LimitEventuallyLocks` is its liveness.
- `LockIsTemporary`: a locked account always has an end within the longest lock time;
  an unlocked one has none left over.
- `ClearedStayCleared`: a session cleared by a later login never has a row again.
- `SessionEndsForAReason`: a row goes only by a login or logout of its user, when it has expired, or with its
  account.
- `ImplementsRegistry`: a heartbeat racing a logout does not bring a row back, and only tabs of
  closed sessions are told to log out.
- `ExpiredSessionsEnd`: what nobody keeps alive is ended by the cron.

AuthClient
- `TabIsOwn`: unless an answer came after its login was left, the tab acts for the account
  it shows, stream and timer are those of the session it holds, and the query cache
  holds nothing of another account until a logout by the button; a request is repeated
  once at most.
- `StaysOut`: a tab that is logged out stays so until a login is answered; no late
  token and no page load brings the former login back.
- `EventsHitTheirSession`: a logout event logs a tab out only when the session it holds is
  closed, or on a stream of a login the tab has left.

UserAdmin
- `EndsAreAllowed`: no request of an account ends its own access, whatever the
  other administrators did between its check and its write. An account whose role is exactly an
  administrator's loses access only to a super admin, or is deactivated by a caller whom the guard takes
  for an administrator and the service for none. Accounts with another word have no such protection.
- `LastSuperAdminOnlyByRace`: the last active account that is exactly a super admin loses access only to a
  super admin that was itself ended after its request had been let in, or to a caller with another
  word for its role.
- `AccountsAreSound`: accounts that have exactly the word of an administrator's role exceed its quota
  only by overlapping creations (other words are not counted before they are inserted); who must change
  the password still has the default one.

Documents
- `StoreIsSound`: between handlers, while nothing overlapped or failed on a name, rows
  and files correspond, whatever was removed and uploaded again.
- `ServesWhatWasAsked`: under the same condition the right bytes are sent.
- `TempsAreCleaned`: every path through the upload moves or removes its temporary file.
- `LastIsNewest`: while uploads neither overlap nor fail, and no form stored a date that had moved on since
  it was loaded, no report is newer than the customer's last inspection date.

Customers
- `TablesAreSound`: a removed customer leaves no target, also when one was being added; while
  targets are added one at a time on one page their numbers are those of their creation.
- `OnlyTypedChanges`: what was typed is stored as it was typed, but for a date that was taken out. And if
  nobody wrote the row between the load of a form and its save, every other column shows afterwards what it
  showed before, such a date among them: nothing is lost between the nulls of the row, the empty texts of the
  form, the values that are not sent and the nulls of the service. A null and an empty text count as the same, as they do on the screen.
- `TemplatesAreOwn`: a target's path leads to the file uploaded for it last, and a download
  to a file of its target, unless a name was shared: the customer was renamed, or took the name
  of a removed one, whose files stay, or a product was used twice, also after a removal. A path leads to no
  file, or not to the last one, only after two uploads for its target at once, or since an upload that failed
  or died between the unlink of the old file and the update of the row; the next one that succeeds mends that.
- `NoneReplacedSilently`: under the same condition a template in use is replaced only after the
  question, unless the check failed or two uploads overlapped.

Encryption
- `SourcesAreSound`: a page that could not read the row never replaces it.
- `NoneMeansNone`: an export says that there is no source management only if there was none at
  some moment of it; a failure has a sheet of its own.
- `PasswordsReadBack`: what was saved last is what is read, through saves, script, crashes and
  repetitions; excepted are another key, old passwords that look encrypted, and settings
  saved between the script's read and write.
- `ColumnsAreEncrypted`: after a finished run the columns the script treats, the passwords of the access rows
  and that of the settings, hold nothing in the clear but what looks encrypted, also what was saved during the
  run and after it. It is not about `service_logs`, see below.

Office
- `ToldIsShown`: a page at rest shows every write it was told had succeeded, and exactly the rows
  if nobody has written since it read them; a bell at rest has counted every write it was told of.
  Excepted are failed and overlapping loads, and a bell told during its very first fetch.
- `NoticesAreKept`: what counts as read was ticked by the user, or had come beneath a ticked box; a
  notice put away does not come back; no fetched notice waits unseen once the password
  dialog is closed, unless putting it away failed.
- `BellCatchesUp`: in the end the bell is right, whoever wrote and whatever failed.

Logs
- `PagesTellTruth`: rows displayed without a spinner are those of the filters, page and size on the
  screen unless requests overlapped or failed; "no entries" means that there are none; a file
  holds all that was displayed when it was asked for, as long as the history is no longer than a
  file. Removed accounts are the exception.
- `WalkLosesNothing`: whoever asks for the pages one after the other, each when the one before was
  seen, has at the last one seen every entry that was there at the first, while entries are
  written in between and between the reads of one page.

Backup
- `SuccessIsKeptOrSuperseded`: what a successful run wrote is on disk until a file as
  new takes its place, also when other runs fail half way; archives of documents are complete.
- `LogTellsTruth`: success with a remote destination, of a run whose settings had the address of a server,
  means that each file reached it; a row says running only of a run at work or a run that died.
- `FiresAtKoreanTime`: the UTC job of every schedule fires at its Korean hour, weekday
  and day of the month, but for the first of a month before nine (which the comment
  at `backup.service.ts:84` puts out of range).

Inspection
- `CopiesAgree`: for paying customers whose month was chosen for the cycle, the current
  month is due exactly if the missing list expects it.
- `AnswersAgree`: customer list, single check and dashboard give one answer.
- `EndOfMonthIsJudged`: when a due month ends, the list of its year names exactly the
  targets without a report, also across the year's end and with a month left
  from another cycle.
- `OnlyTheEndedMonthIsAdded`, `UploadsOnlyClear`: with configured months, lists change only
  by the month that ended and by the month that was reported.
- `QuarterlyHistoryIsKept`: two inspected months of one pattern settle the pattern.

The invariants named `...Sound`, `...Own`, `...Truth`, `...Agree` and `ToldIsShown` contain the type
invariant of their module.

## Findings

| run | the repository says | the code does |
|---|---|---|
| `backup_password` | an empty field keeps the password (`SettingsPage.tsx:578`) | every save of the page erases it: the field starts empty after each load, and the service stores an empty one as null |

**Also against a sentence of the repository**, without a run of its own:

- Failed logins lock an account although the switch of the limit
  (`SettingsPage.tsx:311`, off by default) is never read (`auth.service.ts:394`).
- Two overlapping uploads of one name take the same free number (`documents.service.ts:128`):
  one report is lost and both rows name the other (`docs/documents_storage.md:14` promises numbers).
- Changed backup settings do not reset the schedule (`settings.controller.ts:50`): the
  backup service is never injected, the job of the last start goes on.
- The pattern built from one inspection need not contain its month
  (`inspection-status.service.ts:264`): July gives March, June, September, December; only 1, 5, 9 and
  10 are in their patterns.
- The notice popup of a first login opens over the forced password dialog, which it
  was meant to follow (`MainLayout.tsx:61`).
- Two creations at once exceed the quota of administrators that the answer at `users.service.ts:133` gives
  (`users.service.ts:128`), and so does a single one with the role in another spelling: it is
  not counted, and the guard takes the account for an administrator (`roles.guard.ts:37`).
- A login that was not forced deletes a session created after its duplicate check, which the comment at
  `auth.service.ts:458` takes for done.
- The last inspection date is said to follow the uploads by itself (`CustomerEditPage.tsx:948`, 955), but a
  form that was open during an upload writes the older date back with whatever else was edited (231).
- A contract date that is cleared is sent as undefined and stays, although the comment says that empty dates
  become null (`CustomerEditPage.tsx:223`) and the page says that it was saved.
- A backup with a remote destination and no `sftpHost` is logged as a success with the destination `remote`,
  although nothing was transferred (`backup.service.ts:187`; `docs/backup_remote_setup_guide.md:19`).
- Every update of source management writes the request as it came, and the rows as they were found, to
  `service_logs` (`customers.service.ts:758`): the passwords that the columns encrypt stand there as they were typed
  (`docs/spec-system-stability.md:237` looks for plain text in the database). `journal` holds them in the model.
- A reload sends the beacons that are meant for a closed tab (`useAutoLogoutOnClose.ts`), and a beacon
  deletes every session of the account, also those of other browsers.

**Other behaviour met while modelling**, which the properties except by name or the
models show:

*Server.* Two overlapping logins delete the
old sessions before either creates its own, and both stay (`auth.service.ts:459`, against
`SettingsPage.tsx:285`); an administrator can deactivate an account whose role
is `Admin`, which the guard takes for an administrator and `users.service.ts:299` for a user; removing an
account ends its sessions and tells no tab (`users.service.ts:454`); an upload whose service log fails is
answered with an error though the report is stored (`documents.service.ts:174`); trial (POC) customers, for whom no cycle can be set, are listed
with missing inspections by the default cycle (`inspection-status.service.ts:35`); a month
kept from another cycle is missing every year and never due (`CustomerEditPage.tsx:881`); a
half-yearly history in January and July is read as June and December
(`inspection-status.service.ts:355`); a login past its lock check erases a lock set meanwhile
(`auth.service.ts:421`); a forced login tells only the sessions it had listed (452); the
logout of a displaced tab deletes the session that displaced it
(`auth.controller.ts:49`); overlapping updates of a user leave the union of their customer
lists (`users.service.ts:237`); the last inspection date can go back when uploads
overlap (`documents.service.ts:163`); a view of a file that is being removed ends the process
(`documents.controller.ts:193`); with a retention of one, overlapping backups can delete a finished file
and keep an unfinished one; a dump that breaks off is logged as success
(`backup.service.ts:270`).

*Browser client.* A refresh that is answered after a logout and another login writes the former account's
token beside the new user, and a reload keeps the mixture; the query cache is never cleared (`App.tsx:8`), so
after a logout by the button the next account of the tab is first shown the former one's data; a
wrong current password is answered 401, so that request refreshes and is sent twice; a stream
whose first connection fails is never retried; the heartbeat of `useSessionValidator` is used by no
component, so no session outlives its expiry.

*Customers.* Adding or removing a target loads the form anew and discards what was typed; the service makes null of an engineer that was left
out; the answer of a save leads to the detail page although the user has left; numbers of targets
repeat after a removal; targets of one product, or a customer renamed onto the name of another, share
the path of a template, and one upload overwrites the other's without a question; an upload whose disk is full, or whose
process dies, after the unlink leaves a target without its old template and without a new one
(`inspection-targets.service.ts:131`), one that ends before the update of the row leaves the former path; a removed target
leaves its file, and so does a removed customer: a target with the product of a removed one, or a customer
with the name of a removed one, comes into its file name, and an upload that was on its way for the
removed target replaces the template of the new one. The last case was found while proving
`TemplatesAreOwn`.

*Source management and settings.* A failed load shows an empty form whose save is refused (409); so is every
save after a creation whose answer was lost, until the page is loaded again; the last of two saves
wins; the script ends with an error when a save has replaced a row it was about to write, and can be
run again; settings saved between the script's read and its write are overwritten with the old
password; an old password that looks encrypted is left alone and cannot be read; with another key the
page cannot be read at all; the export's sheet of support logs says that there are none when they
could not be read; a settings page whose load failed sends only what was typed.

*Office.* Opening and closing the password dialog fetches the notices again, so a notice closed without a
tick pops up again; a ticked box stays ticked when a newer notice takes the place of the shown one,
or after a mark that failed; two tabs that mark at once may collide in the insert, which is
answered as an error; buttons stay enabled, so a double click creates two rows; a write that was stored but whose log
entry or answer failed is reported as an error and nothing is loaded, so that a repetition makes a
duplicate; the answer of one write closes another's dialog of the same kind; a reload shows all
support logs under a filter's fields; of overlapping reloads the older may come last; an
invalidation during the bell's very first fetch is lost until the next minute; the bell's counts
are read one status after the other and may belong to no single moment.

*Logs.* The last day of a range ends at its midnight (`logs.service.ts`), and a range counts only when
both ends are given; searching again without a change fetches nothing; a late answer overwrites a
newer one; the export of the login log is itself an entry of it; removing an account moves
its attempts' successors past the edges of pages; who asks for page 2 while a new request for page 1
is on its way, and looks at them in order, misses the entry that the newer page 1 has pushed back.
The last case was found while looking for the invariant of `WalkLosesNothing`, which now demands
that a page is asked for when the one before was seen. The export's limit cuts a longer history.

## Proofs

All theorems hold for any size of the constants and any length of run. Each proof module
states them in the same way: an invariant that is inductive, one lemma per action (or group of
actions that leave the same variables alone), and the theorems in a few lines from both.

`AccessProofs`, about `Auth`, from the assumption `AuthAssumption` alone (there are accounts, the
settings rows have limits 1..5 and positive lock times):

| theorem | statement |
|---|---|
| `TypeCorrect` | `Spec => []TypeOK` |
| `LockoutSafe`, `LocksEnd` | `Spec => [](LimitLocks /\ LockIsTemporary)`, `Spec => []LockIsTemporary` |
| `ClearedForGood` | `Spec => []ClearedStayCleared` |
| `RegistryImplemented` | `Spec => ImplementsRegistry` |
| `SessionsEndForAReason` | `Spec => SessionEndsForAReason` |

*Lockout.* `LimitLocks` is not inductive: a handler owes a lock on the strength of
the limit it copied from the settings, and nothing in the property says that the copy is
a limit some settings row has. `LockInv` adds `CopiedFromSettings`: a handler at the
end of a failed login holds a limit and a lock time of one row of `SettingsSpace`. With
it, the increment that reaches every limit also reaches the copied one (`CountLock`),
later steps keep the debt (`DueKept`), the lock update pays it with an end in range
(`SetLock`), and every other write to the row is a reset (`ResetFrame`).

*Sessions.* `ClearedStayCleared` alone does not exclude that a row was made up, or
that a handler past its deletion creates a row somebody has already cleared. `SessionInv`
adds that every row belongs to a granted request, that its user is that request's
user, and that lists and `cleared` hold granted requests only; a request is granted
at the moment its row is created and never leaves that state. Most steps are `Quiet`: they
neither grant, nor list, nor add a row; `QuietSteps` shows it action by action, and only
`ListSessions`, `ClearSessions` and `CreateSession` need lemmas of their own. The
refinement follows from `SessionInv`: `CreateSession` is `Open`, every step that loses rows
is `Close` with the events it emits, everything else stutters.

`AccessProofs`, about `Logs`, from `LogsAssumption` (page sizes and days are positive; the empty form is a filter;
login attempts are entries of logins; the scenarios count in naturals):

| theorem | statement |
|---|---|
| `LogsTellTruth` | `LogsSpec => []PagesTellTruth` |
| `LogsWalkLosesNothing` | `LogsSpec => []WalkLosesNothing` |

Everything is said of one set per reader, `Sees`: what a request or an export under way would merge if the rest of
its tables were read now. Reading a table does not change this set, and writing an entry only adds to it
(`SeesGrows`), so each claim is shown once for growing tables and is free for the reads. `Position`
counts the rows in front of a row; no two rows have the same (`PositionsDiffer`), more rows push a row back
(`PositionGrows`), and every position below the number of the rows is taken (`PositionsAreTaken`): hence a
page that begins before the last row is not empty (`PageHasRows`), which `IsWithin` carries from the click on the
pagination to the answer. For the walk, entries of the first page that were not seen are behind the pages walked
through (`ReachesOn`), in the tables and in every request that will continue the walk; one more page moves the
bound by one page (`PageMore`), and behind the last page there is nothing. Requests sent before the last page was
seen promise nothing of the kind, so the invariant fails for them; TLC then showed the entry that is lost.

`UserAdminProofs`, from `UserAdminAssumption` (finitely many identifiers and requests,
positive limits, known operations, any other words for roles, each read by the guard and by the database as
some role or as none, a value for "no row" that is none):

| theorem | statement |
|---|---|
| `AccountsAreAlwaysSound` | `Spec => []AccountsAreSound` |
| `EndsAreAlwaysAllowed` | `Spec => EndsAreAllowed` |
| `LastSuperAdminAlwaysByRace` | `Spec => LastSuperAdminOnlyByRace` |

`AdminInv` joins the types, `Issued` (a request is about an identifier that was issued, and those are
never issued again), `CallersKept` (a caller that still has a row has the role it arrived with),
`FirstLoginMeansDefault`, and `Checked`: what the guards of a route and the
checks of a handler have settled by the time it writes. A check is made on a row that may have
changed by then; it still holds because an account keeps its role as long as it has a row
(`RolesKept`), which in turn is because identifiers are not reused. `EndedByOne` says that a step ends
the access of one account at most, `EndedRightly` that it was one of a checked request: the
action properties are consequences. The quota needs `Room`: accounts with exactly the
word of the role and creations that have counted and not yet inserted are together within the limit (the
count can only be larger, since the collation takes every such word for the role), or the role is among
those whose creations overlapped.

`EncryptionProofs`, from `SecretsAssumption` and `SourcesAssumption` (null is neither a
password nor a row; what looks encrypted is a password) and nothing about the scenarios:

| theorem | statement |
|---|---|
| `SourcesAreAlwaysSound` | `Spec => []SourcesAreSound` |
| `NoneAlwaysMeansNone` | `Spec => []NoneMeansNone` |
| `PasswordsAlwaysReadBack` | `Spec => []PasswordsReadBack` |
| `ColumnsAreAlwaysEncrypted` | `Spec => []ColumnsAreEncrypted` |

`SecretInv` is a conjunction of one part per store. A password is stored as it was typed or under
one layer of the key (`AsSaved`), and the form, the answer and the save on their way between row
and row hold it as it was typed (`GoodForm`; `AnswerIsGood` and `OneLayer` are the round trip): this
is what a second encryption would break. Of the script the invariant says that a row it has read
and not yet treated is unchanged or gone (`ScriptInv`), which follows from ids that are never
reissued: so its write encrypts what is stored now, although it read it long ago. `ClearedInv` says that
what is in the clear in the columns is still ahead of the script. A form with an id was filled from a row
(`GoodForm`), and only such a form becomes an update: hence a form that failed to load replaces nothing.

`ReportsProofs`, about `Inspection`, from `InspectionAssumption` (dates are naturals, yearly months lie in 1..12):

| theorem | statement |
|---|---|
| `InspectionTypeCorrect` | `InspectionSpec => []InspectionOK` |
| `CopiesAlwaysAgree` | `InspectionSpec => []CopiesAgree` |
| `EndOfMonthAlwaysJudged` | `InspectionSpec => EndOfMonthIsJudged` |
| `OnlyTheEndedMonthIsEverAdded` | `InspectionSpec => OnlyTheEndedMonthIsAdded` |
| `UploadsAlwaysClear` | `InspectionSpec => UploadsOnlyClear` |
| `AnswersAlwaysAgree` | `InspectionSpec => []AnswersAgree` |
| `QuarterlyHistoryAlwaysKept` | `InspectionSpec => []QuarterlyHistoryIsKept` |

`InspectionOK` is inductive and enough, with one addition: the views compare counts of targets, and counts
say nothing of infinite sets, so the last two also use that targets stay finitely many
(`FiniteTargets`; then `CountsDecide`: the counts are equal exactly if every target has its
report). The history counts matches per pattern; a pattern that holds all months of a target has more
than every other (`OwnPatternIsBest`). The lemmas are about the calendar (`Calendar`: a month is
its year and number; `Tomorrow`: the month after), the tables (`QuarterTable`,
`HalfYearTable`: residues are patterns) and the operators: a due month is an expected one
(`NeededIsExpected`), a report counts for its own month of its own year and for no other
(`OwnMonth`), a month that has ended is excused nowhere (`EndedIsNotExcused`), and for
configured customers time does not change what is expected (`ExpectedStays`). An action
property is then one implication about a step, `InspectionOK /\ [InspectionNext]_inspection => [A]_inspection`.

`ReportsProofs`, about `Documents`, from `DocumentsAssumption` (finitely many requests, which the free numbers of a name are
counted against; dates are positive; the value for "no file" is no request):

| theorem | statement |
|---|---|
| `StoreSound` | `Spec => []StoreIsSound` |
| `ServesTheReport` | `Spec => []ServesWhatWasAsked` |
| `TempsCleaned` | `Spec => []TempsAreCleaned` |
| `NewestIsLast` | `Spec => []LastIsNewest` |

The properties speak of keys at rest; what has to be carried is what a handler knows in between. `OneAtATime`
says that on a calm key at most one handler is at work, `Balanced` that files and rows then differ by
what this one has moved and not inserted, or unlinked and not deleted, and `NewsIsFresh` that the
path it found free is free, so that `Rename` overwrites nothing, and the row it found is there. Every
number probed in vain was chosen by another upload (`ProbesAreTaken`), so the search ends within
as many numbers as there are requests. Once a path is settled it stays
(`Grows`); `Writers` says which steps touch the two stores at all. `LastIsFresh` is the same for the date
that was read before it is compared; a form that stores another date than the current one is what `putBack` notes.

`BackupProofs`, from `BackupAssumption` (settings exist and are of their types, finitely many runs, the value for
"no row" is no row):

| theorem | statement |
|---|---|
| `LogIsTrue` | `Spec => []LogTellsTruth` |
| `SuccessIsKept` | `Spec => []SuccessIsKeptOrSuperseded` |
| `FiresOnTime` | `Spec => []FiresAtKoreanTime` |

A directory is a sequence in the order of modification, so the lemmas are about sequences: what
removing an element, replacing a file, writing to one and the retention's cut leave, and
that the last element is never cut (`Removal`, `Replaced`, `WrittenTo`, `LatestOf`). `OwnIsNewest` says that a
run which nothing overlaps has its file last, and `NewestIsAsNew` that after a success whatever is last is as
new; this needs `StampsGrow` (a run at work is as new as all that succeeded) and `WritesNoSuccess`:
a run with the timestamp of another opens the same file name, and must not be the one that overwrites
a success of a run that was alone. `FiresOnTime` is arithmetic modulo 24 and 7 over
`CronExpression` (`NoneIsWrong`).

`AuthClientProofs`, from `ClientAssumption` (null is neither account nor session):

| theorem | statement |
|---|---|
| `TabIsAlwaysOwn` | `Spec => []TabIsOwn` |
| `OutUntilLogin` | `Spec => StaysOut` |
| `EventsAreForTheTab` | `Spec => EventsHitTheirSession` |
| `UsesTheRegistry` | `Spec => Registry!Spec` |

While no answer came after its login was left, everything the tab holds is of one login: tokens and screen
(`ScreenFits`), the stream, its reader and its timer (`OwnStream`), requests and cached data (`OwnData`). These
parts hold together only: a refresh that is answered is harmless because its request is of the login in
the storage or else the session is noted in `overtaken`, as is a stream still connecting when
its login is left. `OneLogin` says that the login page sends one login at a time, and `HoldsAnswered`, `OpenedOnce` that a
session in the tab is one the server has opened. Every step is of one of eight kinds
(`StepIsOfAKind`), and each part is shown per kind. `UsesTheRegistry` says that the server beside the
tab does only what `SessionRegistry` allows, the specification that `Auth` implements.

`CustomersProofs`, from `CustomerAssumption` (dates are positive; null is no date, text, row or path; the scenarios
count in naturals):

| theorem | statement |
|---|---|
| `TablesStaySound` | `Spec => []TablesAreSound` |
| `SavesWhatWasTyped` | `Spec => []OnlyTypedChanges` |
| `TemplatesStayOwn` | `Spec => []TemplatesAreOwn` |
| `AsksBeforeReplacing` | `Spec => []NoneReplacedSilently` |

Three threads run through the invariant. *The row:* `FormsAgree` says that an answer, a form and a save which
carry the current version of the row differ from it in what was typed only; a write makes all
others old, so their claim is about no row any more. *The order:* while targets are only added in order the
n-th has the number n - 1, and every list that the next number may be counted from is complete or
about to be replaced, by the load or after the addition that is under way (`InOrder`, `AllThere`). *The files:* `PathsFit` says that a path tells by its name and product
whose it is, so that without shared names only uploads for one target meet in a file; of these
`FilesAreThere` says that the last one stored is what the path leads to, also between the write of
the file and that of the row and unless the last one ended in between, and `AskedFirst` that an upload nobody was asked about goes to a
target without a template, unless its check failed or another overtook it.
All thirteen parts were first checked as invariants on the instance of the run and on larger ones; that is how
it was found that `TemplatesAreOwn` needs `NothingShared` to count names and products of rows that are gone.

`OfficeProofs`, from `RecordsAssumption` and `BellAssumption` (null is neither a row, a kind of page nor a question
of the bell; the scenarios count in naturals):

| theorem | statement |
|---|---|
| `OfficeTypeCorrect` | `Spec => []TypeOK` |
| `OfficeShowsTold` | `Spec => []ToldIsShown` |
| `NoticesKept` | `Spec => []NoticesAreKept` |

`OfficeInv` has a part per module, and each is shown to survive any write of the others from one fact about
the tables, `TablesStep`: a table whose count of writes is the same is the same, an id that is gone does not come
back, and a view goes only with its notice. *The lists* (`RecordsInv`): the list on a page, in an answer and on its
way is compared with the count of writes when it was read; while they are equal it is the table, and a page
that nothing crowds shows at least what its user was told, because the reload began after the write
(`PageTold`, `LoadInv`). Calls outlive the page they came from, so they are about its visit, not the page.
*The popup* (`PopupsInv`): only what was ticked, or came beneath a ticked box, is marked; a notice that was put
away is absent from every question that was asked since (`UnreadInv`), whichever of its two queries have been
answered, since a view can only be lost with its notice; and whatever is on display is open or is
waiting for the password dialog (`SeatInv`). *The bell* (`BellInv`): a question that is half way has counted, for the
statuses it is past, what they held when nothing was written since (`QueryCounts`), so a bell at
rest that has heard of every write has the right sums, unless it was told during its first question.

Left to TLC: the three liveness properties (`ExpiredSessionsEnd`, `LimitEventuallyLocks`, `BellCatchesUp`), since
fairness is out of the prover's reach. Every other property of a passing run is stated by a theorem.
`EmptyFieldKeepsPassword` does not hold.

## Not modelled, and why

- The dashboard, the lists of inspections and assignments, the account, profile, backup and
  document pages: they display answers and send single requests whose handlers are modelled; their
  load, write and reload is that of `Records`. Menus, routes by role and `@Roles` are tables.
- Bootstrap, throttling, error texts, log files and the health route; the packaging scripts. They hold
  no state that the properties relate, except for `restart: unless-stopped` and the exception
  filter, which the server's modules use.
- The update of an inspection target, which no page calls; `updateDescription`, one free-text column.
- Text searches, sorting, the contents of Excel and Word files, validation of single columns and
  the password policy: functions of one request.
- bcrypt, JWT, AES, SFTP, gzip and the archiver are taken to do what they are called for, or to fail.

## Plan

What is left, in this order:

1. The account and backup pages over `UserAdmin` and `Backup`, if they come to keep state
   between requests.
2. The safety halves of the liveness properties: that whatever they wait for is always ahead of
   somebody.
