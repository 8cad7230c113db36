# Verification of the Centralized Application Management System

TLA+ modules, TLC configurations and TLAPS proofs about the ASP.NET server in
`src/Prototype` (C#, Entity Framework Core, SignalR) and its React client in
`src/Prototype/ClientApp`. Paths below are relative to `src/Prototype`; client
files are named without their directory.

    tlc -config FileQueue.cfg MCFileQueue     one run
    tlapm FileQueueProofs.tla                 the proofs of one module

`PROJECT.json` lists the runs, the source lines each definition stands for, the
deliberately wrong variants ("Mutant:" in the modules) that show each property can
fail, the hazards, the findings and the theorems.

## 1. Inventory

| Component | State | Operations | Hard behaviour |
|---|---|---|---|
| Job cancellation (`JobCancellationService`) | process-wide dictionary job id -> token source | create, cancel, query, remove | look-up and cancel are two steps; removal is by id; lost at a restart |
| File queue (`FileQueueService`, `BulkUploadQueueController`, `BulkUploadCancellationController`) | queues in an instance field, history rows, messages | queue files, background task, cancel (two endpoints), status, delayed removal | task nobody awaits; cancellations at any step; three exits per file, two per loop; service registered per request |
| Bulk import (`BulkDataProcessingService`, `BulkValidationService`, mappers, direct upload controllers) | data tables, `BulkUploadHistories`, change tracker of each context | validate, add rows, commit, save history and activity | transaction that contains no write, save after the commit, tracked rows surviving a failure, overlapping imports |
| Progress (`ProgressService`, `ProgressHub`) | SignalR groups | started, progress, completed, error | order between the task and the cancelling request |
| Rate limiting (`RateLimitingMiddleware`) | static dictionary client -> attempts | check, record | read, overwrite and append by overlapping requests |
| Access requests (`UserRequestsNavigationController`) | `UserRequests`, `UserActivityLogs` | create, review, cancel, read | status tested on a copy, column-wise update without a concurrency token, log row in a second save |
| Migration client (`UserProvisioning.tsx`, `MigrationContext`, `migrationStorage`, `signalr`) | page state, context, local storage, joined groups, timers, intervals | choose and parse files, upload, poll, cancel, restore, message handlers | late, lost and missing messages; leaving and reloading; effects that undo each other |
| Account links (`UserAccountService`, `TransactionService`, login controllers, `VerifyEmailPage`, `ResetPassword`) | users, temporary users, recovery requests; form and status of each page | register, verify, request reset, reset | the same link opened twice, lost answers, transactions that read and then save |
| Authentication (`AuthContext`, routing, login page; `AuthenticationService`, `JwtTokenService`) | signed tokens; token and user in memory, token in storage | log in, log out, start-up check, redirects | a slow answer of the start-up or of an earlier sign-in |
| Applications (page, `ApplicationNavigationController`, `ApplicationManagement`, factories) | applications, connections, assignments; list, filter, form, dialog, connection test | load, create, edit, test, delete | overlapping loads, forms reused while a save is under way, fields that differ by type |
| Roles (page, `RoleNavigationController`) | single rows; form | create | name looked up and row added in two steps, a save under way while the form is closed, reopened and submitted |
| Accounts (page, `UserAdministrationController`) | single rows | load, freeze, delete | none that occurs: the page never shows an account (section 5) |
| Access-request page, notification bell | list and dialog; one entry derived from the migration | compose and submit; read, dismiss, age | a dialog kept over its closing; an id learnt late |
| Audit, dashboards, settings | none of their own | reads and log inserts | none |
| Connection strategies | none | one attempt to connect | pure I/O |
| Validators, seeder, e-mail, factories | none | checks, one-time data | none |

How they interact: the upload controllers call the import directly or through the
queue; both create their token in the one cancellation table; the queue's task
reports through `ProgressService` to the SignalR group of the job, to which the
cancelling request also sends; every request passes the middleware; the import and
the request controllers share nothing but the database.

What makes each correct:

* cancellation: a job can be cancelled exactly while it runs, and no token leaks;
* queue: every job ends, every file is accounted for, the history row and the
  messages tell what happened, once;
* import: a file is imported as a whole or not at all, counts and history agree with
  the tables, success means saved, a cancellation in time leaves nothing;
* rate limit: nobody is refused in vain; a client that sends one request at a time is
  held to the limit;
* access requests: the last decision stands completely, a decision is signed by a reviewer,
  and the answers are true;
* migration client: while uploads do not overlap, the page shows of a migration no success, failure or
  cancellation that did not happen; a migration shown as under way is watched and ends;
* roles and applications: a form is saved once at a time, a role is created once, loading ends,
  no edit destroys a stored secret;
* session: memory and storage agree once all answers are in, and a sign-out is final;
* account links: a registration becomes one account at most, and what a page announces is
  what the server did.

## 2. Modules

| Module | Models | Extends |
|---|---|---|
| `JobCancellation` | the token table, as operators | |
| `FileQueue` | the queue, its task and the requests on its jobs | `JobCancellation` |
| `UploadJob` | abstract: what an upload promises to its client | |
| `BulkImport` | the import on three upload paths | `JobCancellation` |
| `FileImport` | abstract: what the queue relies on from the import | |
| `RateLimiter` | the middleware under a clock | |
| `UserRequests` | access requests | |
| `MigrationClient` | the bulk tab of User Provisioning with its context, its storage and the hub | |
| `FileSelection` | choosing, parsing, previewing and removing the files | |
| `Roles` | the creation of roles: form and server | |
| `PagedList` | the list of applications: server, filter, paging, requests in flight | |
| `Applications` | that page with its controller | `PagedList` |
| `ConnectionFields` | fields and authentication a connection is offered, its state and properties | |
| `ConnectionForm` | opening, filling in and submitting that form | `ConnectionFields` |
| `SessionState` | the state of a session and its properties | |
| `Session` | sign-in, sign-out, start-up, routing | `SessionState` |
| `AccountLinks` | verification and reset, pages and transactions | |
| `RequestsPage`, `NotificationBell` | the page of access requests, the bell | |
| `Client` | all modelled pages but that of `MigrationClient`, each an INSTANCE, one per behaviour | `SessionState`, `ConnectionFields` |
| `MC...` | instances for TLC | the module of that name |
| `FileQueueProofs`, `BulkImportProofs`, `RateLimiterProofs`, `UserRequestsProofs`, `MigrationClientProofs`, `SessionProofs`, `ConnectionFormProofs`, `ClientProofs` | theorems | the module of that name |

**JobCancellation.** A source is named by the upload that creates it. `TryAdd` keeps
an entry already there, the removal disposes of whatever is there. `CancelJob` is two
operators, `LookupSource` and `CancelSource`: between them the task may dispose of the
source, and then `CancelJob` answers false. There are no variables beyond the table,
so the modules that use the service extend this one.

**FileQueue.** `worker[j]` is the program counter of the task that
`QueueMultipleFilesAsync` posts; each value ends at an `await` after which shared
state is read or written. `StartFile` is the head of the loop with its only check of the
token; `FailFile`, `CommitFile`/`SaveFile` are the import of a file, cut at the commit,
because the import reads the token up to there and swallows errors after it. `AbortQueue` is the
`OperationCanceledException` handler; `ReleaseJob` and `ForgetQueue` are the finally block and
its thirty-minute continuation. Requests are `LookupJob`, `SignalJob` and then `CancelQueue` or
`CancelMigration`; `GetQueueStatus` reads. `ServiceFor` says which `FileQueueService` object a request
gets: one each under the `AddScoped` of `Program.cs:121`. `RestartServer` forgets
everything in memory. A file is of one of three kinds: its import succeeds, fails, or
finds no table.

**UploadJob** is the promise: accepted, begun, each file imported at most once, one verdict which
is "success" exactly when all files were imported, and after a cancellation at most the
import already committed. `FileQueue!ImplementsUploadJob` maps `worker` to a phase (`Phase`) and
the two sets of files to "imported". `Safety` is the promise without its fairness. Files "imported" include those whose save failed after the
commit (`unsaved`): the queue reports them as done, and the abstract job speaks about what
is reported. What is really in the database is `BulkImport`'s subject.

**BulkImport.** `rows` and `histories` are the database; `tracked[u]` is the change tracker of the
context of upload `u`, shared by all files of a "multiple" request. `SaveChanges` writes
all of it or nothing. `PreCheck` is `ValidateDataAsync`, `Validate`/`EndValidation` are
`ValidateWithResultsAsync` and the decision on its result, `AddRows` is the row loop, `Commit` the
commit of a transaction that has written nothing yet, `LogHistory` the save that writes the
rows, `LogActivity` and `Finish` the later saves of the same context. A row is well formed, malformed
(validation finds it) or unlinked (`UserApplicationTableMapper` accepts it in validation and refuses
it when saving). The column formats are the class "malformed".

**FileImport** is what a queued file's import promises: failed without a trace, or committed and then
saved or not, with a cancellation before the commit in time. It says openly that a success may have stored nothing:
`LogBulkUploadHistory` swallows the error of the save that writes the rows.

**RateLimiter.** `Look` reads the list, `Check` puts the filtered copy back unconditionally
and decides, `Record` is the atomic `AddOrUpdate`. An attempt is named by the request that
made it, its time is when the request was recorded. The section read is `RateLimit` (defaults
5 attempts in 15 minutes; `appsettings.json:37` has a section named `RateLimiting`, so the defaults apply),
and the middleware is installed outside development only (`Program.cs:357-361`).

**UserRequests.** A call is `new`, has `loaded` the row, is about to `log`, or is `answered`.
`SaveRequest` writes only the columns in which the copy (`Asked`) differs from the row as it was
read (`loaded`): this is how the change tracker builds the UPDATE. `before` and `saved`
are history variables used by the properties only. ReviewedAt stands for the review whose time it is, so it never
repeats; Comments behaves like ReviewedBy. Who is an administrator is fixed.

**The client in general.** A handler runs from one `await` to the next without interruption, so an action is
a handler up to its next `await`. A request is sent in one step, served by the server in another and its answer
applied in a third; an answer may also be a refusal, or be lost. What the server answers is what its
controllers answer as the client reads it. `EnsureUserAuthenticatedAsync` (`BaseApiController.cs:64`) wraps what is an
answer already in another `Ok(...)`, so `response.success` is undefined in the client for the endpoints that use it;
`Roles` models that. `/settings/user/profile` is one of them too, so that taken to the letter every sign-in and every
start-up ends signed out; `Session` admits both a profile answer that brings the user and one that does not, and the
other pages are modelled as they behave in a browser that is signed in.

**MigrationClient.** The server's jobs, the hub and one browser. `shown` is the state of `MigrationContext`, `stored` its copy in local storage.
`Commit` is a render: the context's update function is new at each update, so the subscription effect
leaves the group and clears the interval it had captured (`sub`), and the restore effect joins
again (`rejoin`). `StartMigration`, `Connect`, `JoinFirst`, `QueueAnswered`, `JoinAfter` and `UploadAnsweredBadly` are
the upload cut at its awaits; `HandleJobStarted` .. `HandleJobError` the message handlers, with the timer
by which a completion is shown. `Announce` sends to the group: a browser outside it never hears. `Leave` unmounts,
but promises and timers go on; `Reload` keeps only what is stored. What is shown is a status, a job id and, as
`verdict`, which text goes with it; every handler writes on the migration shown by then, whatever job its
message, timer or answer is of (`UserProvisioning.tsx` 501, 1142, 1400). A poll of the status is always answered
NotFound (`AddScoped`, `Program.cs:121`), so `StatusAnswered` changes nothing that is shown. `trouble` records that a
verdict or an answer went by unseen, and `overlap` that something of an earlier upload could still
reach the page when the last one was started. The two intervals are `Poller` (of the status) and `Checker` (of the connection).

**FileSelection.** `processFiles` reads what is uploaded at its start and writes at its end, with one await
per file; the module has the drop zone, the preview and its pages, and removals in between. A choice is of one or
two files (`Selections`), any of the names at hand. `Rows` is the `flat()` of the parsed files after a removal, `ValidFiles` the
loop that sorts out what was chosen; both join pieces, in `Rows` in any order of the files, since no property depends on it.

**Roles.** No answer is a success to the page: it shows no role, so nothing can be filtered, renamed or deleted, and what
is left is the form that creates one. `handleRoleSubmit` sends, `CheckName` and `AddRole` are the look-up
and the commit on the server, `SaveAnswered` offers the form again; `Lost` and `Leave` are what the page may lose while the server,
which watches no token (`GoesOn`), adds the row all the same. `roles` counts the rows of each name.

**PagedList, Applications.** A function of the page holds a slot of `calls` from its first request to its last.
`wide` says that it saw a filter when it was called (a closure). Items are
numbered by creation. `AllSize` exceeds `MaxPageSize`, and the server answers such a request with its default
size: the page asks for 1000 to get all (`Applications.tsx:245`) and gets 50.

**ConnectionFields, ConnectionForm.** The types of data source, the ways to authenticate offered for each (`AuthOptions`), the
default (`getDefaultAuthType`), the fields shown, what the factories store and encrypt, and what an edit is filled with.
A text is blank, plain or encrypted.

**SessionState, Session.** The token in memory and in storage, the user, the path and what the router makes of it. Tokens are named by their user.
`overlapped` and `out` are history variables for the properties.

**AccountLinks.** Registration, verification and reset: each reads and then saves, with others in between. A link may be
open in several pages; React's strict mode runs the effect of the verification page twice.

**RequestsPage** has the dialog with the real catalogue of tools; **NotificationBell** follows the migration through
unknown ids, dismissal, age, reload and remounting.

## 3. Runs

| Run | Instance | Shows |
|---|---|---|
| `file_queue` | 1 job, up to 2 files of any kinds, 2 requests, 1 database error, 1 restart | token held exactly while the task runs; files accounted for; history truthful; one verdict; cancelled only on request; every job ends; the job implements `UploadJob` |
| `bulk_import` | 2 uploads on any path, 2 tables, 1 key, files of 2 rows, up to 2 files per request, 1 database error, cancellations | whole files, true counts, success means saved, later files see earlier ones, a cancellation in time, answers; the queued path implements `FileImport` |
| `rate_limiter` | 3 requests of one client and 1 of another, limit 2, window 3, clock 0..5 | nobody refused in vain, limit held for a client that waits |
| `user_requests` | 4 calls, 2 administrators and 1 other user, 1 database error | last decision stands, decisions are signed, answers are true |
| `migration` | two uploads, or one with a fault (connection or answer lost, restart, page left or reloaded) | the verdict shown is true of the migration shown, unless uploads overlapped; a page under way is watched, one status interval, processing ends |
| `client` | the eight pages below, one per behaviour | the properties of each page |

The pages of `client`; `part` says which one a behaviour is about. A page keeps its state only while it is
shown and shares none with another, so one at a time is enough.

| Page | Instance | Properties |
|---|---|---|
| roles | 2 names, each there or not at first, 2 creations at once and in all, 1 fault | `RoleOnce`, `OneSave` |
| applications | 3 ids, 2 items at first, page sizes 1 and 2, 2 functions at once, 2 started by the user, 1 fault | `OneSave`, `LoadingEnds` (without a fault; an answer without success leaves the page loading) |
| session | a user and a platform administrator, 2 sign-ins and 2 sign-outs in flight | `SettledSession`, `LogoutIsFinal` |
| files | one file each of JSON, Excel and text (not accepted), 1 row each, 2 calls, 1 removal | `DataMatchesFiles`, `PreviewPageExists` |
| connection | six types of data source, three fields | `AuthIsOffered`, `SecretsSurvive` |
| requests | 2 requests, 2 functions | `SubmitSends` |
| bell | 2 jobs | `DismissedStaysGone` |
| links | an address registered twice, 2 pages, 2 passwords, 2 submissions | `LinkVerdicts` |

Six runs check a sentence of the source that the program does not keep; TLC finds the
counterexample:

| Run | The source says | What happens |
|---|---|---|
| `accepted_cancel` | "File queue cancelled successfully" (`BulkUploadQueueController.cs:188`) | accepted during the last file, the queue ends as completed |
| `kept_queue` | queue kept "to allow status checks" (`FileQueueService.cs:355`) | the status is NotFound from the start: the queues belong to one request's service object |
| `unique_usernames` | "Unique username for the user" (`UserTableMapper.cs:125`) | one file, or two overlapping ones, bring a name twice; there is no unique index |
| `failed_file` | "Failed to process" a file (`BulkUploadMultipleController.cs:113`) | its rows are written by the next save of the request's context |
| `rate_entries` | the list is updated "to remove old entries" (`RateLimitingMiddleware.cs:79`) | a recent attempt recorded since the read is removed too |
| `pending_cancelled` | "Only allow cancellation of pending requests" (`UserRequestsNavigationController.cs:284`) | a request approved between look-up and save is cancelled |

**Why the bounds are enough.** Jobs share only the token table and their ids are fresh, so one job with
two later requests (two cancellations that overlap, or one and a status request) meets all
interactions of the queue; the theorems below hold for any number. Two files give "first fails, second goes
on", "second fails" and a cancellation in between. Two uploads with one key are the smallest collision, and both
rows of each file have that key. One error at any point and a second file show
what a failure leaves behind. A window of 3 in a clock of 5 lets attempts fall out of it while others stay, and three
requests exceed a limit of two. Four calls are a creation and three changes of it, the least in which
one change began after another while a third overlaps both. `MaxTime`, `MaxFaults`, `MaxRestarts`,
`MaxFiles` are the only bounds on counters. In the client, two uploads let every late message, timer and answer of the
first meet the second (`overlap`; two that follow each other are those `VerdictIsTrue` speaks of), and one fault at any point includes those after which a second could only repeat it;
two functions at once give every overtaking of two answers, and two pages of one or two items give an emptied last
page, a changed size and a count that shrinks. One fault and a second creation of the name it left behind are the
smallest way to a double role. Symmetry is used only in runs of safety
properties, over values that the constants do not tell apart.

**Deadlock checking** is off: server runs end with every call answered and every job over, and users of the
client may stop at any time, so a page may rest anywhere.

**Fairness.** `FileQueue` assumes weak fairness of each task's next step: the thread pool runs
posted work and continuations, and every `await` in the task is of a database or SignalR
call that ends or throws. `BulkImport` assumes it of each upload that has been received, for
the same reason. No client has to send a request, cancel, or wait; nothing forces an error or
a restart. `MigrationClient` assumes it of what browser, network and server do by themselves: messages that
are on their way, timers, answers of polls and cancellations, the connection coming up, each upload's
procedure and job, the attempts of the restore effect, the ticks of the intervals. Choosing, starting, cancelling,
resetting, leaving and returning, losses and restarts come or not. `RateLimiter` and `UserRequests` carry on
a request that has begun, in the same way; their properties are safety and do not depend on it.

## 4. Proofs

All for arbitrary constants, from the assumptions named in the modules
(`FileQueueAssumption`: ids of jobs and requests differ, each gets some service object;
`NoSourceAssumption`; `BulkImportAssumption`: an upload is named by its job, and every file is one of some table with a
sequence of rows; `RateLimiterAssumption`: finitely many requests, positive limit and window; `UserRequestsAssumption`
and `NoneAssumption`: administrators are users, "none" is neither a user, a call nor a row; the assumptions of the
pages: sizes and bounds are numbers, "none" and the like are not among the values they mark the absence of). Each of
these is evaluated by TLC in a run. Every module of theorems has one invariant per idea, the lemma that
the initial state has it, one lemma per step, and the theorems at the end.

**The queue** (`FileQueueProofs`)

* `TypeCorrect`. `TypeOK` is not inductive, because a counter could pass `MaxFiles`. The invariant
  adds `CountersOK`: the counters add up to the files before the current one, which
  exists while a file is being imported.
* `TokenSafe`. `TokenInv` adds that a source is disposed of only when its task is past the
  finally block, for if that could come earlier a running job would hold a dead token.
* `HistoryTruthful`. `JobOutcome` relates counters to imported files, with
  the first file not imported as witness of a failure; a history row is written once, of a settled
  job, whose outcome no later step changes.
* `OneVerdictPerJob`. The invariant says where the task is when a verdict
  is in the messages; every `Append` but two leaves the verdicts alone.
* `EveryFileAccounted` and `CancelledOnRequest`, for service objects that are not shared,
  as `Program.cs` registers them. Neither is inductive. `JobFiles` says what the marks of a job's files are at
  every place of its task: tried before the current file, queued after it, and behind the loop either all files
  tried or the last one failed with ContinueOnError off, which by `OutcomeInv` makes the status
  CompletedWithErrors. `RequestInv` keeps a queue in the object of its own upload, so that by `NothingShared` no
  request writes marks, and names for every cancelled token a request that reached it.
* `QueueIsUploadJob`: `Spec => Job!Safety`, step by step: every action of the queue is a step of `UploadJob` or a
  stutter. The hard step is the cancellation, which the queue takes in two steps and `UploadJob` in one: `FoundInv` says that a
  request that has found a token found that of a task that has begun, and that the token of a task that is over has been disposed of.
  So a cancellation that takes effect meets a job that runs. `PromiseInv` adds what the other invariants know of a job: what it
  announces (`OneVerdict`) and how that agrees with the files imported.

**The import** (`BulkImportProofs`)

* `TypeCorrect`: what a context tracks are rows of files its request has received.
* `SuccessIsSaved`, `FilesAreWhole`, `HistoryAgrees`, from `ImportInv`. `FileWhole` says of each file of an upload that the rows it
  counts are all in the database (`Saved`), all in the change tracker (`Pending`), or nowhere: `SaveChanges` writes all that is tracked at
  once, and the row loop has ended before anything is saved. A file that has a history row is `Saved`, and so is one called
  "ok" where a second save of the context reports its error. Other uploads write rows of their own only (`ContextOK`).
* `LaterFileIsChecked`, from `SeesOwn`: without a failed save nothing is left in the change tracker between two files, so what
  validation reads is all that the request has imported, and its verdict still holds when the rows are added.
* `CancelInTimeLeavesNothing`, a property of whole behaviours: an upload that was cancelled in time is `Doomed`, it has no row and is not past its
  commit, and every step keeps it so, because a cancelled token stays cancelled and the commit looks at it.
* `ImportIsFileImport`: `Spec => ImplementsFileImport`. The proof found a flaw of the mapping as it was first written: a CASE whose arms
  overlapped, so that the formula did not say which value it had. `Phase` and `Stored` say it without overlap.

**The limiter** (`RateLimiterProofs`)

* `TypeCorrect`, and `NoRefusalInVain`. `LimitInv`: what a request read and filtered are
  requests of its own client, let through within the window before it looked. That holds although
  lists are overwritten, since overwriting only removes.
* `LimitHolds`. Of a client that waits nothing is lost (`NothingLost`): each request that got through is in its list, and was in what a later
  one read, or was out of the window by then, because nobody overwrites the list between its reading and its recording. Of more than
  MaxAttempts requests within a window one was recorded last (`LastOK`), and it found the others, so it would have been
  refused (`BelowOK`).

**Access requests** (`UserRequestsProofs`: `TypeCorrect`, `LastChangeStandsAlways`, `DecisionSigned`, `AnswersTruthful`)

* `ReadOK` is the central part: unless a change was saved since, the row is
  still as a call read it. A call that saves cannot be in the "before" of any other, so every other change of
  that request loses the claim to be last; and if it saw all others itself, the row is as it read it, and writing the changed columns
  gives exactly the copy. `SignedOK` says that a row that was signed when it was read stays signed, so a second review by the
  same person, whose ReviewedBy column is not written, still leaves a reviewer.

**The migration client** (`MigrationClientProofs`)

* `NoFalseVerdict`. `ComingInv`: a message or a timer that reports an end tells how its job ended, and that does not change
  any more. `VerdictInv` says of the upload started last, if nothing of an earlier one could reach the page when it was started:
  all that is on its way is its own (`Apart`), and what is shown is true of it (`TrueOf`). It needs `InTurn`, since uploads start one
  after another. `Told` lists all that a step can show. Without `~overlap` the statement is false of the code.
* `OneMonitorHolds`. `MonitorInv`: on a page that was never left the interval that ticks is the one that is held, since every start and every
  render clears the one it replaces.
* `StaysWatched`. `Watched` is inductive once everything is typed. A render that updates the context leaves the group, and puts the job it shows among
  those to join again (`UpdateWatches`); the other steps hand the job from the upload procedure to the group or to the poller.

**Session and connection form** (`SessionProofs`, `ConnectionFormProofs`)

* `SessionSettles` and `SignOutIsFinal`, from `SessionAssumption`. A token is either the
  stored one, or something is still in flight that will set both or clear both (`SameToken`); a token without its user waits for a profile
  (`Owned`), and the login page is left once a token is there. A sign-out is final because
  every action either gives the token up, leaves it alone, or takes it from storage or from an answered
  sign-in, and storage was emptied with it.
* `AuthAlwaysOffered` and `SecretsAlwaysSurvive`, from `FormAssumption`. The lemma
  `DefaultIsOffered` shows that two independent tables, the default authentication and the options of each
  of the types, agree. `UpdateTyped` says of every field what an update can make of it.

**The other pages** (`ClientProofs`). Each page has an invariant of its own, with the lemmas that its module begins with it and that every
step of its module keeps it. `ClientInv` asks of a state of `Client` the invariant of the page that `part` names; `ClientBegins` and
`ClientMoves` say that this page begins and moves as its module does, so the theorems are about `Client`, which TLC runs. The
assumptions of the pages come from `InstanceAssumption`.

* `SavedOnce` (roles and applications). `SaveInv`, and `RoleWaits` for roles: a form that is not busy has no save in any slot, and one that is has exactly
  one; closing and reopening keep `busy`, which is why it holds.
* `RoleMadeOnce`. `RowsOwed`: the creations the page has lost are at most as many as the faults, and so are the rows of
  a name beyond its first, those counted that a creation has found missing and is about to add. The one creation the page waits
  for can add a row only where nobody else has, or beside creations the page has lost; that there is one is `RoleWaits`, which
  gives `OneSave` as well. `OneMore` counts a set that gains an element.
* `LoadingIsOver`. `LoadingInv`: while the page says that it is loading, a function runs that ends in clearing it; this needs that without a fault
  no answer is a refusal (`RepliesOk`).
* `PreviewOnPage`. `PreviewInv`: without a removal the rows only grow, so the page stays within `TotalPages`; `PagesCounted` and
  `PageBegins` are the arithmetic.
* `DataFollowsFiles`. `DataInv`: as long as no call met data that had changed, at most one call of `processFiles` is at an await, and either the
  page or that call, which will write it, has the rows of its parsed files (`Matches`); what the call has still to parse is listed, differs
  and is not in its data (`Parsing`), so no file is parsed twice. The chosen files that are valid and the rows after a removal are joined from
  pieces by `FlattenSeq`, a recursive function, and what it computes is proved by induction: `NatInductive` is the principle for a *set* of
  numbers, from `WFMin` of the library (a set without a least element is empty), since a principle for an operator could not be
  instantiated. `JoinedUpTo` gives the function, `FlattenCounts` counts in it, and `JoinedRows` says that pieces of different
  files keep their lengths, which `RowsMatch` uses for the rows and `ValidOnce` for the files chosen. TLC checked `DataInv` on the
  instance of the run `client` before it was proved.
* `SubmissionsAreSent`. `DialogInv`: the tool in the dialog is one of the category chosen, or none; so a tool that enables the button is found.
* `DismissedForGood`. `BellInv`: an entry for a dismissed job is of a migration under way. It rests on `FollowedKinds`, the
  three things that following a report can leave behind.
* `LinksTellTheTruth`. `VerifyFits` and `ResetFits` relate a page to the requests it has under way: a page that verifies has one at most, since the
  effect runs once, and that request is granted exactly when it made the account; a page that resets has one at most while
  no answer was lost, and it carries the password asked for last. `PeopleFit` counts accounts by stage, so overlapping
  verifications of one registration cannot both succeed.

Only model-checked:

* liveness, which is out of the proof system's reach: `EveryJobEnds`, `EveryUploadAnswered`, `ProcessingEnds`, and with it the fairness part
  of `ImplementsUploadJob`.

## 5. Assumptions and limits

* SQL Server is atomic per `SaveChanges`, and a query sees what is committed.
* `Program.cs:74` configures `EnableRetryOnFailure`; Entity Framework refuses queries inside a transaction the
  program opens itself under such a strategy. The import's mappers query inside one
  (`UserApplicationTableMapper.SaveRowAsync`), and so do all users of `TransactionService`. The modules take the transaction as
  working, which is what the code is written for.
* One server process: the token table, the queues and the rate limits are in memory. One browser tab: other tabs
  share its local storage, which is not modelled.
* Percentages and texts of progress messages, audit details, templates and file formats are left out; so are the folding of
  menus and the values typed into the recovery form.

Things the models show for which no document or test says what should happen, so that no property is stated:

* the answer to a deletion marks the dialog of whatever item is open by then as deleted (`Applications.tsx:690`);
* an edit shows the type of a connection by a name that falls back on SQL Server's (`Applications.tsx:72`);
* a sign-in reports success although the profile could not be loaded;
* a reset link can be used again: the `IsUsed` flag of the recovery request is never read (`UserAccountService.cs:174`);
* the redirect of `ResetPassword` is set, and fires, also when the page was left;
* a verification page whose answer was lost shows an error although the account was made;
* with uploads that overlap, the verdict or the cancellation of the earlier one is shown on the later
  (`UserProvisioning.tsx` 501, 1142), because no handler looks at the job it is told of;
* every creation of a role is announced as a failure, and a name is doubled when one that was lost is repeated while the
  server is still at it; two administrators at once can double it without any loss, which one page does not show.

Not modelled, and why (`PROJECT.json` has it by component):

* the accounts page asks `/settings/user/all` (`api.ts:154`) where the server has `/settings/user/admin/all`, and the
  controller's answers would be wrapped twice: it never shows an account, so its filters, paging, freezing and deletion
  are never used;
* of the roles page likewise the list, its paging, the change and the deletion of a role;
* the connection strategies and dashboards are I/O or display without state;
* `BulkUploadService` and `SqlServerBulkInsertService` are not what `Program.cs` gives the controllers;
* nothing renders `UserProvisioning_cleaned.tsx`, `Signup.tsx`, `NotificationContext`, nor the account modals for creation and deletion;
  `processBulkMigrationFallback` (`UserProvisioning.tsx` 961-1096) is never called, nor are the `update` functions of `migrationStorage`;
* the indicators of a migration (`GlobalMigrationIndicator`, `MinimizedMigrationIndicator`, `MigrationStatusIndicator`,
  `ProgressNotification`) only render its state;
* of modelled pages: the password form of `VerifyEmailPage` (it needs an answer with a temporary user, which this server never gives),
  and the status filter of the request list;
* log and settings pages are one load or one form, with no behaviour the modelled pages lack; website pages only display.

## 6. Plan

Done: 1. `JobCancellation`, `FileQueue`, `UploadJob` with proofs. 2. `BulkImport`, `FileImport` with proofs.
3. `RateLimiter` with proofs. 4. `UserRequests` with proofs. 5. `MigrationClient`, `FileSelection` with proofs. 6. `Roles`, `PagedList`,
`Applications`, `ConnectionForm` with proofs. 7. `Session` with proofs. 8. `RequestsPage`,
`NotificationBell`, `AccountLinks` with proofs. Every safety property that a run expected to pass checks is a theorem, and
so are the refinements but for the fairness of `UploadJob`.

Next:

9. On the server, the sharing of a connection by several users (the count and the deletion of
   `ApplicationNavigationController.cs:248`), temporary users under provisioning, and the log rows of refused operations.
