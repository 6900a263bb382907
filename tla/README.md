# TLA+ models of the NestJS monolith boilerplate

This directory holds formal models of the parts of the application whose
correctness depends on the order in which things happen: the import of tasks
from CSV files through two BullMQ queues, the cutting of an upload into jobs by
a paused and resumed stream, the device sessions behind the JWT refresh flow,
the `state` of the OAuth prompts, the profile update with its queue of pictures,
the pages of the task list, and the tokens a client holds. Every definition is a
translation of the TypeScript code; the file `PROJECT.json` names, for each, the
lines it stands for. Two abstract specifications say what an upload and a
session table promise, and each is implemented by two of the detailed models.
The safety properties of all seven detailed models, and the refinements, are
proved by TLAPS for every instance; liveness is model-checked. Paths below are
those of the repository (`src/api/...`).

## 1. The system

| Component | State | Operations | Talks to |
|---|---|---|---|
| CSV upload stream (`api/file/file.service.ts`) | the array `records`, the stream's pause flag, jobs in flight | `create`, `parseCSV`, the `execute` callback | insert queue |
| CSV task import (`api/file/processor`, `file.module.ts`) | insert queue and report queue in Redis, table `tasks` | `process`, `onWOrkerCompleted`, `onWorkerFailed` of the insert worker; `process` of the report worker | table, both queues |
| Device sessions (`api/auth/auth.service.ts`, `modules/guard/guard.controller.ts`, `guard.service.ts`) | tables `auth` and `users` | `oauth2`, `refreshToken`, `signOut` | tables, clients' cookies |
| OAuth state (`modules/guard/guard.decorator.ts`, strategies in `oauth/`) | cache entry per provider and address | prompt, callback | cache, providers |
| User profile and pictures (`api/user`) | `users.phone`, `users.image`, image queue, bucket | `update`, `user-image.processor` | table, queue, S3 |
| Token guards and roles (`modules/guard/strategies`) | none; clients keep cookies or tokens | accept or refuse a request | sessions |
| Task CRUD, pagination (`api/task`, `common/base`, `common/pagination`) | table `tasks` | create, read, list, update, remove | table |
| Errors and filters, upload forms (`common`, `modules/prisma`) | none | map exceptions to answers | all controllers |
| S3/CloudFront, Stripe and webhooks | none of their own | SDK calls | external services |
| Configuration, documentation, metrics, i18n, bootstrap | none | start-up | - |

Requests are served by one Node.js process: JavaScript runs to the next `await`,
so two requests interleave only at awaits, and whatever was read before an
await is a copy. BullMQ jobs interleave with requests and with each other, are
retried, and are taken up again after a crash by the stalled check. Node ends
the process on an unhandled rejection, which makes an un-awaited `queue.add`
or a rejecting event handler a crash.

What makes each part correct, and what is hard about it:

* **Import.** Every batch is inserted, and once; an import ends in exactly one
  report that tells the truth; a failure removes what was inserted. Hard:
  batches run four at a time and are retried, reports start in event handlers
  that nothing makes durable, and rows are found again by user and date only.
* **Stream.** Each row lands in one job, in order; array and jobs stay at one
  batch (the buffered upload and the parser's queue are as large as the file);
  the stream never stays paused. Hard: `pause` does not hold back an `end` event
  that is already scheduled, and a file may be found broken only after several
  of its batches were accepted.
* **Sessions.** A signed-out, deactivated or rotated session is not accepted;
  devices do not disturb each other; rotation does not change the expiry;
  one account per address. Hard: every operation reads, then signs and hashes
  for some time, then writes without a condition.
* **Clients.** A client that does one thing at a time holds the pair the server
  stored, and cookies last as long as their tokens. Hard: two tabs refresh at
  once, answers overtake each other or are lost after the session was written.
* **OAuth state.** A callback is let through only for the prompt of its
  caller, once, in time. Hard: get and delete are two awaits on a key that
  everyone behind one address shares, the set is not awaited, and the cache may
  drop an entry or end with the process.
* **Profile.** A profile that names an avatar gets one, a newer picture is not
  overwritten by an older one, a 409 tells what was done. Hard: lookup, queue and
  write are three awaits, the queue retries, pictures are converted side by side.
* **Task list.** Following `meta.next` shows every task once. Hard: a page is
  two statements in no transaction, without an order, over a table that changes.

## 2. Modules

| Module | Models |
|---|---|
| `UploadRequest` | abstract: what `FileService.create` promises the queue and the client |
| `ImportPipeline` | insert queue, workers, event handlers, report queue, rollback, crashes; implements `UploadRequest` |
| `CsvStream` | `create`, `parseCSV` and `execute` over one file; implements `UploadRequest` |
| `SessionTable` | abstract: what `AuthService` promises of the table `auth` |
| `AuthSession` | `oauth2`, `refreshToken`, `signOut` over `users` and `auth`; implements `SessionTable` |
| `ClientSession` | a client's cookies and tokens, the JWT guards, and one session as it changes under it; implements `SessionTable` |
| `OauthState` | `GuardOauth2Session` and the redirect handlers |
| `RequestGate` | forms, bodies and queries as interceptor and pipes see them, and the status of an error: operators used by `CsvStream`, `UserProfile` and `TaskStore` |
| `UserProfile` | `UserService.update` and `getOne`, the picture queue, the bucket |
| `TaskStore` | `TaskService` and the paginator over the table `tasks`, a client following the pages |
| `...Proofs` | theorems about the module named, the refinement of its abstract specification among them |
| `ListLemmas` | the wait list of a queue: what it holds, each job once, who is ahead of whom; and the parts of a list that pages are; used by the proofs about both job queues and about `TaskStore` |
| `MC...` | instances for TLC: sets of batches per import, symmetry |

### The abstract specifications

`UploadRequest` is where the two halves of an import meet. A request reads,
hands batches to `queue.add` one at a time (`Batch`), is answered with the last
one handed over and not yet arrived (`Answer`), or refused with what was handed
over left in the queue (`Refuse`); Redis accepts in the order of handing
(`Accept`), and the batch is flagged `last` exactly if the client was answered
and it is the final one; `Lose` is a crash. `CsvStream` implements it with
`handed` the jobs in flight and accepted, `accepted` the accepted ones, `whole`
whether one of them is flagged. `ImportPipeline` starts from batches, and
implements it with `sent`, with the jobs that have left the state `absent`, and
with that of `Last`. The second model may therefore take for its input what the
first promises as its output, and no property of jobs is assumed in between.

`SessionTable` has a table from sessions to a token or none, the slots serving a
sign-in, and the refreshes that were accepted. `Write` lets a request that was
let in write one new token, to the session it was let in for and to no other;
`SignOut` closes an open one. `AuthSession` implements it with `stored <- auth`
(all users and devices), `ClientSession` with its one row under the name
`"device"`. That a sign-out is final is no part of it: the code does not promise
that (section 5).

### ImportPipeline

`upload` and `sent` follow a request through `FileService.create`. A batch is a
pair (import, number); the last one carries `last: true`. `StreamBatch` is the
awaited add of a full batch, `Respond` the answer to the client, `LastAdded` the
arrival of the un-awaited last add. `Start` takes the head of the list if one of
the `Slots` is free; `Insert` is the commit of `createMany` and `Complete` the
return of `process` after it, so that a crash or a lost answer can come between
them. `Reject` is a file found broken: the request ends, the batches stay.
A batch of fresh ids is written whole each time; a file with a column `id`
(`Keyed`) sends it to `createMany` through `...item`, and `skipDuplicates` then
drops what the table has: `Copies` says how many copies an insert may add.
`InsertFails` is a rejected attempt, with or without a commit. `Promote` ends
the backoff, `Reclaim` is the stalled check. `Emit` is the `if (job.data.last)`
of both handlers, which then do `Count` and `AddReport`, each an await.
`StartReport`, `Rollback`, `FinishReport`, `RollbackFails`, `ReclaimReport` are
the report worker. Rows are counted per batch in `rows`; `CountRows` and
`Rollback` select them as the code does, by user and date. `notices` are reports
whose `process` returned, which is where the code would tell the user;
`lostReports` are those that did not come so far, a rollback whose `deleteMany`
rejected or a report a crash took before it was queued.

The rate limiters only delay jobs, which the model allows anyway; the expiry of
finished jobs concerns nothing that is read again.

### CsvStream

Rows are numbered; `Read` is one turn of the stream's flow loop, `Push` and
`Flush` the two branches of `execute`, `FlushDone` its continuation. What Node's
streams and csv-parse contribute is stated at the head of the module. The
upload is one buffer, parsed at once into the parser's read queue (`Queued`).
Its source ends after the first rows (`SourceEnd`), but the parser is flushed
only when its queue is below the high-water mark or a read brings it there
(`Due`); then `ParserEnd` pushes a last row without newline and the end. `end`
is scheduled by the read that empties the queue of an ended stream. The ticks of
the stream run before an answer from Redis is looked at (`Idle`).

`Ends` says how a file ends: well formed with or without its last newline
(`closed`, `open`), with a quote left open (`quote`), or with a row of the wrong
number of columns somewhere (`columns`). The last fails the write of the buffer,
before any row is delivered; a quote left open is found when the parser is
flushed (`Broken`), which for a long file is after all its rows but the last
`HighWater` were delivered, and their batches accepted. `ParseError` ends the
request, and leaves those batches where they are.

`Receive` lets the upload in: `Forms` are the bodies clients send,
`UploadInterceptor`, `FileCreateDto` and `Buffered` (`toBuffer`, which an array
of two files does not have) decide between reading and refusing.

### AuthSession

A request slot holds what a handler keeps between two awaits. A token pair is a
record with a number, which stands for the signed string and its hash, so
`scryptVerify` is equality of numbers and `jwtid` a fresh number. `auth` maps
(user, device) to the number stored or to null. `refreshToken` is
`RefreshRead`, `RefreshSign`, `RefreshStore`; `signOut` is `SignOutRead`,
`SignOutStore`; `oauth2` is `OauthRead` and one of `OauthKnown`, `OauthNew`,
`OauthRefused`. `SetActive` is an operator: no code of the repository changes
a status. The variables `stale`, `out` and `retired` and the fields `parent` and
`asked` of a pair are history, read by properties only.

### ClientSession

`carrier` says whether a client is a browser (cookies), an app (the header) or
sends both. `Send` takes what `jar` and `app` hold at that moment; `Guard` is the
strategy and `handleRequest` (`Presented`, `Refused`, `Passed`), with the code
that `HttpExceptionFilter` answers; `Verify`, `Sign`, `Store` are
`refreshToken` (a sign-in enters at `Sign`), `Revoke` is `signOut`, for an
active user. `Deliver` hands the answer to the client, `Lose` ends a request
anywhere. The server's side is one row of `auth`; races between its steps are
those of `AuthSession`, and here they are seen together with the answers.
`trouble` is history: the last change of the session was answered to one of
several requests, or its answer was lost. `closed` is the time of the last
sign-out.

### OauthState

`cache` holds one state per key with its expiry, in the process or in Redis
(`shared`, chosen at the start as `ioredis.enable` is). `Prompt` and `Declined` are the
prompt branch (a callback without `code` takes it too), `CallbackGet` and
`CallbackDelete` the two awaits of the callback branch; then passport exchanges
the code for a profile (`Exchange`, `ExchangeFails`: `validate` of the
strategies), and only after that the handler looks at `req.state` (`Redirect`,
`StateInvalid`). `Abort` ends a callback anywhere.

Nothing keeps the cache. The set of a prompt is not awaited: with Redis it may
fail after the client was redirected (`StoreFails`). An entry may be evicted
(`Evict`), by the LRU at its maximum or by Redis. `Restart` ends the process,
the callbacks under way and, unless it is Redis, the cache. `used` and `lost` are
history: states whose key another request wrote or deleted, and states the cache
did not keep.

### RequestGate and UserProfile

A field of a form or query is the sequence of its parts, because a client may
send one name twice and handlers then get an array; a body is a function from
names to values. `IsContainMimeType`, `ApiPaginateLimit`, `IsSwaggerString` and
the rest are the decorators of the dtos, `Whitelist` what the pipe leaves out,
`Transforms` the conversions that throw inside the pipe, `PaginationQuery` the
status a list query is answered with, `PrismaStatus` and `Status` the filters.

In `UserProfile`, `Served` is what the handler is given of each form that
`UploadInterceptor` and `Accepted` (`UserUpdateDto`) let through; the others are
answered 400 and change nothing. `Receive` starts an update with it, `Lookup`,
`Queue` and `Write` follow it; `Conflict` is the 409 the next step ends with, of
the lookup or of the unique index, and `Fails` is any other rejection, before or
after the queue or the database has done what it was told. `Link` is the link
`getOne` and `update` answer: `SignURL` signs whatever `users.image` holds, and
only the name of an avatar leads to the bucket. The worker side has `Start`,
`Complete`, `JobFails`, `Promote`, `Reclaim` and `Crash`, in the same shape as
the import, with the key of each user in `object`; a failed upload may still
have replaced it (`UploadRejects`). The field `beside` of a job is history: it
was started while an older one of the same user was running.

### TaskStore

`tasks` is the table in the order of its scan. `Create`, `Update`, `RemoveTask`
are the operations of `TaskService`, `Import` and `Rollback` the two statements
of the import processors on the same table. `Bodies` are the bodies clients send,
with fields that are not theirs to set; `Created` and `Updated` are what
`TaskCreateDto`, `TaskUpdateDto` and the whitelist leave of them. `Queries` are
the list queries, `Used` what the handler uses of one: an export is one page
without `meta`. Without `orderBy` the order is the
database's: a row is inserted anywhere, an update moves it, `Replan` gives the
scan any order. A scan of some of the rows goes through their positions from low
to high (`InOrder`), which gives a client its `Own` rows and a rollback the ones
it leaves. `walk` is a client that asks for page after page (`Begin`,
`Ask`); `Count` and `Find` are the two statements of one page, in either order,
and `Answer` their result. `happened` is history: what befell the client's own
rows during the walk.

## 3. What the runs show

Properties are defined at the end of each module, each after a comment that
states it. Runs that end with a counterexample are marked "violated".

| Run | Instance | Shows |
|---|---|---|
| `import_two` | two imports of one user, one and two batches, distinct dates, the second file with a column `id`, a lost answer | `ReportsAreAboutTheLastJob` as it ended; `CommittedRowsSurvive` the rollback of the other import; `SuccessCountsTheLastBatch`; `BatchesStartInOrder` |
| `import_live` | two batches, a crash, a lost answer, the file broken or not | copies of a batch are owed to lost answers one by one, runs are bounded, leftovers need a lost rollback, `EveryBatchSettles`; an import nobody is told about lost a failure report to a rejected `deleteMany`, or a report to a crash (`UntoldOnlyIfLost`); implements `UploadRequest` (`KeepsTheContract`) |
| `import_rollback`, `import_outcome` | small imports | violated, see section 5 |
| `csv_stream` | all forms; all files of 0 to 11 rows and each of `Ends`, batches of 3, a high-water mark of 2 | `JobsCutTheFile`, `RecordsAreBounded`, `UploadEnds`; implements `UploadRequest` (`KeepsTheContract`) |
| `csv_boundary` | the same | violated, see section 5 |
| `auth_session` | one address, two providers, two devices, two request slots, three pairs, two seconds | one account per address, retired pairs stay retired, expiry drifts only by the time a request took, only stale reads serve a deactivated user; implements `SessionTable` (`TableIsImplemented`) |
| `auth_sign_out` | one device | violated, see section 5 |
| `client_session` | a browser, an app or both, two request slots, three pairs, two seconds | an undisturbed client holds exactly the stored pair, cookies outlive their tokens, access ends one access age after a sign-out at the latest; implements `SessionTable` (`TableIsImplemented`) |
| `oauth_state` | two keys, two callbacks in flight, three states, both caches | only an undisturbed prompt, in time and from its address, is let through (`OnlyTheLastPromptMatches`); such a one is refused only if another request used its key or the cache lost the state (`RefusedOnlyIfUsedOrLost`) |
| `user_profile` | two users, one number, two pictures, two slots, two children, a crash; two pictures in one form come without a number | avatars are on their way, an older picture replaces a newer one only after a retry or a start side by side (`NewerPicturesWin`), a 409 means a taken number and tells whether the picture was queued |
| `task_pages` | two users, three ids, sizes 1 to 3 of which 3 is too large, two pages at most, one upload, bodies and queries of every kind | an undisturbed walk is exact; misses need a removal, a move or a race of count and read; repeats need an insertion or a move; only what is beyond the last page is refused; no edit changes the owner or date by which a rollback finds rows (`RowsKeepTheirKey`) |

Each passing run except `import_live` also checks the `TypeOK` of its module.

**Bounds.** `MaxCrashes`, `MaxLost`, `MaxRows`, `MaxTokens`, `MaxPairs`,
`MaxStates`, `MaxPictures`, `MaxTime` and the number of ids in `TaskStore` are
the only bounds the code does not have; `MaxPage`, `Sizes`, `Limit`, `HighWater`, `Slots`,
`Concurrency`, `Attempts`, `TTL`, `RefreshAge` and `AccessAge` are settings of
the code made small (`Limit` is 2: a batch is sent when a row finds more than
`Limit` waiting, which gives batches of three; `HighWater` is 2 for Node's 16,
less than a batch as 16 is less than 10 001, so that a quote left open is found
after the batches before). Two slots and two batches are
enough for a batch to overtake another and for a retry to race the last batch.
Eleven rows with batches of three reach the third flush and every remainder, and
the boundary case needs more than two batches. Two request slots give every race
between two operations, three pairs a rotation of a rotation. `MaxTime` of two
seconds with a refresh age of two and an access age of one lets each token
expire while a request is under way.

Three rows with pages of one and two rows and two pages at most give full, partial
and missing last pages, and rows beyond the limit; the third size is refused.
Two pictures and two children let a newer picture start beside an older one, and
a retried one end after a newer one. The theorems of section 4 remove every bound
from the safety properties; the runs remain because liveness is theirs alone, and
because their mutants show that each property can fail.

**Deadlock** is not checked: an import that is over, an upload that was
answered, or an exhausted bound leaves the system with nothing to do.

**Fairness** is stated in `FairSpec` of `ImportPipeline` and `CsvStream`, and is
weak throughout: the event loop runs what is runnable, Redis and the database
answer, workers poll the list, the delayed set and the stalled check. It never
forces an attempt to succeed: `Insert` and `InsertFails` share one fairness
condition, and so do the outcomes of a report. Crashes are never forced.

## 4. What is proved

All theorems hold for any values of the constants that satisfy the `ASSUME` of
the module (positive ages, limits and attempts, natural bounds, at least one
batch per import) and for nothing else assumed.

| Module | Theorem | States |
|---|---|---|
| `ImportPipelineProofs` | `TypeInvariant`, `ReportsTellTheTruth`, `CopiesAreOwedToLostAnswers`, `RunsAreBounded`, `RollbackSparesOthers`, `TotalsCountTheLastBatch` | `TypeOK`, `ReportsAreAboutTheLastJob`, `CopiesNeedALostAnswer`, `ExecutionsAreBounded`, `CommittedRowsSurvive`, `SuccessCountsTheLastBatch` |
| | `StartsInOrder` | `BatchesStartInOrder` |
| | `LeftoversAreLostRollbacks` | `LeftoversNeedALostRollback` |
| | `ImportKeepsTheContract` | `ImportPipeline` implements `UploadRequest` |
| `CsvStreamProofs` | `TypeInvariant`, `RecordsStayBounded`, `FilesAreCut` | `TypeOK`, `RecordsAreBounded`, `JobsCutTheFile` |
| | `StreamKeepsTheContract` | `CsvStream` implements `UploadRequest` |
| `AuthSessionProofs` | `TypeInvariant`, `OneAccountForever`, `RetiredForever`, `LifeOnlyDrifts`, `InactiveOnlyByStaleReads` | `TypeOK`, `OneAccountPerEmail`, `RetiredPairsStayRetired`, `ExpiryOnlyDrifts`, `OnlyAStaleReadServesInactive` |
| | `TableIsKept` | `AuthSession` implements `SessionTable` |
| `ClientSessionProofs` | `TypeInvariant`, `OneAtATimeAgrees`, `CookiesKept`, `ClosedSessionsEnd`, `TableIsKept` | `TypeOK`, `ClientAndServerAgree`, `CookiesOutliveTheirTokens`, `AccessEndsWithItsAge`, `ClientSession` implements `SessionTable` |
| `OauthStateProofs` | `TypeInvariant`, `LetThrough`, `Refused` | `TypeOK`, `OnlyTheLastPromptMatches`, `RefusedOnlyIfUsedOrLost` |
| `UserProfileProofs` | `TypeInvariant`, `AvatarsArrive`, `ConflictsTell`, `NewerWin` | `TypeOK`, `AvatarIsOnItsWay`, `ConflictsTellWhatWasDone`, `NewerPicturesWin` |
| `TaskStoreProofs` | `TypeInvariant`, `UndisturbedIsExact`, `MissedOnlyThen`, `RepeatedOnlyThen`, `RefusalsAreBeyond` | `TypeOK`, `UndisturbedWalkIsExact`, `MissedOnlyByRemovalOrRace`, `RepeatedOnlyByInsertionOrMove`, `RefusedOnlyBeyondTheLastPage` |
| | `KeysStay` | `RowsKeepTheirKey` |

None of the invariants is inductive alone; each module has an inductive `IInv`
that says what the code relies on without saying so.

* **ImportPipeline** (`IInv` at the end of the module). To `TypeOK` and the
  properties come `QueueOK` (the list holds exactly the waiting jobs, each once,
  so that starting the head takes a job no slot holds), `AttemptsLeft` (a job
  that waits, is delayed or stalled has used fewer runs than its budget of
  attempts and stalls, which keeps the bound after the next `Start`), and
  `CommittedRowsKept` (the rows of a committed or completed batch are there
  unless a last batch of the same key has failed before or the file brought ids,
  which a success count relies on). `StartsInOrder` needs positions in the list: by `OrderOK` a
  batch that was never taken waits ahead of its successor, retries and stalls
  moving only batches that were taken. `LeftoversAreLostRollbacks` follows a
  rollback from the event to the deletion (`LeftoversOK`): until it has deleted
  the rows it is an event, a counted or queued report, the one in process, one
  that a crash left to the stalled check (which starts over), or lost;
  `FreshReports` says that no report has deleted anything before it is processed.
* **CsvStream.** `ParserOK` says when `end` may be due, `CountOK` that what was
  delivered is in a job, in the array or held, and `CutOK` that the jobs are the
  file's consecutive batches. `CutOK` breaks exactly where the last row itself
  fills a batch that is not the first, hence `LastRowFlushes \/ CutOK`; the
  bound and the contract hold for those files too, and for broken ones.
* **AuthSession.** `PairsOK` (numbers are drawn in order, each once), `AccountsOK`
  (accounts have distinct numbers, each that of a pair), `TableOK` (what a session stores
  is one of its own pairs), `RequestsOK` (what a slot keeps between two awaits is
  a session, a pair of it, a user whose provider has not changed; a pair not yet
  stored is nowhere else), and `FreshOK` (a slot not
  in `stale` has the status as it is).
* **ClientSession.** `AgreeOK` is the heart: while one request changes the session
  alone, the client holds what was stored before it, or the answer on its way is
  what is stored now. `ClosedOK` says that while the session is closed no pair the
  client has was signed since; `RequestsOK` and `ClientOK` bound the ages of what is under
  way and kept; `FieldsOK` says which fields the record of a request has.
* **OauthState.** `PromptsOK` (one prompt per state), `CacheOK` (what a key
  holds belongs to its last prompt, untouched since),
  `KeptOK` (a prompt's state that nobody touched and that is not in `lost` is
  still in the cache). A restart with the LRU is an eviction of every key.
* **UserProfile.** `QueueOK` is that of the import. `OrderOK` says that a picture
  never taken waits ahead of the newer ones never taken, `BesideOK` that a newer
  one that has started while an older one of its user runs is marked as such, and
  `BucketOK` relates the bucket to the jobs that may have written it;
  `NewerPicturesWin` is a statement about one step from all three. `TableOK` and
  `RequestsOK` carry `AvatarIsOnItsWay` and the 409s: a name in the table was
  written by an update whose picture had been queued, and a request past its
  queue step has a job to show for it.
* **TaskStore.** The table comes first: `Traces` gives each row after a statement
  the place it had before, or none if it is new, and from it follows what a
  statement does to the list of one user. The lists of others stay equal; an
  insertion makes the owner's list `Later` (each task at its place or further
  on), a deletion the same the other way round, and an edit or a reordered scan
  is noted as "moved". Then the walk: `Exact` says that with nothing noted the
  pages so far are the beginning of the list; `Missed`, that with insertions
  only every task of the start that is among the places passed has been shown,
  and that the count is still that of the list until the page is read;
  `Repeated`, that with removals only what has been shown is among the places
  passed. The three properties speak of walks that are done and none of them is
  inductive: the page read next has to be compared with the places passed, not
  with the pages shown. `WalkOK` carries the offer of the next page, from
  which `RefusedOnlyBeyondTheLastPage` follows by arithmetic, and `TableOK` that
  ids are unique, without which an edited row could be taken for another.

A step lemma has one step per action, and under it one per conjunct the action
disturbs; actions that leave the variables of a conjunct unchanged are covered
together. The refinements show that the initial states map to initial states and
every step to a step of the abstract specification or to none: `LastOK` of
`CsvStreamProofs` adds where the flagged batch can be, and
the end of `ImportPipelineProofs` counts the jobs that have left `absent`, a prefix of the
batches, with the theorems about finite sets.

Only model-checked: liveness (`EveryBatchSettles`, `UntoldOnlyIfLost`,
`UploadEnds`), which the prover does not do under fairness. Every other
property of a passing run is the statement of a theorem.

## 5. Where documents and code part

Each of these is a run that ends with a counterexample:

* **`import_rollback`** A batch other than the last that fails for good causes
  neither rollback nor report (`README.md:74`).
* **`import_outcome`** `failed` is emitted after each attempt: an import whose
  last batch is retried is reported as failed, rolled back, and then reported
  as a success (`README.md:75`).
* **`csv_boundary`** For files with N rows, N = 1 modulo 10 001 and N > 20 002,
  `end` overtakes the last flush: its batch is sent twice, the last row never.
* **`auth_sign_out`** A refresh under way undoes a sign-out
  (`src/modules/guard/README.md:126`).

Met while modelling, and visible in the definitions without a run of their own:

* An import is reported as a success when its last batch completes, whatever
  became of the others (`Emit`, `README.md:75`).
* An import may be reported to nobody: the notice of a failure stands behind an
  `await deleteMany` in a job with one attempt
  (`file-task-report.processor.ts:19`, `file.module.ts:26`), and a crash between
  the end of the last job and its handler's add takes the report with it
  (`README.md:75`). `UntoldOnlyIfLost` says that there is no third way.
* A file with a column `id` has its rows written under those ids, and those that
  are taken are skipped without a word, in a job that completes (`Copies`;
  `file-task-insert.processor.ts:23`).
* An upload refused for its content leaves the batches it had already queued,
  all but the end of a long file when a quote is left open, and no job of it is
  the last, so that nothing rolls them back (`Reject`, `ParseError`;
  `README.md:74` has "rollback if any error").
* By default the OAuth state is kept in the LRU of the process
  (`common.module.ts:18`): a restart, an eviction, or with Redis a set that fails
  un-awaited (`guard.decorator.ts:82`), and a client that did everything right is
  refused (`lost`).
* `oauth2` signs the role `USER`, whatever `users.role` is
  (`auth.service.ts:85`).
* A rotated pair expires later than its parent by the time the request took
  (`ExpiryOnlyDrifts`; `src/modules/guard/README.md:58` has "without change time
  expire").
* The refresh handler reads the cookie `refresh-jwt` while the responses set
  `refresh_token`: a web client without the header gets a TypeError
  (`RefreshRead`, `Passed`; `guard.controller.ts:35` has "If a web").
* A new user is created `INACTIVE` and still handed a pair, which it can neither
  refresh nor sign out (`OauthNew`).
* A converted picture keeps the content type of the upload
  (`user-image.processor.ts:36`; `README.md:70`), and of two pictures of one user
  the one whose job ends last stays, not the one sent last (`NewerPicturesWin`
  says when).
* The child process of the picture queue makes its `S3Service` with `new`, without
  the module that names its logger: an upload that fails ends in a TypeError
  of the error handler rather than in `UPLOAD_FAILED`. The job fails either way
  (`JobFails`).
* The image of an OAuth user is a full url and is prefixed and signed like a key of
  the bucket (`SignURL`).
* The list answers through `res.send`, past `HttpInterceptor`: clients get the
  paginator's `currentPage`, `lastPage`, `perPage`, and not the `page`, `last`,
  `size` of `pagination.response.ts`.
* An export is the data of one page and no more (`Answer`).
* Of two files under one name `IsContainMimeType` approves, and `toBuffer` then
  fails with a TypeError; a phone number sent twice is dropped (`TextOf`, `Add`,
  `Buffered`).
* A query with `filter` or `search` twice, or with a `sort` that is no JSON, is
  answered 500 and not 400 (`Transforms`); a `null` passes the optional fields of
  an update, and Prisma refuses it with 500 (`Updated`). A title longer than the
  column is Prisma's P2000, 400 (`PrismaStatus`).
* Sorts, filters, searches and dates of a task query are validated and then used by
  nothing (`Used`).
* Page 101 is refused even when page 100 offers it as `next` (`Ask`).

## 6. Not modelled

* Stripe and the webhooks: their handlers only log.
* Configuration, documentation, metrics, translations and bootstrap declare things
  and have no behaviour of their own. An orderly shutdown is a special case of
  `Crash`: nothing waits for the workers.
* S3 beyond `upload` and the link (`remove`, `download`, `getSignCookie` have no
  caller). `getOne` of tasks reads one row. Of the error filters the codes and
  statuses are modelled, not the wording and its translations. No route has
  `@Roles`, so `RoleGuard` passes every request. `HttpInterceptor` has no effect
  on the list, the only pages there are.
* Rate limiters, which only delay jobs, and the expiry of finished jobs, which
  nothing reads again.
* BullMQ, Redis, PostgreSQL, Node's streams, csv-parse, sharp, passport and the
  providers are represented by the steps their callers see, marked external in
  `PROJECT.json`.

## 7. Plan

Done: the seven detailed models, in the order of section 2, the two abstract
specifications with their refinements, the gates of forms, bodies and queries,
and the proofs of all safety properties. What is left, in this order:

1. Lemmas about `RequestGate`: what `Served`, `Created` and `Updated` let through for
   all forms and bodies, now that the proofs of `TaskStore` and `UserProfile` use
   only that no key field is among them and that a picture has a name.
2. The hazards without a property. Most are about the content of a value (a
   content type, a url, a device key, a name of a field), which the models leave
   out; a property for one needs that value in the model first.
