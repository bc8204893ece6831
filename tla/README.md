# research-monitor: TLA+ models

Models, model-checking runs and proofs for the research-monitor backend (Go): a
service that fetches papers from arXiv, downloads their PDFs, extracts their
text, and analyses the result. Paths below are relative to the repository.

## 1. The system

| Component | State it keeps | Operations | Interacts with | What is hard | What makes it correct |
|---|---|---|---|---|---|
| **Extraction pipeline** `internal/application/extraction`, `internal/infrastructure/persistence/extraction` | `extractions` table (one row per source key), a buffered wake channel, the worker's peeked row | Submit (upsert + notify), the worker's peek / expire / claim / extract / mark, boot recovery, cancellation | HTTP handlers share the table with one worker goroutine; the channel only says "look again" | resubmission at any point of a row's life, dropped signals, decisions on a stale copy, failing database calls, crash and restart | no lost wakeup, nothing stranded in `running`, no result on the wrong request, every request settles |
| **PDF download registry** `internal/application/pdfdownload`, `internal/http/controller/paper` | map of in-memory jobs, each with entries, an event log and subscriber channels | Schedule, the job's worker, fan-out, sweep, Snapshot, Subscribe, Shutdown | fetch handlers schedule; SSE handlers subscribe; workers call the PDF store | subscribing while a job advances, completes or is swept; slow, stalled and departed clients; bounded buffers | a stream is a gap-free reading of the log, ends with the summary or is visibly cut; a job never waits for a client |
| **PDF store** `internal/infrastructure/pdf/local` | files under one root | Ensure: cache check, fetch, temporary file, rename | called by every download worker | overlapping calls on one key, cancellation, failing file operations, crashes between steps | only whole files under the canonical name; a locator always resolves; nothing left behind |
| **arXiv fetch and catalogue** `internal/application/arxiv`, `internal/infrastructure/persistence/paper` | `papers` table | Fetch: upstream call, one save per entry, schedule the new ones | schedules jobs in the registry | overlapping fetches, repeated and re-versioned papers, failure half-way | a new paper is downloaded exactly once, in the version the table keeps |
| **Analyzer** `internal/application/analyzer` | `analyses` table | Analyze, Get | reads extractions, calls the language model | the extraction may be redone while it is analysed; concurrent analyses | an analysis is of the text it was asked about; stamps move forward |
| **Sources** `internal/application/source_usecase.go`, `internal/infrastructure/persistence/source`, `internal/bootstrap/seed.go` | `sources` table | Create, Update, Delete, the seed command | the seed command is another process on the same table | check-then-act, and whole rows written from old copies | one source per URL; the seed can be repeated; a save undoes only what it overlapped |
| **User authentication** `internal/application/user_usecase.go`, `internal/infrastructure/auth`, `internal/http/middleware/jwt_auth.go` | `users` table, issued tokens | Login, Session, ChangePassword, seeding | guards every `/api` route | concurrent password changes, two expiries of one token | a token lives as long as it promises; no password works after it was replaced |
| **Markdown normalisation** `internal/domain/extraction/normalize.go` | none | Normalize | called by the worker on what MinerU answers | the order of the passes, greedy sweeps | the body is what the rules keep, prose survives |
| **Application start and stop, configuration** `internal/bootstrap`, `cmd/api` | process, database handle | LoadEnv, NewApp, Run, Shutdown | all of the above | order of boot steps and their failures, waiting for goroutines, repeated shutdowns | the database outlives whoever uses it; Shutdown returns |
| arXiv URL and feed parsing, MinerU adapter, LLM stub, routing, `cmd/devlogin` | none | one external call or formatting | | | |

Jobs and rows are never linked: an extraction is asked for by a client with a
path, not by the end of a download. Downloads and extractions meet only at the PDF files,
which is why each is modelled on its own; analyses read the extractions' rows, and
`ExtractAndAnalyze` composes the two. `AppLifecycle` holds them together: it
says in which order they are started and taken down.

## 2. Modules

| Module | Role |
|---|---|
| `ExtractionPipeline` | the extraction pipeline in detail |
| `JobLifecycle` | what its table promises: rows as jobs, no channel, no worker |
| `ExtractionPipelineProofs` | theorems about `ExtractionPipeline`, `ExtractAndAnalyze` and `Normalize` |
| `PdfDownload` | the registry, its workers, the SSE handlers, shutdown |
| `EventFeed` | what a stream promises: a reader of an append-only log |
| `PdfDownloadProofs` | theorems about `PdfDownload`, and that it implements `EventFeed` |
| `PdfStore` | Ensure, file operation by file operation |
| `PdfStoreProofs` | theorems about `PdfStore` |
| `ArxivFetch` | Fetch over the papers table, handing requests to the registry |
| `ArxivFetchProofs` | theorems about `ArxivFetch` |
| `Analyzer` | Analyze over extractions that follow `JobLifecycle` |
| `AnalyzerProofs` | theorems about `Analyzer` |
| `ExtractAndAnalyze` | the calls of Analyze over the pipeline itself, in one process |
| `Sources` | the sources table, its handlers and the seed command |
| `SourcesProofs` | theorems about `Sources` |
| `UserAuth` | accounts, tokens, the middleware, login and change of password |
| `UserAuthProofs` | theorems about `UserAuth` |
| `Normalize` | the passes over a markdown text, with a reference definition |
| `AppLifecycle` | LoadEnv, NewApp, Run and Shutdown around worker, handlers and downloads |
| `AppLifecycleProofs` | theorems about `AppLifecycle` |
| `MCExtraction`, `MCDownload`, `MCStore`, `MCFetch`, `MCSources`, `MCAuth`, `MCApp` | instances for TLC: symmetry, named sets of faults, seeds, configurations |

Operators named after a bug in their comment ("Mutant: ...") are alternatives to
the definition next to them; each property of a passing run was seen to fail when
the named definition is replaced by its mutant. No specification uses them.

### ExtractionPipeline

One action per database call, channel operation or decision, because another
goroutine may run between any two.

| Model | Code |
|---|---|
| `rows` | the `extractions` table, keyed by `(source_type, source_id)`; `request` stands for the payload columns, `artifact` for the result columns (the number of the request it was extracted from) |
| `signals` | `ChannelNotifier`'s buffered channel; its content never matters, only its length |
| `client[c]` | a request inside `Submit`: before the INSERT, before the overwrite, before `Notify` |
| `worker` | the goroutine of `Worker.run`: on its select, at the top of `drain`, or with a peeked row in hand; `request` and `created` are the copy it peeked |
| `proc`, `cancelled` | boot (recover, list and self-signal, start), running, context cancelled |
| `now` | the wall clock, which never goes back |
| `claimed`, `faults`, `exits`, `issued` | history and bounds |

`SubmitArrives` stamps the request as `Submit` does, before the table is
touched. `UpsertCreate`/`UpsertOverwrite` are the INSERT and the transaction
behind the unique-index conflict; `Notify` drops the signal if the channel is
full. `Peek`, `CheckExpiry`, `MarkExpired`, `Claim`, `ExtractReturns`,
`ExtractCancelled`, `Mark` are the steps of one iteration of `drain` with
`Process` inside; the `...Fails` actions are their error paths. All
conditional UPDATEs go through `InStatus`, the `WHERE status = ?` of
`transition`. `Crash` and `Shutdown` keep only the table.

Abstractions: a failed call leaves the table alone; the extractor and the
normaliser are one nondeterministic outcome (`Normalize` has a module of its
own). Reads by id change nothing and are left out.

### PdfDownload

Whatever runs between a `Lock` and its `Unlock` is one action; `Subscribe`
takes two locks and is two actions (`Lookup`, `Subscribe`), and the sweep that
every lookup starts with is part of `Lookup` and `Status`. `worker[j]` is
the goroutine of `runJob`; `AppendAndFanOut` sets the entry, appends the event and
sends it to each subscriber without blocking; `FinishJob` publishes the summary
and closes what is left. `stream[s]` is one execution of the controller's
`Stream`: the backlog it was given, its channel (`live`, `open`), and every
frame it wrote. A handler whose client left returns without unsubscribing, as in
the code, so its channel stays registered until it is full or the job ends.

The outcome of a download is either result, which also covers a cancelled
background context; error categories and descriptions are left out. A panic of the
store is not modelled: `runJob` does not recover it, and it would end the process. A restart of the process is `Init`: nothing is
persisted. `Summary` keeps the two counts.

### PdfStore

The places of `CallState` are the file operations of `Ensure` and `publish`, in
the order of the code. A body is a model value and upstream may serve another one
each time. Every file operation may fail; a failing `os.Stat` is a miss of the cache gate, also when
the file is there. A write is visible half-way (`WriteStarts`, `WriteEnds`). Crashes are
of the process: what was written stays, what was not renamed stays temporary. The
loss of unsynced data by the machine is not modelled. Keys are those that pass
`Key.Validate`.

### ArxivFetch

`fetch[c]` holds the variables of one call of `Fetch`: the feed, how far the loop over it
is (`saved`) and `newEntries`. `Save` is the INSERT with its unique index and the rest of
the loop's body (`Advance`); `SaveFails` stands for a failing
database and for a client that has gone, whose context is cancelled. `jobs` is
the history of all request lists given to `Schedule`; `orphans` records papers a
fetch had added when it failed or the process ended. `Schedule` of the
registry returns no error, so that branch of `Fetch` cannot be taken.

### Analyzer

Composed with `JobLifecycle`: `ExtractionMoves` lets an extraction take any step
that table promises, so a body can be replaced while `Analyze` holds a copy. `Load`
is `FindByID` with the gate on the status; `ShortReturns` and `LongReturns` are the
two completions, which carry the call and the body they are about; `Insert`,
`InsertConflicts` and `Overwrite` are the statements of `Upsert`. `overtaken`
is history: another call stored its analysis of the same extraction meanwhile. The
thesis columns are constants in the code and are left out, as is the wording of
errors; any call to the model or the database may fail.

`ExtractAndAnalyze` puts `ExtractionPipeline` in the place of `JobLifecycle`: `Extracts` is
any step of the pipeline, `Analyzes` a step of a call while the process is up, and an exit
takes the calls with it. The number of a body and the bodies a row had are history. What
a reader sees of a row is its status (`Seen`); rows that a dead process left in `running` are
counted as failed, since boot fails them before anybody reads. No run has this module: a
theorem says that it implements `Analyzer`.

### Sources

Between two statements anybody may run, so each statement is an action: `FindByURL`
and the two halves of GORM's `Save` (`SaveUpdate`, and `SaveInsert` where the UPDATE
found no row) for a create, `Load` and the same `Save` for an update. The unique index
on the URL is `IndexRefuses`. The insert of a row that is switched off switches it on,
because the column's default replaces the zero value (`Inserted`); that can only be
seen when an update re-inserts a row deleted meanwhile. The seed command is `Seeder`, a
caller in another process that loops over `Seeds` through the same `Create`; it
may be killed at any point and run again. `overtaken`, `contested` and `removed` are
history.

### UserAuth

`LoginArrives`/`FindByEmail`/`Issue` are `Login`, cut where the row was read and where
the clock is; `ChangeArrives`/`VerifyCurrent`/`UpdatePasswordHash` likewise. The
middleware is the first step of `SessionArrives` and `ChangeArrives`; `RefusedWithoutToken` is
every header or token it turns down before the clock matters. A stored hash stands for
the password it verifies and tokens cannot be made up, so bcrypt and HMAC are
taken at their word. A second is `Resolution` ticks, so that a token may be issued
within one. `UserRemoved` is an operator at the database: the handlers have a branch for
it. Unreadable hashes appear as failing steps with another answer. `held` and
`overtaken` are history. `auth_requests` shows that a token goes on working after the
password changed, which `ChangePassword` documents.

### Normalize

A line is its kind, and the kinds are the classes that the regular expressions and
prefixes of the code tell apart; `rule` and `bare` are separators with and without a
leading pipe. The rules only drop lines, so a text is the set of the positions, in the
markdown, of the lines it still has. Every rule is an action on `body`, and the loop of
`stripBlocks` one action per turn (`StripLine`): `ahead` is what `i` has yet to reach, and
`inTable` tells that `i` is in the inner loop over the rows. `Collapsed` is the regular
expression over newlines: a run inside the text has one newline more than blank lines, and
one at the start or the end as many, so the latter may keep two blank lines. `AreHeaders`,
`Kept` and `Shown` define the same result without a sweep: which lines begin a table, which
belong to one, to an image or a caption, and which blank lines show. Rewriting math
delimiters is left out, since it changes no line's kind. The names of the module carry its
own, as it is extended together with the pipeline that calls it.

### AppLifecycle

`Accepted` is every check of `LoadEnv` over a configuration whose settings are
numbers or classes of values. `BootStep` and `BootStepFails` go through the steps of
`NewApp` that can fail, in order; the error returns leave the database handle open, as
in the code. `caller` is either `main` of `cmd/api`, for which an error or the end of
the listener is the end of the process, or an embedder such as the tests, which may
cancel its context and call `Shutdown` from several goroutines, in any order, with or
without a deadline. The worker is reduced to whether it looks at its context, holds
an open query or waits; handlers and downloads to whether they are there. `once` is the
registry's `sync.Once`: callers after the first wait for it without a deadline of
their own.

## 3. Runs

| Run | Instance | Shows |
|---|---|---|
| `extraction_recovery` | 2 keys, 2 clients, 1-slot channel, 2 requests, one exit, one fault among those the pipeline retries | `NoLostWakeup`, `WorkerOwnsItsRows`, refinement of `JobLifecycle`, and `RequestsSettle` under fairness |
| `extraction_faults` | the same with 3 requests and any database call failing | `TypeOK`, `ResultMatchesStatus`, `LateResultDiscarded` |
| `download_streams` | 1 job of up to 2 entries, 2 streams, 1-slot channels | how a stream reads and how it may end (`ImplementsFeed`, `ReadersSeeTheJob`, `NoStreamStranded`, `StreamsEnd`), when a job may leave (`RetainedUntilAged`), and that no client holds a job up (`WorkersFinish`) |
| `store_ensure` | 3 calls by 2 goroutines on one key, 2 failing operations, one crash | `LocatorsNameWholeFiles`, `NoTempLeft`, `PublishedStays` |
| `fetch_catalogue` | 3 fetches by 2 callers, feeds of up to 2 entries over 2 papers and 2 versions, one fault, one exit | `OneDownloadPerPaper`, `RequestedVersionIsKept`, `NewPapersRequested` |
| `analyzer_runs` | 2 extractions with 2 bodies, 2 overlapping calls | `AnalysesAreWhole`, `AnswerWasStored`, `OnlyOverlapsGoBack` |
| `sources_writes` | 2 clients with 3 requests on 2 URLs, the seed command run twice over 2 seeds, one failing statement or killed seed run | `OneSourcePerUrl`, `SeedIsIdempotent`, `OnlyOverlapsUndo` |
| `auth_requests` | one address, 2 clients with 4 requests, 3 passwords, 2 ids, tokens of a second and a half on a clock of half seconds | `TokenLifetime`, `PasswordWasCurrent`, `OnlyOverlapsOverwrite` |
| `normalize_bodies` | every text of 1 to 5 lines of 11 kinds, 2 of them titles | `ArtifactFollowsRules`, `SecondPassIsNeutral` |
| `app_start_stop` | 17 configurations, 2 handlers, 2 downloads, 2 callers of `Shutdown` | `RunningWorkerIsOwned`, `DrainIsComplete`, `ShutdownReturns` |

Each passing run but `extraction_recovery` and `normalize_bodies` checks its module's `TypeOK` as well.

The bounds: two keys let one row wait while the other is worked on, and a
one-slot channel makes dropped signals the normal case; two requests are a
resubmission, three a resubmission while another row waits. The clock runs to 2
with an expiry of 1, so a request can be fresh, due and resubmitted. For the
invariants of the extraction pipeline the bounds do not matter: they are proved
for all values. In `download_streams` two entries and the summary overrun a one-slot
channel twice, so a stream is dropped with an event buffered, before or at the summary, and
the two streams at different times; jobs share nothing but the map and the clock.
Clients are interchangeable where a symmetry set says so; it is not used where liveness is
checked. In the store, two overlapping calls and one later are enough for a publication
under a locator in use; files of different keys share no name. One analysis that
overtakes another, with a body replaced in between, is what `Analyzer` is about, and two
calls give it. In `Sources`, two callers and the seeder are one more than any of the
races needs; the run has one name, since a second one makes more than five million states,
so a request that changes a name to another is covered by the theorem on `OnlyOverlapsUndo`
only, which holds for any names. In `Normalize`, a table takes two lines and what follows or precedes it
another, images between two halves of a table need four, and a run of blank lines is long
at three; its invariants too are proved for texts of any length. In `AppLifecycle` the wake channel has its default size, and one configuration has one
slot. Deadlock is not checked because every instance ends when its bounds are used up.

### Runs that end in a violation

Each states what the repository's documents say and shows a behaviour of the
code that does otherwise; `PROJECT.json` quotes the lines.

| Run | Behaviour found |
|---|---|
| `extraction_expiry_race` | the worker decides on its peeked copy that a row is past its expiry; the row is resubmitted; the row is failed as `expired` although its window just restarted |
| `extraction_stale_payload` | a row is resubmitted between the peek and the claim: the worker extracts the old payload, and the new request is `done` with its result |

Other differences between the code and what is written about it have no run of their
own. The models have the code's behaviour and the properties name it as the exception:

* one failing `MarkDone` or `MarkFailed` leaves the row in `running` until the process
  restarts (`document-extraction/requirements.md:117`; `WorkerOwnsItsRows`, where the
  worker let go of it);
* two overlapping `Ensure` calls both fetch, and the second replaces the file under the
  first's locator (`internal/domain/pdf/ports.go:21`; `LocatorsNameWholeFiles` asks that
  it is whole, not that it is the same). `OneDownloadPerPaper` tells that today's only
  caller does not overlap with itself on a key;
* a save that fails half-way leaves the entries before it in the table; no later fetch
  reports them new or downloads them (`paper-persistence/requirements.md:91`; `orphans`
  in `NewPapersRequested`);
* a failed peek ends `drain` with the wake signal consumed, so a pending row waits for
  the next signal (`NoLostWakeup` excludes that fault by name);
* a shutdown of the registry closes no live channel: it cancels the context of the
  downloads and waits, the worker goes on through its entries and closes the channels
  after the summary. `internal/http/controller/paper/pdfdownload_controller.go:61` and
  `:105` say that a "registry shutdown" closes a channel without a summary and ends the
  stream with an error frame; `ErrorOnlyWhenBehind`, a part of `ReadersSeeTheJob`, says that
  only a consumer whose buffer was full gets that frame. The design
  (`arxiv-pdf-download/design.md`, lines 444 and 471) agrees with the property;
* `cmd/api` neither cancels the context nor calls `Shutdown`, although
  `internal/bootstrap/app.go:251` says that it does (`RunEnds`);
* `AUTH_JWT_TTL` is not checked, although `internal/infrastructure/auth/jwt_token_service.go:30`
  says that it is (`ttl` of `Env` is in no conjunct of `Accepted`; with zero no token is
  ever accepted);
* a losing create answers with an internal error when the race is decided by the unique
  index and not by the lookup, and so does a seed run (`contested` in `SeedIsIdempotent`);
* normalising a body again can remove more (`SecondPassIsNeutral`); the test
  `TestNormalizeIsIdempotent` holds for its document;
* completed jobs are swept only by status and stream requests, so they may stay in
  memory; a context cancelled after `Ensure`'s one check still publishes its file.

## 4. Fairness

* `ExtractionPipeline`: the worker, each request goroutine, boot and the end of a
  cancelled process are weakly fair. Goroutines are scheduled; the extractor runs
  under a timeout (`MINERU_TIMEOUT`), so `Extract` returns; a process that ended is
  assumed to be started again, which is up to whoever runs it. Arrivals, crashes,
  cancellation, faults and the clock are not fair.
* `PdfDownload`: only the workers and the drained end of a shutdown
  (`WorkerSpec`): downloads go through an HTTP client with a timeout. `WorkersFinish`
  thus holds even if no client ever reads. `StreamsEnd` adds that handlers run
  (`StreamsServed`, as its hypothesis), which is the case while no client stalls a write
  for ever: the server sets no write timeout.
* `ArxivFetch`: a fetch in progress goes on; saves and the upstream call return.
* `AppLifecycle`: the worker is scheduled and an extraction ends by its timeout (weak
  fairness); of a `select` with two ready cases Go picks one at random, so a cancelled
  worker that keeps finding signals leaves in the end (strong fairness of `WorkerStop`); each
  call of `Shutdown` takes its steps and its deadline, if it has one, passes. Handlers,
  downloads and the cancellation itself are not fair.

## 5. Proofs

`ExtractionPipelineProofs` proves, for any set of keys and clients, any buffer
size, expiry, set of faults and bounds:

* `TypeCorrect`: `Spec => []TypeOK`;
* `PipelineInvariant`: the inductive invariant `IInv`, and from it
  `NoLostWakeupHolds`, `RunningIsOwnedHolds`, `PickupNeverConflictsHolds` and, of both
  together, `WorkerOwnsItsRowsHolds`;
* `ResultMatchesStatusHolds`, `LateResultDiscardedHolds`;
* `PipelineImplementsLifecycle`: if no `Mark` fails, the pipeline implements
  `JobLifecycle`; initial states map to initial states and every step to a step or
  a stutter;
* `PipelineUnderAnalyzer`: if no `Mark` fails, the calls of Analyze over this pipeline
  (`ExtractAndAnalyze`) implement `Analyzer`;
* `WindowIsFullUnlessOverwrittenHolds`, `ResultIsOwnUnlessOverwrittenHolds`: what two runs
  show to go wrong goes wrong in no other way.

The assumptions are those of the module: finitely many keys, a positive buffer, an expiry
that is a number, and faults that are known calls.

The argument. None of the properties is inductive alone. That a running row is
the worker's needs to know where the worker can be in each phase of the process
(`MemoryMatchesProcess`), and that a claim only ever finds the row it peeked still
pending: only the worker moves a row out of pending, and resubmission moves rows
into it (`PickupNeverConflicts`). `NoLostWakeup` holds because a row becomes
pending only by a client that is about to notify, because `Notify` drops a signal only
when another is waiting, and because `drain` goes back to the select only when
nothing is pending; at boot, because at least one pending row makes at least one
signal (`BootSignalled`). `LateResultDiscarded` needs that a running row still
carries the request that was claimed (`ClaimedIsCurrent`): a resubmission takes the
row out of `running`, and only the same worker, once it is done with the old
result, can put it back. `ResultMatchesStatus` is proved from three facts on
the columns written by each UPDATE (`RowsOK`, `ClientsOK`, `WorkerOK`).

What the runs in violation leave open is whether their race is the only one. It is:
a request's number is held by one client or row until it is written (`RequestsAreTold`), so a
row that still has the number that was peeked still has the age that was peeked
(`PeekedIsOld`), and `MarkFailed(expired)` decided on that age; the result that `Mark` writes
is of the request peeked, and the row's is the one claimed (`ClaimedIsCurrent`). Both can
differ only by a resubmission between the peek and the write.

For the composition, each step of the pipeline is a step of one job, of no job, or the end
of the process, as `LifecycleStep` has it (`RowSteps`, `ProcessSteps`). In addition only
done rows have a body, one of those they had (`BodiesOfRows`), and nobody is inside Analyze
while the process does not serve (`CallsHaveProcess`). A process that ends leaves a row in
`running` that boot fails only later; a reader cannot tell, which is why the exit, and not
the recovery, is the `Restart` of `Analyzer`. What `AnalyzerProofs` proves of `Analyzer`,
with `Keys` for its extractions, thus holds of the two together.

Of `Normalize` the same module proves, for any titles and a markdown of any length,
`NormalizeInvariant`, `ArtifactFollowsRulesHolds` and `SecondPassIsNeutralHolds`; it assumes
that a title is no other kind of line. The sweep's invariant is `Swept`: of the lines it
passed exactly those are left that the reference keeps, for the headers found so far, and
while it is among rows the last of these tables is the one that reaches what is ahead. One lemma for
each kind of turn (`SweepsRow`, `SweepsHeader`, `SweepsOther`) shows that it stays so. The
rules after it are closed forms, and trimming what was collapsed is `Shown`
(`TrimOfCollapsed`). A body has nothing left that the rules would drop, but tables (`Clean`),
hence a second pass can only find one that came together. `WordCount` is defined by recursion
over the lines; that it is a number, and grows with the lines counted, is shown by taking the
least line at which it would not (`LeastMember`, from the pigeonhole principle), as the
library's induction theorems cannot be used.

`PdfStoreProofs` proves, for any keys, goroutines, bodies, faults and bounds:

* `TypeCorrect`, and `StoreInvariant`: the inductive invariant;
* `CanonicalIsWholeHolds`, `LocatorResolvesHolds`, of both together
  `LocatorsNameWholeFilesHolds`, `PublishedStaysHolds`, and `NoTempLeftHolds`.

The assumptions are those of the module (there is a key, `NoBody` is not a body, the
faults are known operations). The argument: a call takes a number never
used before (`NumbersIssued`), so two calls never write the same temporary file
(`NamesDiffer`) and a file cannot change between the write and the rename of the call
that owns it (`TempIsBody`); what a rename publishes is therefore whole. A published
file is only ever replaced by another whole one, so a locator once returned stays
good, and no lock is needed for that. `NoTempLeft` is inductive once it is known that only
issued numbers were abandoned (`TempInv`), and that a step touches the temporary file of its
own call alone.

`AnalyzerProofs` proves, for any extractions, callers and bounds: `TypeCorrect`,
`AnalyzerInvariant`, `OneRunPerAnalysisHolds`, `AnalysesAreOfResultsHolds` and of both
`AnalysesAreWholeHolds`, then
`AnswerWasStoredHolds` and `OnlyOverlapsGoBackHolds`; it assumes that there is an
extraction and that the bounds are natural numbers. Bodies are numbered as they are
made (`BodiesInOrder`), so a call starts with the newest one; what it holds is never
touched by another call (`OwnText`); and while nobody overtakes it, the row it will
replace stays the one that was there when it started (`NotBehind`), which is what the
last theorem needs.

`AppLifecycleProofs` proves, for any handlers, downloads, callers of `Shutdown` and
configurations: `TypeCorrect`, `OwnershipHolds` (the inductive invariant),
`RunningWorkerIsOwnedHolds` and `DrainIsCompleteHolds`. It assumes that the
configurations are such, and that those an embedder makes itself name a wired provider and a
buffered wake channel (`OwnIsUsable`): `NewApp` starts the worker before it looks at the
provider, so only the check in `LoadEnv` keeps a failing start from leaving a worker
(`ProviderIsWired`). The handle is closed by a call of `Shutdown` that has seen the worker
return, and a worker that returned never starts again (`StopsInOrder`). The downloads a wait
began with only become fewer, and a wait ends well only if nothing runs (`Drains`).

`PdfDownloadProofs` proves, for any jobs, streams, buffer size, retention and bounds:
`Invariant` (`IInv`), `TypeCorrect`, `RetainedUntilAgedHolds`, `NoStreamStrandedHolds`,
`ReadersSeeTheJobHolds`, and `ImplementsFeedHolds`: the registry implements `EventFeed`,
the initial states and every step being mapped. It assumes that buffer, retention and
entries are positive and that `NoJob` is not a job. The argument: a log has one event per
finished entry, in order, and then the summary (`Recorded`), and how many there are is
told by the place of the worker (`WorkerInStep`). What a stream has written, its backlog and
its channel lie one after the other in the log (`Reads`), and reach its end as long as the
channel is open (`Reader`): the snapshot and the registration are under one lock, so
no event falls between backlog and channel or into both. A channel that was closed was closed
by the end of the job, and then everything is in hand, or because the stream was a whole
buffer behind, and then its reader ends with an error frame, or goes, and never shows
the summary. Status and streams agree because both are read off that one log, whose summary
counts the entries by result: they do not change once the job is completed (`HowMany`).

`ArxivFetchProofs` proves, for any papers, versions, callers and bounds: `Invariant`,
`TypeCorrect`, `RequestedVersionIsKeptHolds` and `OneDownloadPerPaperHolds`, assuming that
`NoVersion` is not a version. The sum of cardinalities in the last property is not a form to
reason with; `Once` says of each paper which of the three places it is in, and by which one
position. A step moves a paper from one place to the next: `Save` into the list of
its fetch, and only if the table did not have it; `Schedule` from there into one
job; a failing save or an exit to the orphans. What is in a list carries the version of the
table (`FetchInv`), since the row was written with it and no step changes a row
(`CatalogueGrows`).

`SourcesProofs` proves, for any clients, requests, seeds and bounds: `Invariant`,
`TypeCorrect`, `OneSourcePerUrlHolds`, `SeedIsIdempotentHolds` and `OnlyOverlapsUndoHolds`.
Its assumptions say that the constants are of their kinds (the seeds are requests, the seeder
is no client, the marks for "blank" and "keep" are no names, `NoRow` is no row). An
UPDATE does not look at the unique index in the model, as it writes the URL it read;
that this cannot make two rows of one URL needs that an id keeps its URL for good, in the
table and in the copies of calls in flight (`IdInv`). A copy nobody overtook is what the
table holds, changed as the request asks (`CopyInv`). For the seed run, every source
before the one it is at is in the table or was removed since the run began, and a conflict
it meets is a client's row (`SeedInv`).

`UserAuthProofs` proves, for any clients, accounts, passwords, lifetime and resolution of
the clock: `Invariant`, `TypeCorrect`, `TokenLifetimeHolds`, `PasswordWasCurrentHolds` and
`OnlyOverlapsOverwriteHolds`. It assumes a positive resolution and that compliant passwords
are not among the marks for those that are not. A request remembers the passwords its account
had while it was served (history); the copy it verified against is one of them, and
is the current one unless another change was written meanwhile (`Sound`). The `exp` claim is
the expiry that was answered, rounded down by less than a second (`TokenInv`).

Every inductive invariant was model-checked before it was proved, on the configuration of its
module's run; that of `ExtractAndAnalyze`, and the theorem about it, on an instance with one
key, one client and one call.

Only model-checked: liveness (`RequestsSettle`, `WorkersFinish`, `StreamsEnd`,
`NewPapersRequested`, `ShutdownReturns`), which the proof system cannot do under fairness, as
it has no rule for `ENABLED`. The two properties that a run refutes (`FullExpiryWindow`,
`DoneFromOwnRequest`) are findings.

## 6. Not modelled

Atom parsing and URL building of the arXiv client, MinerU's process and the parsing of its
output: formatting around one external call, whose outcomes the models have. Routing,
envelopes, request ids, logging and panics' recovery: per request, without state. The LLM
stub: deterministic, without state. `cmd/devlogin`, a one-shot client for developers, and
`docs/docs.go`, which is generated. The order inside SQLite transactions (a busy upgrade of a
deferred transaction appears as a failing call). A second API process on the same
database. A clock that goes back. Data that a power loss takes from the disk.

## 7. Plan

Every safety property of a passing run is a theorem. What is left to state and prove: the
same step for the other pair that meets, that the requests `ArxivFetch` hands to the registry
are those `PdfDownload` takes and its workers are callers of `PdfStore`. What is left to
model: a failing `Mark` in `JobLifecycle`, so that the two refinements need no assumption on
faults.
