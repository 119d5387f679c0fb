# OctoConv: a TLA+ verification of the job pipeline, its presets and its web page

OctoConv converts files asynchronously. An HTTP API stores an upload and a job
row, a task queue hands the job to an engine worker, the worker stores the result
and marks the row, and a signed webhook tells the client. A reconciler looks for
jobs and webhooks that fell through the cracks. What makes the system hard is not
any one of these parts but that they share no transaction: Postgres, Redis, S3 and
the client are written one after the other, by processes that can die or lose an
answer between any two writes.

At the client's end a web page polls the API with overlapping requests, from effects
that React tears down and sets up again; at the operator's end concurrent calls edit
the versioned presets that submissions use.

This directory models the pipeline, the page and the presets in TLA+, model-checks them
with TLC on small instances and proves properties of them with TLAPS for instances of
any size.

## Inventory

| Component | State | Operations | Interacts with |
|---|---|---|---|
| jobs repository (`internal/jobs`) | rows of `jobs`, `job_inputs`, `job_outputs`, `job_events` | `Create`, `MarkActive`, `MarkDone`, `MarkFailed`, `RequeueStale` (all through `transition`, a row-locked guarded update), `AddOutput`, `RecoveryCount`, `FindStale`, `FindWebhookGaps` | everyone; the only shared truth |
| webhook repository (`internal/webhook/repo.go`) | `webhook_deliveries` | `RecordAttempt`, `MarkDeadLetter` | webhook handler, gap scan |
| task queue (`internal/queue`, asynq, Redis) | tasks, retry counters, unique locks with a TTL | `Enqueue*`, retry, archive, lease recovery | API, workers, reconciler |
| conversion handlers (`internal/worker`) | output objects in S3; the position of each running handler | `Handle{Image,Document,HTML,Audio,AV}Convert`, `process` | repository, S3, queue |
| webhook handler (`HandleWebhookDeliver`, `internal/webhook/deliver.go`) | what the client has received | one delivery attempt | repository, client |
| reconciler (`internal/reconciler`) | the scan it walks, the advisory lock | `RunWithLock`, `sweep` | repository, queue |
| job submission (`handleCreateJob`) | an open request | upload, insert, enqueue | repository, S3, queue |
| presets (`internal/presets`) | versioned preset rows | `Create`, `Update`, `Deactivate`, `Resolve` | job submission, which resolves twice |
| REST API as a client sees it (`internal/api`, `internal/auth`) | jobs per client, active keys | authenticate, `handleCreateJob`, `handleGetJob` | pipeline, page |
| web front end (`frontend/src`) | form fields, the job card, the stored key, a polling interval, calls in flight | load, edit, `handleSubmit`, the storage effect, the polling effect and its cleanup | REST API, localStorage |
| clients and keys (`internal/clients`, `internal/auth`) | two key slots per client | rotate, revoke, authenticate | API |
| MCP server (`internal/mcpserver`, `cmd/mcp-http`) | session bindings | blocking convert, bind, check, idle sweep | API |
| detection, options, engines (`internal/convert`) | none | sniff, validate, run an external program | API, workers |

Hard behaviours, with the properties that answer them (PROJECT.json `hazards` has the
line of each):

* **Acting on an old scan.** The reconciler reads a list and walks it with several
  calls per job. Meanwhile jobs finish, and a replica that lost its advisory lock
  keeps sweeping next to its successor. `OneSweepPerSession`, `FinalStatusIsFinal`,
  `HonestCount`, `RecoveryBudget`, `DeliveredOnce`.
* **Lost answers.** A commit may be reported as an error, by Postgres, Redis, S3 or
  the client. `DoneHasOutput`, `HonestCount`, `OneLiveTask`, `VerdictIsTrue`.
* **A crash between two writes.** Row without task, object without row, done
  without webhook. `SettlesEveryJob`, `EventuallyAttempted`.
* **Two workers on one job.** Prevented by the unique lock while it lives
  (`OneLiveTask`, `NoWorkAfterDone`), survived when it lapses (run `lapse`).
* **Budgets.** Retries, recoveries and the dead-letter flag count to a limit.
  `RecoveryBudget`, `HonestCount`, `ExhaustIsEarned`, `NoSilentDrop`,
  `DeliveredOrDeadLettered`.
* **Several announcers.** Workers, the cap branch and the gap scan all enqueue webhooks,
  not all of them after a commit they know of. `VerdictIsTrue`, `FaultlessVerdicts`,
  `OnlyVerdictsSent`.
* **Overlapping polls.** The page's interval fires whether or not earlier polls were
  answered, answers come in any order, and an answer may arrive after its effect was
  cleaned up, or after the render that will clean it up was scheduled.
  `ShowsLatestJob`, `VerdictStays`, `LivePollsAreCurrent`, `VerdictReachesPage`.
* **Stale closures.** Each effect closes over the key and the job of its render; a
  forgotten dependency would go on with old values. `LivePollsAreCurrent`, `ReloadKeepsKey`.
* **Errors that look like verdicts.** A poll can be lost, throttled or unauthorised
  while the job goes on. `ShownVerdictIsTrue`, `SubmitReturns`.
* **Concurrent edits of one preset**, each based on the row it read, and a submission
  that reads the preset before and after its upload. `VersionsOnlyGrow`,
  `OnlyCreateRevives`, `RetiredIsNeverUsed`, `OneActiveVersion`.

## Modules

```
JobRepo ── TaskQueue ─┬─ JobApi ────────┐
                      ├─ ConvertWorker ─┤
                      ├─ WebhookWorker ─┼─ System ── MCSystem (TLC)
                      └─ Reconciler ────┘    │  └──── SystemProofs ─┬─ LockProofs
                                             │           (TLAPS)    └─ RecoveryProofs ── WebhookProofs
                                             └─ implements JobLifecycle

JobLifecycle ── HttpApi ── WebClient ── MCWebClient (TLC), WebClientProofs (TLAPS)

Presets ── MCPresets (TLC), PresetsProofs (TLAPS)
```

* **JobRepo** — the Postgres rows. One operation is one transaction, so one atomic
  step with a result: `ok`, `illegal` (the guard refused), or one of `Broken`
  (an error or an expired context), after which the transaction may or may not have
  been committed. Every operation that breaks consumes one of `MaxFaults` faults.
  Time is reduced to what the reconciler's queries compare: whether a timestamp
  column is older than its cutoff (`aged`). `created_at` and `started_at` are never
  moved forward, as in the code (`COALESCE(started_at, now())`). Statuses
  `awaiting_upload` and `canceled` are declared in `jobs.go` and never written.
* **TaskQueue** — asynq, modelled from the options `queue.go` passes and from what its
  comments and tests rely on; those definitions are external in the map. A task is
  `<<kind, job, slot>>`. The lock of a task is released on success or when its TTL
  runs out, never on archive. `LockMayLapse` decides whether a TTL may run out
  under a live task: `FALSE` is what the TTL derivation intends, `TRUE` covers
  the waiting time in the queue that it does not count.
* **ConvertWorker** — the five conversion handlers, which have one control flow. Each
  call to Postgres, S3 or Redis is a step (`pc[t]`). They differ per job only in
  `BadOpts` (stored options the strict re-parse refuses; image jobs are never in
  it) and `TimeoutTerminal` (document and html jobs, where a deadline is terminal).
* **WebhookWorker** — one delivery attempt: read, POST, record, dead-letter. The
  client may have taken a request that the worker saw fail.
* **Reconciler** — `sweep()` call by call, for any number of replicas. `Tick` is
  `TryAcquire` alone and `Scan` the `FindStale` that follows, so the session can be lost
  between the two.
* **JobApi** — the two writes of a submission.
* **System** — the composition, fairness and the properties.
* **JobLifecycle** — the contract: a job is absent, pending, then done or failed for
  good; done only with a result; settled eventually. System implements it
  (`Contract == INSTANCE JobLifecycle WITH ...`), and HttpApi uses it in place of the
  whole pipeline: what the page can rely on is what System was shown to keep.
* **HttpApi** — the middleware and the two endpoints the page calls, over JobLifecycle.
  A reply is its status code and, on success, the job it describes. Code 0 is a
  `fetch` that rejects; the many checks of `handleCreateJob` before the upload are the set
  `Convertible` and the codes of their refusals.
* **WebClient** — `App.tsx`, `api.ts` and `main.tsx`. The variables are the `useState`
  values, the stored key, the interval the polling effect has armed with the key and
  job it closes over, and the calls in flight. React runs the effects of a user event
  before the next task, so event and effects are one action; an update made after an
  `await` is rendered later, so `pending` marks the time until `Flush` in which the old
  interval and its calls are still live. A call whose effect was cleaned up cannot
  change the page, so `Cancelled` forgets it; the server may still see a forgotten GET,
  which changes nothing there. A key the API does not know behaves like a revoked one.
* **Presets** — the statements of `presets/repo.go` for one name at Postgres' READ
  COMMITTED level: what `FOR UPDATE` locks, waits for and tests again, what the unique
  index refuses, and the two resolutions `handleCreateJob` makes around the upload.
  `SelectForUpdate` finds the active rows and `LockRow` takes them one at a time: a call
  that waits for a row keeps the ones it already has. Two calls that wait for each other
  are a deadlock that Postgres breaks by aborting one (`Abort`).

`revived`, `heard` and `latest` are history variables; no action reads them. Operators
headed "Faulty variant" are not used by the specification: each is a plausible bug of
the definition that follows it, and shows that some property would notice.

## Runs

The bounds are named constants of the modules; the `.cfg` files give their values.
`browser` uses module MCWebClient, `presets` and `two_active` use MCPresets, all other
runs use MCSystem.

| Run | Instance | Shows |
|---|---|---|
| `pipeline` | 1 job, 2 slots, 2 sweepers, 1 retry, 1 recovery, 2 faults | the safety properties, the accounts of the sweepers and the refinement of JobLifecycle |
| `lapse` | as `pipeline` with timeouts terminal, lapsing locks, 1 fault | what the row guards keep without the unique lock |
| `live` | 1 job, 1 recovery, 2 faults, fairness | `SettlesEveryJob` |
| `notify` | 1 document job with a callback, 1 delivery retry, no recoveries, 1 fault, fairness | `VerdictIsTrue`, `EventuallyAttempted`, and up to the fault `FaultlessVerdicts` and `NoSilentDrop` |
| `scan` | 2 jobs, one with refused options, 1 fault, fairness | both are settled |
| `nonfinal_webhook` | 1 job with a callback, 1 fault | finding: `OnlyVerdictsSent` fails |
| `exhausted_live` | 1 job, no fault | finding: `ExhaustedIsStranded` fails |
| `dead_letter` | 1 job with a callback, 1 delivery retry, 1 fault, fairness | finding: `DeliveredOrDeadLettered` fails |
| `delivered_twice` | 1 job with a callback, no fault | finding: `DeliveredOnce` fails |
| `browser` | 1 job, 2 clients with a key each, 4 contents of the key field, 2 polls in flight, 1 fault, fairness | the card tells the truth about the last submission, the key survives a reload as ticked, the button comes back, the verdict arrives |
| `presets` | 2 concurrent calls, system scope and 1 client, 1 submission, 3 versions | versions are immutable, only `Create` revives a name, a version retired during the upload creates no job |
| `two_active` | as `presets` | finding: `OneActiveVersion` fails |

Why these bounds are enough. Jobs interact only through a sweeper's scan, so one job
carries every property except starvation within a scan, which `scan` has two jobs for.
Two slots let a duplicate task exist if anything allowed one, two sweepers let an old
leader meet a new one, one retry and one recovery put every counter both below and at
its limit (`MaxRecoveries = 0` is a legal setting whose only effect is that the cap
is met at once). Two faults allow a fault during the recovery from a fault.
Under `LockMayLapse` the two slots also bound the number of live tasks of a job: a
third lapse in a row is not explored.
For the page, two polls are what it takes to overlap and to be answered out of order,
two clients make the key matter, and one fault is a lost, refused or failed answer or
a revocation. With a single job `ShowsLatestJob` is about an answer that arrives after
the user has submitted again; the theorem `LatestShown` covers any number of jobs, polls
and faults. For the presets,
two calls are what a race takes, and three versions let a version be retired between
two others; `PresetsProofs` covers any number. `RetiredIsNeverUsed` is about a whole
behaviour: once the version a request has resolved is retired during the upload, no
later bump, deactivation or revival of the name lets the request through.

The type invariant of System says, besides the types, that a webhook is only queued or
about to be queued for a job with a `callback_url` (`HooksHaveUrl`): each of the three
announcers tests that for itself, and the delivery handler has no good answer if one
does not.

**Fairness.** Weak fairness for a request that has begun, for every step of a handler
that runs, for servers taking pending tasks, for the expiry of TTLs, for time and for
the sweepers' ticks: a running Go process makes progress, asynq servers poll,
tickers tick. Nothing is assumed of faults: they may or may not happen, at most
`MaxFaults` times, which says that the infrastructure works for long enough once.
`live`, `notify` and `scan` are what this gives; without the bound no job need ever settle.
For the page: the browser runs its tasks and its interval, every request is served or
rejected, and the pipeline settles its jobs, which is what `SettlesEveryJob` shows of
System. The user, revocations and faults owe nothing; `VerdictReachesPage` therefore
says what follows *if* the page goes on showing a job that its key may read.

## Findings

Five things that comments or documents state and the code does not keep; each has a
run whose counterexample shows it, and PROJECT.json quotes the lines.

1. *Non-final webhook.* The reconciler's cap branch ignores the error of `MarkFailed`
   and enqueues the webhook, so a client can be told `queued` or `active`. The workers
   take care not to do this (WR-04). It takes a fault: `OnlyFaultsMislead` proves that
   every webhook carries a verdict as long as none has happened.
2. *Exhausting a live job.* At the cap the reconciler does not consult the unique
   lock. Because a recovery does not move `created_at`, the tick after the last
   recovery finds the job stale again and fails it while its task waits or runs.
3. *Lost dead letter.* A last delivery attempt that ends before `MarkDeadLetter`
   leaves the webhook neither delivered nor flagged, and the rows of earlier attempts
   hide it from the gap scan. This takes a fault too: `NothingDropped` proves that
   without one no delivery leaves the queue unrecorded.
4. *Delivered twice.* The gap loop acts on a scan that is stale: a delivery that was
   in flight at the scan, and finished since, is sent again.
5. *Two active presets.* `Create` checks for an active version and inserts the next one
   in two statements without a transaction. Two concurrent calls can both pass the
   check and insert versions n and n + 1; both stay active, and a later `Deactivate`
   retires only one of them. `OneActiveIfCreatesAreSerial` shows that this overlap is the
   only way to get there.

## Proofs

Modules SystemProofs, LockProofs, RecoveryProofs and WebhookProofs prove the pipeline.
Their theorems hold for any set of jobs, slots and sweepers, any retry and recovery budget and any number of faults; the
assumptions are the ASSUMEs of the modules (`JobsAssumption`, `QueueAssumption`,
`WorkerAssumption`, `SweeperAssumption`: the constants have their types and `NoJob` is
not a job).

| Theorem | States | Needs |
|---|---|---|
| `Typing` | `Spec => []TypeOK` | `Typed` (`StateTypeOK`; one lemma per component), `TaskMoves` |
| `Finality` | `Spec => FinalStatusIsFinal` | `RowSteps` |
| `DoneIsDownloadable` | `Spec => []DoneHasOutput` | `OutputInv` |
| `Refinement` | `Spec => ImplementsLifecycle` | `OutputInv`, `RowInv` |
| `UniqueTask` | `Spec => []OneLiveTask` if `~LockMayLapse` | inductive as it stands |
| `NoWastedWork` | `Spec => []NoWorkAfterDone` if `~LockMayLapse` | `WorkInv`, `UniqueTask` |
| `SweepsCounted` | `Spec => []OneSweepPerSession` | `SweepInv` |
| `Budget` | `Spec => []RecoveryBudget` | `AccountInv`, `SweepInv` |
| `Honest` | `Spec => []HonestCount` | `AccountInv`, `SweepInv` |
| `Earned` | `Spec => []ExhaustIsEarned` | `CapInv`, `Honest` |
| `TrueVerdicts` | `Spec => []VerdictIsTrue` | `VerdictInv` |
| `OneWord` | `Spec => []OneAnnouncer` | `AnnounceInv` |
| `OnlyFaultsMislead` | `Spec => []FaultlessVerdicts` | `SettledInv`, `KindInv`, `AnnounceInv`, `SweepInv` |
| `NothingDropped` | `Spec => NoSilentDrop` | `RecordInv`, `KindInv`, `OutputInv` |

The argument has two summaries of the whole next-state relation. `RowSteps` says what a
step can do to the rows: nothing, insert a new one, move an in-flight one, finish an
active one from a handler at `MarkDone`, or add an output from a handler at
`AddOutput`. `PcMoves` says how a handler can get where it is: into `process` only with
the row active, to `AddOutput` only with the object stored, to `MarkDone` only with the
output row inserted. The theorems of SystemProofs and LockProofs use only these two.

* `DoneHasOutput` is not inductive: nothing in it forbids a handler at `MarkDone`
  without an output row. `OutputInv` adds what a handler has already stored, and that
  every output row names a stored object.
* The refinement maps `status` to `phase` (queued and active are both pending, so
  `MarkActive` and `RequeueStale` stutter) and the output rows with an object to
  `result`. A second `AddOutput` for a done job stutters because of `OutputInv`; that
  no output appears for a job without a row is `RowInv`.
* `NoWorkAfterDone` relates two handlers: the one that makes the job done and another
  that would still be in `process`. `WorkInv` adds that conversion steps belong to
  convert tasks; `OneLiveTask` then makes the two handlers one.
* `VerdictIsTrue` needs that a verdict read and not yet sent is still the row's
  (`VerdictInv`), which is `Finality` again.

RecoveryProofs is a counting argument over the sweepers. A sweeper that is in a sweep
without holding the advisory lock is a *stray*. Losing the lock is a fault, so
there is at most one stray per fault (`SweepInv`, which also has one leader, no job
twice in a walk and no missing row in it); `OneSweepPerSession` follows. Neither
`RecoveryBudget` nor `HonestCount` is inductive: they leave out that a sweeper has read
the count and not pushed yet, or pushed and not counted yet. `AccountInv` keeps three
accounts per job:

* *Counted*: the recovery count, plus one for each sweeper that has pushed and has not
  counted yet, is at most the pushes plus the faults. `HonestCount` follows. A debt is
  settled by a `RequeueStale` that commits; the second call after a lost answer is what
  a fault pays for.
* *Capped*: the pushes, plus one for each stray that may still come to the job in its
  walk, plus one if the leader has found the job under the cap, are at most
  `MaxRecoveries` plus the faults. `RecoveryBudget` follows. A stray looks at the count
  too, but the count may miss pushes that are still owed, so the proof lets the fault that
  made it a stray pay for its one push. A stray that lost its session between `TryAcquire`
  and the scan may still come to any job (`MayPush`).
* *Covered*: when the leader compares the count with the cap, the count plus the faults
  must be at least the pushes made and those in the hands of strays; otherwise the
  leader could clear a job once more than *Capped* allows. This holds only while the
  job is *open* (in flight, or still ahead in a leader's walk): a `RequeueStale` that is
  refused because the job was settled meanwhile leaves a push uncounted without a
  fault. That is harmless because no later scan returns the job.

`Entries` gives, for each step of a sweeper, what it adds to the three accounts of each
job (one lemma per kind of step), `Sums` that the sums over all sweepers change by
exactly that, and `BooksKept` puts the two together. `Earned` adds that the count a
sweeper has seen at the cap never goes down (`CapInv`).

WebhookProofs has a third summary of the next-state relation, `TaskMoves`: a task
enters a handler of its own kind only, is about to announce a verdict only after it wrote
that verdict itself, to a job with a `callback_url`, sends the status it has read, and is
pushed as a webhook only by someone who was about to (`Due`).

* `Typing`: `HooksHaveUrl` is preserved because of that, and because a sweeper gets to its
  two enqueues only for jobs with a `callback_url` (`SweepHooks`).
* `OneAnnouncer`: a worker gets to `EnqueueWebhookDeliver` only through a transition out
  of an in-flight status, after which no other worker can make one; with any number of
  live tasks for the job.
* `SettledInv`: as long as there was no fault, whoever is about to enqueue a webhook, and
  every webhook under way, is for a settled job. The cap branch is the delicate case: it
  goes on after a refused `MarkFailed`, and a refusal means that the job is settled only
  because the rows of a scan exist (`SweepInv`).
* `NoSilentDrop` needs `OutputInv`, so that a delivery is not given up for a done job
  without outputs, that the test for the last attempt in `RecordFailure` is the negation
  of asynq's, and that a handler which returns nil has recorded its delivery
  (`RecordInv`).

Only `UniqueTask` and `NoWastedWork` assume `~LockMayLapse`; everything else is what is
left when a TTL is too short.

WebClientProofs proves the page for any sets of jobs, clients, keys and key-field
contents, any number of polls in flight and of faults, from `ApiAssumption` and
`PageAssumption` (`Trim` yields a key or nothing, and leaves a key as it is; the null
values are not jobs or files).

| Theorem | States | Needs |
|---|---|---|
| `Typing` | `Spec => []TypeOK` | inductive as it stands |
| `ReloadKept` | `Spec => ReloadKeepsKey` | `StoredInv` |
| `TrueVerdictsShown` | `Spec => []ShownVerdictIsTrue` | `ApiInv`, `ReplyInv` |
| `LatestShown` | `Spec => []ShowsLatestJob` | `PollInv` |
| `PollsCurrent` | `Spec => []LivePollsAreCurrent` | `PollInv` |
| `VerdictsStay` | `Spec => VerdictStays` | `PollsCurrent` |

* `ApiInv`: a done job has its result, and a client's job exists. `ReplyInv`: every body on the card or on its way
  to it is one the API could still vouch for: a verdict in it is the job's, a download
  link stands for a result. It is preserved because jobs settle once
  (JobLifecycle), which is why the order of the answers does not matter.
* `PollInv`: the interval and every live call have the card's job and the field's key,
  also between an answer and its render, and nothing polls while an upload is in flight.
  Without it nothing keeps a poll of an old job from landing in that gap.
* `StoredInv`: localStorage holds what the storage effect would write for the key and
  the box now on the page.

PresetsProofs proves the presets for any number of clients, calls, submissions and
versions, from `PresetsAssumption`.

| Theorem | States | Needs |
|---|---|---|
| `Typing` | `Spec => []TypeOK` | inductive as it stands |
| `Immutability` | `Spec => VersionsOnlyGrow` | `RowSteps`, which needs `LockInv` and `GrowInv` |
| `Revival` | `Spec => OnlyCreateRevives` | `RowSteps` |
| `FreshPresets` | `Spec => RetiredIsNeverUsed` | `Late`, `RowMoves` |
| `OneActiveIfCreatesAreSerial` | `Spec => []OneActiveVersion` if at most one caller may create | `CreateInv`, `LockInv`, `GrowInv` |

* `RowSteps` is again the summary of what a step can do to the rows: nothing, an insert
  of `Create`, an update or a deactivation of an active row.
* `LockInv`: the rows a transaction has locked are active and no other transaction has
  them, so what an `Update` or `Deactivate` read is still so at its commit.
* `GrowInv`: the versions of a name have no gaps below the highest, and the version an
  insert of `Create` was computed for is at most the next one. Then a free version is
  the next version, which is what makes the unique index enough against the races.
* `Late`: the request has been refused, or it is uploading and its version is retired. It
  is for ever, because a retired version stays retired (`RetiredStays`) and `Resolve`
  returns active versions only, so the second resolution sees another row or none.
* `CreateInv`: with a single creator, no name has an active version while that
  creator is past its check. It is exactly what two overlapping creators break.

Only model-checked: liveness (`SettlesEveryJob`, `EventuallyAttempted`, `SubmitReturns`,
`VerdictReachesPage`), which is outside the prover's reach. Every invariant and every
action property that a passing run checks is also a theorem.

## Not modelled

* A handler that keeps running after asynq took its lease for expired: a crash ends
  the handler here.
* The branch for an engine without a queue (API and reconciler): the registry
  produces no such engine. It changes no state beyond a row that stays queued.
* `RecordWebhookGapRecovered` and the rest of the audit trail in `job_events`.
* Expiry of objects by the bucket's lifecycle rules; `DoneHasOutput` is about the
  objects the pipeline itself stores.
* Duplicate `job_outputs` rows: they carry the same ordinal and key, and readers
  take the first.
* Of the front end: two tabs that share one localStorage, `StrictMode`'s doubled
  effects in development, a 200 reply whose body is not JSON, the text of errors
  beyond the class `describeError` gives them, layout and `vite.config.ts`.
* Of the presets: the REST handlers around the repository and the validation of a
  preset's contents; names are independent of each other, so one name is modelled.
  Nothing is claimed about the time between the second resolution and the insert of the
  job: no row is locked there, the model has it as a step of its own (`InsertJob`), and a
  version retired in it is used.
* The dedicated connection of the advisory lock, the TTL arithmetic of the unique
  locks, key rotation and the MCP server: planned below.
* Parsing, formats, engines, metrics and deployment: see the components in PROJECT.json
  for the reason of each.

## Plan

Done: the pipeline, the page and the presets. Next, in this order:

1. **UniqueLock** — the arithmetic of `queue.go` (retry schedules, backoff sums,
   TTLs) as functions, with a clock: when a lock outlives its task, and by how much a
   queue wait may exceed the margin. Replaces the constant `LockMayLapse` by a cause.
2. **AdvisoryLock** — the dedicated connection: lazy re-acquire, hard close, and
   `Close` against `TryAcquire` at shutdown; refines the `leader` of Reconciler.
3. **ClientKeys**, **McpSession** and **McpConvert** — key rotation, session bindings
   and their sweep, the blocking convert loop.
4. **Classify** — the classifiers of `worker.go` over the errors `process` can return,
   as the refinement of `Terminal`.
5. Pure algorithms with loops: CFB sector chains, EBML sizes, image dimension scans.
