# A TLA+ model of mpiper

mpiper is a media pipeline of two services. A Go API server hands out presigned
upload URLs and confirms uploads; Python workers make image and video variants.
They share a PostgreSQL database, an object store and the Redis stream
`media:jobs`. This directory models the parts that carry the program's state,
checks them with TLC on small instances, and proves the main safety properties
with TLAPS for instances of any size.

    tlc -workers 2 -config Concurrent.cfg MCPipeline    # a run
    tlapm PipelineProofs.tla                            # a proof

## Inventory

| Part | State | Operations | What makes it hard |
|---|---|---|---|
| Asset service, repository (`internal/service`, `internal/repository`) | rows of `assets`, `jobs` | `CreateAsset`, `MarkAssetUploaded` | repeated calls, lost commits, a crash or a failed enqueue after the commit |
| Stream queue (`internal/queue`) | the stream | `Enqueue`, `doXAddWithRetry` | ambiguous XADD, retries, MAXLEN |
| Consumer (`worker/consumer`) | rows, group position, sweep timer | `consume`, `_handle_job`, `_handle_asset_message`, `_recover_stuck_pending` | several workers, redelivery by the sweep, crashes at any point, stale reads |
| Dispatcher and pipelines (`worker/processing`) | `assets`, `variants.*`, `asset_*_variants`, objects | `process_asset_dispatch`, `process_image_file`, `process_video_file` | many transactions per job, partial failure, content shared between assets |
| Schemas (`db/migrations`, `internal/database/migrations`) | columns and constraints | the worker's statements | two schemas, and statements written apart from both |
| Migration runners (`migrate.go`, `migrations.py`) | `schema_migrations` | `RunMigrations`, `run_migrations` | simultaneous starts, crashes, one table with two meanings |
| Presign limiter (`internal/router`) | map of limiters | `getLimiter`, `Allow`, eviction | token taken after the unlock, eviction |
| `ExecTransaction` (`internal/repository`) | attempt counter, open transaction | the retry loop, backoff | retry of a commit, overflow; it has no caller yet |
| API process (`cmd/server`, `internal/server`, `internal/database/pg.go`) | stage of `main`, pool, tracer, meter, listener | start, `Start`, signal, `Shutdown`, deferred calls | a signal at any moment, failures at start, requests that outlast the grace, panics in deferred calls and goroutines |
| Middleware and handlers (`internal/middleware`, `internal/router`, `internal/handler`) | a request's place, context, statuses | the chain of `NewRouter`, in and out | four views of one answer, panics, deadlines and clients that go away |
| Configuration and factories (`internal/config`, `storagex/factory.go`, `queue/redis.go`) | the singleton `instance` | `getEnvConfig`, `New`, `MustGetRedisClient` | a value that is accepted and fails later |
| Observability (`internal/metrics`, `pkg/logger`) | gauge, counter, providers | `recordHTTPMetrics`, depth callback, shutdown of the providers | callbacks in a goroutine of their own, the last export |

The parts share state in three places: the two services the database, the stream and the
object store; the requests of one API process its pool, Redis client, limiter and
instruments; and all processes the table `schema_migrations`. What is left out is listed
under *Not modelled*. The
file `PROJECT.json` lists every part with its status, and every hazard with
the line where it bites and the properties aimed at it.

The properties that make the system correct: a ready asset and a done job have
all their variants; rows never point to missing objects; a job exists exactly
for a confirmed upload, and messages name only existing jobs; a claimed job
settles; a confirmed upload is processed, and a fault strands at most one; the limiter is
a token bucket per key; a service runs only on a migrated database; a retried
transaction is applied once, unless an error is mistaken for a conflict; what the API counts, traces and logs is what it answered, and it stops
without cutting off requests within its grace or losing their metrics. Some of the promises that the documentation makes do not hold:
see *Findings*.

## Modules

    SqlSchema <- MediaStore <- AssetService --+
                       ^                      +-- Pipeline <- MCPipeline
                       +------ JobConsumer ---+      |
    JobLifecycle, SharedLifecycle <-- refined by ----+
    PipelineProofs <- JobProofs, VariantProofs <- LifecycleProofs

    TokenBucket <-- refined by -- RateLimiter <- RateWindow <- MCRateWindow
                                                     ^
                                                     +----- RateLimiterProofs
    TxRetry <- TxRetryProofs          Migrations <- MigrationProofs

    EnvConfig <- ServerProcess <- RequestChain <- ApiServer <- MCApiServer
                                                      ^
    GracefulServer <------- refined by ---------------+------- ApiServerProofs

* **SqlSchema** - the columns, NOT NULL constraints and keys of both schemas, and
  the statements of the worker. `Executes` says whether PostgreSQL accepts one. The
  schema `"worker"` accepts everything: it stands for a database that has what
  the worker writes, and is used to reach the video pipeline beyond its poster,
  which neither schema of the repository allows.
* **MediaStore** - what the processes share. A job is named by its asset (unique
  index on `(asset_id, type)`), a variant by content and role, which
  `variant_hash` is a hash of. `stream` holds the messages not yet delivered to
  the group. The group's pending-entries list is left out: the code never reads
  it, so an unacknowledged message and an acknowledged one have the same
  future. `stale` are the jobs whose `updated_at` is over two minutes old.
* **AssetService** - the API. `CreateAsset` and `CompleteRequest`, `StatObject`,
  `MarkUploadedTx`, `Enqueue` are the steps of the two handlers; `ApiCrash` ends
  a request anywhere (a crash, or its context). `Type[a] = "other"` stands for
  a MIME type that the handler refuses.
* **JobConsumer** - the worker. One action per transaction, storage call or stream
  command; `pc[w]` is the place in the code. `Recover`/`Requeue` are the sweep,
  `Read` XREADGROUP, `EnsureJob` `_handle_asset_message`, `Claim` ... `Finish`
  `_handle_job` and, between `load` and `videofail`, `process_asset_dispatch`.
  An exception in the first `consume()` kills the process (`booting`), later ones
  return to the loop.
* **Pipeline** - their composition, the properties and the parts of the inductive
  invariants. **MCPipeline** holds the values of constants for TLC.
* **JobLifecycle** - the abstract specification for one worker: asset and job advance
  together.
* **SharedLifecycle** - the abstract specification for any number of workers, which may
  hold one job at the same time. A late outcome may overwrite another one there; what it
  still promises is that nobody writes an outcome before a claim, that a done job is not
  claimed, that "ready" and "done" are written only when all variants are made, and that
  what is made stays made. Its `made` is Pipeline's `Made`, the assets that are `Complete`.
* **TxRetry** - `ExecTransaction` with `shouldRetry` and `sleepWithBackoff`. Errors
  are abstracted to what `shouldRetry` tells apart and to what they mean. That a
  conflict at COMMIT means "not applied" is PostgreSQL's promise; any other commit
  error leaves it open. `shouldRetry` looks for `40001`, `1213`, `deadlock` and the
  like anywhere in the text, so it also retries a `"lookalike"`: an error that is no
  conflict and has such a marker in it, such as a lost connection to or from a port
  with these digits. `lookalikes` counts those at COMMIT. `Overflows` keeps the 64-bit width: Go leaves the conversion of a float
  that does not fit to the platform, so `Pause` may go on or panic.
* **RateLimiter**, **TokenBucket** - the limiter, and what it promises. A tick is a
  tenth of a second, in which a bucket earns one token. A bucket belongs to a key, and
  `Key` is what the middleware takes for one: the first address of the request's
  `X-Forwarded-For` (`Forwarded`), else `RemoteAddr`, a connection with its port
  (`Connections`).
* **RateWindow** - the limiter with an observer, who may open a window at any moment and
  counts what passes from then on, by key (`passed`) and by the address at the other end of
  the connection (`served`). The observer reads and writes nothing of the limiter's.
  **MCRateWindow** holds the symmetry for TLC.
* **Migrations** - both runners. The behaviour of golang-migrate (advisory lock, one
  version row with a dirty flag) is known from its use and marked external.
* **EnvConfig** - what the environment decides: which sets of variables
  `getEnvConfig` refuses, and what the storage factory and the Redis client do with the
  rest. A value is unset, bad for the code that uses it, or good.
* **ServerProcess** - `main` stage by stage, with the goroutine of `ListenAndServe`, the
  meter's reader, signals, `Shutdown` and the deferred calls. `exit` tells apart the ways
  the process can end, of which some run the deferred calls and others do not.
* **RequestChain** - a request's way through the middleware and back, returning or
  panicking. `code` is what the wrappers of metrics and tracing hold (the last status),
  `sent` what the client gets (the first). `Service` has the outcomes of the two services,
  whose steps are those of AssetService.
* **ApiServer** - their composition and properties: the requests keep `Shutdown` busy, and
  `main` closes what the requests use. **MCApiServer** holds the environments for TLC.
* **GracefulServer** - the abstract specification of the stop: serving, draining, closing,
  ended. `Phase` maps the stages of `main` to it and `Connected`, `Taken`, `AnswerOf` the
  places of the requests; `overdue` is `expired`. A fatal error, a crash and a kill are `lost`.

An operator whose comment begins "A mutant" is a wrong variant of the operator after
it. `PROJECT.json` names, for each property, a mutant that breaks it, so that each
property is known to depend on the code it is about.

### Abstractions

* A fault is one of `"crash"`, `"db"`, `"redis"`, `"storage"`; a failed commit, XADD or
  upload may or may not have taken effect. `MaxFaults` bounds their number.
* `attempts` saturates at `MaxRetries`: the code only asks whether it has reached it.
* `Corrupt` are the files that do not decode; where the failure shows, in the probe
  or in a variant, is left open.
* `content_hash` is read and never written by the code, so duplicates are only found
  for assets in `Backfilled`, whose column was filled from outside. `FOR UPDATE SKIP
  LOCKED` passes over rows that may be locked at the time (`MaySkip`). Cloning a
  duplicate calls `conn.commit()` inside `conn.transaction()`, which psycopg
  refuses: `CloneRaises`.
* `StreamCap` keeps the stream finite: no sweep becomes due and no worker crashes
  while that many messages wait. Sweeps that are due still run.
* In `RateLimiter` a goroutine is suspended for at most `Delay` between the unlock and
  `Allow`. `RefillAssumption` (`Burst + Delay <= TTL`) holds for the code's 20 tokens and
  3000 ticks for any delay below 298 s. Limiters are drawn from `Lims`, and an
  unreferenced one may be reused as a new allocation.

## Runs

| Run | Instance | Shows |
|---|---|---|
| `Concurrent` | 1 video with 2 roles, schema `"worker"`, 2 workers, 2 requests, 1 fault of any kind, MAXLEN 1, no group at first, a foreign asset message | `TypeOK`, `JobIffUploaded`, `MessagesHaveJobs`, `ReadyIsComplete`, `DoneIsComplete`, `RowsAreStored`, `OutcomesAreCounted`, `SharedLifecycleSpec` |
| `Duplicates` | 2 corrupt images of one content, one backfilled, 2 workers, a crash or a database error, an unreadable message | `RetriesAreUsedUp`, `SharedLifecycleSpec` |
| `Recovery` | 2 images of one content, one backfilled, and a video, 1 worker, 2 faults of any kind, fair | `StrandedByFaults`, `ClaimedSettles`, `CommittedSettles`, `LifecycleSpec`, `AssetFailsWithJob` |
| `TxRetry` | limits 0, 1, 3, 38, 40 | `TypeOK`, `AppliedUnlessMistaken`, `NoOpenTransaction`, `PanicsBeyond38`, `EveryStepCounts`, `Returns` |
| `RateLimiter` | 2 keys (a connection and a forwarded address), 2 requests, burst 2, TTL 3, delay 1, 6 ticks, windows opened at any time | `TypeOK`, `OneBucketPerKey`, `WindowBound`, `BucketSpec` |
| `MigrationRace` | 2 servers, 2 workers, 1 crash | `TypeOK`, `UpIsMigrated`, `InOrder` |
| `ApiServer` | 2 requests, 12 environments, every outage, panics, fair | `TypeOK`, `ActiveIsInFlight`, `ReportsAgree`, `PanicsAreAnswered`, `ClosesAfterDrain`, `ServedIsExported`, `ReleasedOnExit`, `GracefulSpec`, `SignalEndsProcess`, `ReadIsAnswered` |

Why the bounds suffice to reach the interesting cases: two workers and one asset are
what duplicate delivery needs, and a video has the longest pipeline, with the store,
insert and link of each variant apart; one fault at any step gives every crash point,
ambiguous commit and lost message, and `Recovery` has two, so that the recovery
can be hit too; in `Duplicates` the backfilled image is never ready, so that the other is
retried to the end, and while one worker's failure handler has read the attempts the other
claims the same job (a state with `seen[w] < attempts[cur[w]]` is reached); two roles show a variant list that is partly done; `MaxRetries = 2`
has both a retry and a last attempt; MAXLEN 1 evicts while a message waits. In
`RateLimiter` an entry expires, is evicted and comes back within 6 ticks, with a request
still waiting. 38 is the last limit with which the backoff cannot overflow, and 40
reaches the overflow. Migrations have the two files of the repository. In `ApiServer` two requests let one
hold up `Shutdown`, or panic, while the other is served; the environments have both
storage providers, migrations on and off, and each single mistake a variable allows.
Symmetry
(workers, requests, limiters) is used only in runs whose properties are safety
properties that treat all of these alike.

The migration runs, `TxRetry` and `ApiServer` end (every process is up, the call has
returned, the process has exited), so they do not check for deadlock. All other runs do.

### Fairness

`WF` of a worker's steps: the loop of `main` never stops by itself, and Docker and
Kubernetes restart a worker that exits (`Start`). `WF` of a request's steps: a handler
runs to its end. `WF` of `Age` and `Elapse`: time passes. Nothing is assumed of clients,
foreign producers or faults, whose number is bounded: with unbounded crashes the code
promises no progress, as the claim does not check the attempts. In
`TxRetry` the call keeps running; in `Migrations` processes keep running and are
restarted. In `ApiServer` the goroutines of `main`, of `ListenAndServe` and of each request
are scheduled, the ten seconds of `Shutdown` pass, and the calls of the start-up (the
connect and ping of the database, the migrations, the construction of the clients) return,
with success or an error: they are steps of `main`, and `SignalEndsProcess` rests on that,
as a signal does not interrupt the connect or the migrations. Nothing is assumed of signals and of
what clients send: the server sets no read timeout, so a body may never come. That is why
`ReadIsAnswered` leaves out `/presign`, which reads one.

## Findings

Runs that must find a violation; each states what the repository says of itself.

| Run | Statement | What happens |
|---|---|---|
| `DoneReopened` | "deduping is handled by the jobs table" (`consumer.py:363`) | a late failure turns a done job into a failed one |
| `LostMessage` | missing messages are recovered (`consumer.py:16`) | the API's status `processing` is not one the sweep looks for |
| `EmbeddedSchema` | the embedded migrations set up the database (`README.md:123`) | every job fails, in the run at the first statement, the `UPDATE` of `width` and `height` (`images.py:74`), which `assets` lacks there; the variant columns and link tables of later statements are missing too |
| `MixedMigrations` | both services apply the migrations (`README.md:123`) | two incompatible tables of one name: server and worker need not both come up |
| `EachIP` | "Each IP is allowed 10 requests/s with a burst of 20" (`router.go:31`) | the key has the port of the connection, or is the client's own header (`router.go:68`): two connections of one IP have a bucket each |

What the models also show, seen with other values of their constants:

* The repository's flow has the server create "the asset + job" and return the upload URL
  (`README.md:46`). `CreateAsset` inserts the asset alone; the job is inserted by
  `MarkAssetUploaded`, in the transaction that ends `uploading`. `JobIffUploaded` states what
  the code keeps: a job never exists during the upload, which contradicts that line.
* `shouldRetry` (`asset_repo.go:376`) takes an error for a conflict by its text. A COMMIT that
  fails with an unknown outcome and a marker in its text is tried again, and its effects may
  be applied twice; `AppliedUnlessMistaken` says that this is the only way.
* The sweep re-adds a job that has been in progress for two minutes, and a second worker
  claims it (`consumer.py:217`): status checks alone do not keep two workers from the
  same heavy work. The proofs of the variant properties therefore assume nothing about it.
  `DoneReopened` is the price of it and `SharedLifecycle` the extent: statuses may go back,
  variants do not.
* `Recovery` with `Workers = {w1, w2}` and a single image: `ClaimedSettles` still holds with
  two faults, although one worker may reopen what the other has finished.
* The group is created at `$` (`consumer.py:99`). With `GroupExists = FALSE` a message added
  before the first worker came up is never delivered, without any fault.
* On the seed schema no video is processed: `generate_poster` returns no height, and
  `001_seed.sql:74` requires one.
* `process_video_file` writes the status `failed` (`videos.py:377`) before the consumer
  has decided about the job; `AssetFailsWithJob` is about the other types only.
* A worker that finds the server's `schema_migrations` looks for versions in a row that
  moves, and may come up before the last migration is applied.
* After a crash between the dirty and the clean mark no server comes up again without help.
* After a failed enqueue the client's retry of `/complete` finds the asset uploaded, answers
  success and enqueues nothing (`asset.go:237`): the job stays stranded although the client
  has been told that all is well. `StrandedByFaults` counts it, `CommittedSettles` exempts it.
* A Redis URL that cannot be parsed is no error at start (`asset.go:63`): the server comes up
  with a nil client, the depth callback panics in the reader's goroutine and the process
  crashes. No property is stated about it: the crash is the only one the model has.
* A `/presign` whose deadline passes before the service is called is dropped without an answer
  (`asset_handler.go:93`): it is counted and traced as 200 while `Timeout` sends 504. This is
  the exception in `ReportsAgree`.
* A panic leaves no "Request completed" entry, and no status on the span.
* `Shutdown` gives up after 10 s and a handler may take 30 s: `ClosesAfterDrain` needs
  `expired`. A fatal error, such as a port in use, skips all deferred calls
  (`ReleasedOnExit` is about the other ends).
* An error of `Sync` panics at the end of an orderly shutdown (`main.go:52`).

Read in the code and not modelled: `SetConnMaxLifetime(300)` and `SetConnMaxIdleTime(30)`
(`pg.go:38`) are nanoseconds; `AssetUploadTotal` is counted by handler and service;
`http.route` is read before chi has matched a route.

## Proofs

All theorems hold for every value of the constants that satisfies the named `ASSUME`s,
which TLC evaluates in the runs.

* **TypeCorrect** (`PipelineProofs`): `TypeInv` = `TypeOK` plus "what is in hand is an
  asset" (`RequestsInHand`, `WorkersInHand`), needed because statuses are written at
  `cur[w]` and `reqAsset[r]`.
* **JobIffUploadedHolds, MessagesHaveJobsHolds, OutcomesAreCountedHolds** (`JobProofs`):
  the three are inductive only together and with `CommittedInHand` (`JobInv`): a
  worker past its claim holds a job that is beyond the API's status, so what it
  writes later, however late, cannot leave the pairs of statuses that are allowed. Jobs
  and messages only move forward (`JobsGrow`), which carries the facts about
  processes that did not take the step.
* **ReadyIsCompleteHolds, DoneIsCompleteHolds, RowsAreStoredHolds** (`VariantProofs`):
  `VariantInv` adds `LinksHaveRows` and each worker's `Progress` through the roles:
  everything behind it is linked, the variant in hand is stored before its row. Rows,
  links and objects are never removed (`VariantsGrow`), so a worker's progress
  survives the steps of all others - which is why these hold although several
  workers may process one asset.
* **StrandedByFaultsHolds** (`JobProofs`): the safety half of `CommittedSettles`. A job
  that the API committed and nobody has claimed has a carrier (`OnItsWay`): a request about
  to add its message, a message on the stream, or a worker about to claim it. Without a
  carrier it is `Stranded`. A step without a fault passes the carrier from hand to hand
  (`ApiCarries`, `WorkerCarries`), and a step with one harms no job but the one in the
  hand of the process it hits, or the one whose message is read (`ApiSpares`, `WorkerSpares`,
  `Touched`), so the number of stranded jobs stays within that of the faults
  (`StrandedCount`). The group must be in place, and MAXLEN must evict nothing
  (`[]BelowLimit` in the theorem); both are needed.
* **SingleWorkerRefines** (`LifecycleProofs`): with at most one worker, `Spec` implements
  `JobLifecycle`. `SoleOwner` says that the worker's rows are as it left them; the run
  `DoneReopened` shows that this fails with two.
* **WorkersRefine** (`LifecycleProofs`): with any number of workers, `Spec` implements
  `SharedLifecycle`. Ownership is not available, so the argument rests on what no other
  worker can undo: a claimed job stays claimed (`JobInv`), and `VariantInv` says that a
  worker at the step that writes "ready" has every variant behind it. `made` grows only by
  the step that links a last variant; that step changes no status, which is why a role list
  must not be empty (`RolesAssumption`): an asset without variants would be complete
  before its job exists.
* **AppliedUnlessMistakenHolds, NoOpenTransactionHolds** (`TxRetryProofs`): `TxInv` =
  `TypeOK` and `RunningUnapplied`: while the call runs, only lookalikes have applied
  anything, because what is retried is a conflict, which applies nothing, or one of them;
  the last attempt may add one more.
* **OneBucketPerKeyHolds, LimiterRefines** (`RateLimiterProofs`): `LimiterInv` relates
  the times: a waiting request has `lastSeen` at least its own start and
  waits no longer than `Delay`, so its entry cannot have expired; a bucket was last
  used within `Delay` of `lastSeen`, so at eviction it is full again and replacing it
  by a new one is a stutter of `TokenBucket`.
* **WindowBoundHolds** (`RateLimiterProofs`): in `t` ticks, wherever they begin, no key
  gets more than `Burst + t` requests through. `PassedAndLeft` makes it inductive: what passed
  in the window and what the key could still spend at once do not exceed `Burst + t`.
  An eviction leaves what can be spent unchanged (`AvailableRange` and the refinement's
  argument that the evicted bucket is full), so nobody gains by falling silent. It is a
  bound for a key, not for an IP, as `EachIP` shows.
* **UpIsMigratedHolds, InOrderHolds** (`MigrationProofs`): for any mix of servers and
  workers. `MigrationInv` says that the records are true, that the lock holder
  knows the row, and that a worker on its own table has seen every version before
  `next[w]` recorded. `UpIsMigrated` speaks of a process on a table of its own kind
  (`OwnTable`): a worker on the server's table may come up too early.
* **AssetFailsWithJobHolds** (`LifecycleProofs`): for assets other than videos, with
  any number of workers. Only a worker with a video reaches the step that writes the asset's
  status before the job's, and all other failures write both.
* **RetriesAreUsedUpHolds** (`LifecycleProofs`): with any number of workers. `SeenIsPast`: the
  attempts that the failure handler read are never ahead of the row, because the counter only
  grows, so a stale read can retry too often and never give up too early.
* **EveryStepCountsHolds** (`TxRetryProofs`): every step of a call lowers `Remaining`, six for
  each attempt that is left and the place in the loop, except the one in which the context
  ends. So a call takes fewer than `6 * maxAttempts` steps, whatever the database answers;
  with the fairness of the run that gives `Returns`.
* **PanicsBeyond38Holds** (`TxRetryProofs`): `FitsBelow38` shows that the doubled base delay
  fits into 63 bits up to attempt 37. **TxTypes**, **LimiterTypes**, **MigrationTypes** are the
  type invariants of the three smaller models.
* **ApiServerProofs**: all seven invariants of `ApiServer`, for any finite set of requests, any
  environments and outages. The inductive invariant has one part per request and three
  about the process. `Reported` follows a request: while it is under way nothing or exactly
  one status has been written and recorded, depending on its place (`Underway`); at the end
  the four views fit (`Settled`). It speaks of one request only, so the steps of others
  keep it by `RequestFrame`. `Progress` ties what is open to the stage of `main`, `Ends` the
  exit to what caused it, and `Drain` says that `main` passes `Shutdown` with a busy request
  only when the grace has expired. From these follow **ReportsFit**, **PanicsGetAnswers**,
  **DrainsFirst**, **ExportIsComplete** and **MainReleases**;
  **GaugeIsRight** needs that each step moves at most one request in or out of `Measured`.
* **StopsGracefully** (`ApiServerProofs`): `Spec` implements `GracefulServer`. A step of the
  process is a change of phase that leaves the requests alone (`Phases`,
  `ProcessIsGraceful`); a step of a request leaves the phase alone and connects, takes,
  answers or drops that one request (`RequestMoves`, `RequestIsGraceful`). That requests
  still move in the closing phase only after the grace is `Drain`, and that an answer is
  written once is `Reported`.

Only model-checked: the liveness properties (`ClaimedSettles`,
`CommittedSettles`, `Returns`, `SignalEndsProcess`, `ReadIsAnswered`), which are outside the
prover's reach. Every other property of a passing run is proved. Of two of
them the safety half is proved too: `StrandedByFaults` and `EveryStepCounts`.

## Not modelled

* The operations of the storage adapters (`storagex/gcs.go`, `s3.go`, `worker/storage`): stateless
  calls of cloud SDKs. Their outcomes - found, missing, failed, and for an upload unknown -
  are in `StatObject` and the store steps of the pipelines, their construction in `EnvConfig`.
* Token encryption, hashing and error formatting: pure functions over bytes; the models have
  whether a token is accepted, and content instead of its hash.
* Pixels, codecs and ffmpeg: a variant is made or fails.
* A second PUT to a presigned URL, which is valid for five minutes, after `/complete`: an
  asset's content is fixed in the models.
* The worker's configuration and telemetry, the other instruments of the API, and the fields of
  log entries and spans: nothing in the code depends on them.
* The webhook tables, which no code uses, and the deployment files.

## Plan

Done, in this order: the shared store and the pipeline; its abstract life cycle; the
proofs about jobs, variants and the life cycle; the transaction helper; the limiter;
the migrations; the API process with its middleware and configuration; theorems for all
safety properties; the abstract specifications of several workers, of the limit over a
period and of the graceful stop, and the proofs that the code implements them.

Next:

1. The safety half of `ReadIsAnswered`: every step of a request, whichever way it takes
   through the middleware and back, brings it closer to its answer, so that a request takes
   a bounded number of steps. The same of a worker's pass over one job.
2. The deduplication path as it is intended: `clone_image_variants` and
   `clone_video_variants` with the transaction committed, as a module of its own
   beside `JobConsumer`, and what it promises about the variants of a clone, once
   the code can take it.
3. A proposed claim protocol (status and ownership in the `WHERE` clause) checked
   against `DoneIsFinal`, if the code adopts one.
