# Verification of yt-transcript-service

TLA+ models of the service's own logic, the TLC runs that check them on small
instances, and TLAPS proofs of what matters most for every instance. Paths are
relative to the repository root; `app/` stands for `src/app/`.

## 1. The system

A FastAPI application (`uvicorn --workers 2`) serves transcripts of YouTube
videos. What captions cannot provide is transcribed by Whisper, and Whisper
transcripts can be enriched with speakers, in background jobs that RQ workers
run. Postgres holds the durable state, Redis the locks, rate-limit counters and
RQ queues. A monitor scheduler polls channels and dispatches new videos.

| process | runs | scheduling |
|---|---|---|
| API (2 processes) | route handlers as coroutines | every `await` can interleave with any other coroutine or process |
| `app.worker whisper`, `app.worker enrichment` | one RQ task at a time in a forked work-horse | RQ's job timeout (180 s by default) raises inside the task; a killed work-horse is not retried |
| `app.worker default` (with scheduler) | webhook deliveries | retries re-enter the queue after a delay |
| monitor scheduler | one poll at a time | a 10 s loop, monitor set reloaded every 300 s |

### Components

| component | state | operations | hard behaviours | what makes it correct |
|---|---|---|---|---|
| Job pipeline (`jobs.py`, `worker.py`) | `lock:{op}:{video}` in Redis, `jobs` rows, RQ queues | enqueue_job and its duplicate, steal and undo paths; the two task bodies; mark_* | lock, row and queue are three separate writes; crashes between them; lock TTL; a stealer racing a new holder; RPUSH applied but reported as failed | one active job per video and operation; no lock deleted by a stranger; ids handed out resolve; complete means stored; every job settles and every lock comes back |
| Transcript cache (`cache.py`) | `transcripts` rows | get, put, put_chapters, put_diarization, purge | records read minutes before the partial update they lead to; refresh and delete in between; expiry | speaker tags belong to the text of the row; no partial update revives a purged row |
| Audio (`whisper/audio.py`) | one file per video id in the temp directory | download, cleanup, split | two task types share the file | no task loses the file it works on |
| Orchestrator (`transcript_service.py`, `ingest.py`) | none of its own | get_or_fetch, wait loop | cache, captions, lock and job observed at different times | the tag and id of the answer match what was done |
| Webhooks (`webhooks.py`) | deliveries in RQ's `default` queue | deliver, retry with delay | lost answers, duplicate deliveries, attempts at the limit | at most `webhook_max_attempts` posts; no post after a success was seen |
| Monitors (`monitor_scheduler.py`, `monitors.py`) | `monitors` rows, a cached copy, `next_runs` | create, pause, delete, poll, reload | the cached copy is up to 300 s old; a failing video stops the walk | no new video is skipped; the cursor only passes dispatched videos |
| LLM cost cap (`llm/fallback.py`) | `llm_call_log`, a 60 s cache per process | check, dispatch along the chain, log, invalidate | check-then-act across coroutines and processes | the overshoot is bounded by the calls in flight |
| Rate limiter (`middleware.py`) | Redis counters | INCR, EXPIRE, TTL | three commands, not one | at most `limit` admissions per window; windows end |
| Tokens (`auth.py`, `admin.py`) | `tokens` rows | create, revoke, lookup, bootstrap | concurrent startup, revocation during a request | one live row of the bootstrap token; workers come to serve; revoked tokens are refused |
| Derived results (`chapters.py`, `tasks/`) | `summaries`, `topics`, `sentiments` rows, `chapters_jsonb` | look up, compute, store | two computations at once; the transcript replaced meanwhile | a stored result belongs to the transcript it was made from |
| Whisper and diarization (`whisper/`, `diarization.py`) | none | fallback, split and stitch, speaker alignment | boundaries between parts, overlaps | parts cover the audio and fit the upload; snippets do not overlap; a snippet gets the speaker who overlaps it most |
| Parsing, schemas, URL checks, configuration, logging, metrics, clients | none that changes | pure functions and I/O | -- | not modelled |

Calls: the routes call the orchestrator, which calls the cache, `youtube.py`
and `enqueue_job`; the ingest loop and the monitor scheduler call the
orchestrator; workers call `mark_*`, the cache, the audio and Whisper
functions, and `enqueue_webhook`; `_merge_chapters` and `_merge_speakers` call
the cache, the LLM chain and `enqueue_diarization` after a transcript was found.

## 2. The plan

In this order, the most important behaviour first. Every module takes its sets
as CONSTANTS with named assumptions, has one action per operation and, where
theorems are stated, no RECURSIVE operator. All rows are done.

| # | modules | runs | theorems |
|---|---|---|---|
| 1 | `JobExclusion` (abstract), `JobPipeline`, `MC_JobPipeline`, `JobPipelineProofs` | `JobLocks`, `JobRows`, `JobPhantoms`, `JobDuplicate` | types, lease, exclusion, refinement, rows, answers, results, final rows, no phantom row |
| 2 | `TranscriptTable`, `TranscriptService`, `MC_TranscriptService`, `TranscriptProofs` | `TranscriptRaces`, `TranscriptEnds` | types, flags, chapters, no revival, completed jobs cached, audio released |
| 3 | `WebhookPromise` (abstract), `WebhookDelivery`; composed with module 1 in `JobsAndWebhooks`, `MC_JobsAndWebhooks`, `SystemProofs` | `JobSettle` | one place per delivery, the promise kept, announcements stored |
| 4 | `MonitorScheduler`, `MC_MonitorScheduler`, `MonitorProofs` | `MonitorPolls` | types, no video skipped, only newer, cursor advances |
| 5 | `LlmExecution` (cost cap, chain, ledger), `Intelligence` (the four task functions on top of it), `MC_Intelligence`, `IntelligenceProofs` | `LlmSpend`, `LlmResults` | types, whole chain tried, spend bounded, overrides apart, chapter sentiment, results stored |
| 6 | `Tokens` (rows and bootstrap), `Gateway` (authentication, limiter, routes, ingest loop), `MC_Gateway`, `GatewayProofs` | `Gateway` | types, twins only from bootstraps without the lock, limits, counters expire |
| 7 | `Outline` (chapters and speakers, pure), `Transcription` (split, backends, stitching, parts on disk), `MC_Transcription`, `TranscriptionProofs` | `Transcription` | types, whole audio, parts fit within the margin, stitching, own audio, disk reclaimed, chapters, speakers |
| -- | `FiniteLemmas` (induction, finite sets, folds and sums) | -- | lemmas for 5 to 7 |

How the models meet: `JobsAndWebhooks` runs the job pipeline and the deliveries
in one state space, joined at `enqueue_webhook`. The other models see their
neighbours as inputs: `TranscriptService` takes the outcomes of an enqueue that
module 1 establishes, `Gateway` and `MonitorScheduler` take the outcomes of
`get_or_fetch` (module 2), `Intelligence` takes a transcript that changes as
module 2 lets it change, and `Transcription` is the inside of module 2's `Work`.

## 3. Module 1: the job pipeline

### Correspondence

`JobPipeline` models `enqueue_job` and the bodies `_run_whisper_job_async` and
`_run_diarization_job_async`. A job is named by the id its call mints, so `Job`
is also the set of calls. A key is a (video, job type) pair, the granularity of
the Redis lock and of `_find_in_progress_job`.

| variable | code |
|---|---|
| `lock` | the value under `lock:{op}:{video_id}` |
| `row` | committed `jobs.status`, `none` while there is no row |
| `call`, `answer` | the await at which the call stands; the job id its client got |
| `queue` | RQ's Redis lists, one per job type |
| `at`, `doing` | the step and the job of each worker |
| `stored`, `notified` | results committed to `transcripts`; completion webhooks enqueued |
| `exposed` | history: jobs whose lock expired or was stolen while they were active, or whose task stayed in the queue after their call undid them |

Each action is one await. A step of `enqueue_job` is `Acquire` (SETNX), `Find`,
`Recheck` (after the 50 ms sleep), `Steal`, `Retry`, `Insert`, `Push`, and on a
failed push `Undo` and `Unlock`. A worker takes a task (`Take`), loads it
(`Load`, which ends the task if its row is missing), marks it running (`Start`), works (`Work`), stores (`Store`), marks
it complete (`Finish`), enqueues the webhook (`Notify`), marks it failed on any
exception (`Fail`) and releases the lock in `finally` (`Release`). `GiveUp` is
the outer `except` of the diarization body when `get_job` failed. The checks of
the diarization body (transcript cached, not captions, pyannote available) are
part of `Work`: each ends in `mark_failed`.

`_find_in_progress_job` orders by `created_at`, which is the start of the
inserting transaction and not the order of the commits; `Lookup` returns any
in-flight row of the key.

### Faults

The constant `Faults` selects what may go wrong in a run.

| class | what it does |
|---|---|
| `api` | an API process dies between two awaits of a call |
| `horse` | a work-horse is killed at any step of a task; RQ moves the job to its failed registry and does not rerun it |
| `step` | a database call raises or RQ's timeout fires; the interrupted commit may or may not have been applied |
| `redis` | a Redis command raises: either SETNX and the DELETE of a steal, which end the call, RPUSH, or `release_lock`, whose errors are swallowed as in the code; the command may or may not have been applied |
| `ttl` | a lock expires at any moment after it was won, which covers long waits in the queue |

### Runs

| run | instance | shows |
|---|---|---|
| `JobLocks` | 3 calls with callbacks, 1 whisper key, 1 worker; all faults (1,279,134 states) | `Exclusive`, `LeaseHeld`, `FinalStaysFinal`; the pipeline implements `JobExclusion` (`ImplementsExclusion`) |
| `JobRows` | 2 whisper calls and 1 diarization call of one video, 2 workers; step (82,586) | `QueuedHasRow`, `AnswerResolves`, `CompleteIsStored` |
| `JobPhantoms` | 3 calls, 1 key; redis, ttl (73,332) | `NoPhantomRow` |
| `JobSettle` | as `JobRows`, no faults in the jobs, fair; with the webhooks (module 3) | `JobsSettle`, `LocksFreed` |
| `JobDuplicate` | 2 calls, 1 key; no faults; violated | two accepted jobs of one video in flight |

Two more configurations lie beside the runs and are started by hand
(`tlc -config JobFailedWebhook.cfg MC_JobPipeline`); each ends in a violation:
`JobFailedWebhook` (redis; a webhook for a job whose row ends up failed) and
`JobLoadFault` (step; a task that keeps its lock).

`FinalStaysFinal` is about accepted jobs: a call whose push raised marks its row
failed and frees the lock, and if Redis had applied the push the task runs on
that row and may complete it. The code has no defence against this, so there is
no property to state of such a call but `NoPhantomRow`. What remains forbidden
is that an accepted job changes a final status in any way but one: its own task,
still holding its place at the worker, turns complete into failed because
`mark_complete` or the webhook raised.

Three calls are the smallest instance in which a stealer, the holder it robs
and a third call that finds the robbed lock free can be told apart. One worker
per queue is what the deployment runs. A second key is there for what two job
types of one video could confuse. In runs whose calls are interchangeable the
job ids are symmetric; the properties name no particular job.

`JobPhantoms` and `JobSettle` leave out the fault classes with which their
properties would be false, and the comments above these say so: a crash between
SETNX and INSERT really orphans a lock, a killed work-horse really leaves a row
in flight. What `JobRows` shows is proved for every fault class.

### Fairness

`FairSpec` asks weak fairness of each call that has started and of each worker:
the event loop resumes a coroutine whose await is over, and an RQ worker takes
the head of its queue and runs the task. Nothing obliges a client to call
(`Acquire` is not fair), and faults are never fair except that Redis does expire
a lock it was told to expire.

### What the code does differently from what it says

* `JobDuplicate`, without any fault: the first call wins the lock and needs more
  than 50 ms until its row is committed; the second finds the held lock without
  a row twice, takes its holder for dead, deletes the lock and wins it. Both
  insert and enqueue. Two accepted jobs of one video are then in flight,
  against `docs/specs/yt-transcript-service-spec.md:718` and `:951`.
* `JobFailedWebhook`: `_enqueue_completion_webhook` runs inside the `try` after
  `mark_complete`; an RPUSH that was applied but raised sends the webhook and
  turns the complete row into a failed one, against `app/worker.py:18`.
* `JobLoadFault`: when `get_job` raises, `finally` has no video id and keeps the
  lock until its TTL, against `app/worker.py:10`.

## 4. Module 2: transcripts

### Correspondence

`TranscriptTable` holds the operations of `app/cache.py` on the rows of one
video, one row per language, as operators on a table. A text is named by the
request or job that produced it; `text` is `full_text`, `snippets` names the
text the snippets were cut from, `tagged` says that they went through
diarization and `flag` is `has_diarization`. `TranscriptService` lets requests,
both workers, the admin purge and the expiry of rows work on that table.

| variable | code |
|---|---|
| `table` | the `transcripts` rows of the video |
| `audio` | the one file `%(id)s.%(ext)s` in the temp directory |
| `pc`, `polls` | the await at which a request stands; iterations of the wait loop |
| `status` | the `jobs` row of the job a request started, per worker |
| `doing`, `at`, `loaded` | job and step of a worker; the record the diarization loaded |
| `gone` | history: jobs that completed before a purge or an expiry |

A request is `Begin`, `PurgeFirst`, `Look`, `FetchCaptions`, `PutCaptions`,
`Probe`, `Enqueue`, `Poll` or `WaitOver`, and then, if it found a transcript,
`MergeChapters`, `DeriveChapters`, `MergeSpeakers` and `EnqueueDiarization` as
its `include` says. A task is `Take`, `Load` (diarization only), `Download`,
`Work`, `Store`, `Complete` or `Fail`, and `Cleanup`. The lock is seen from
outside: an enqueue starts a job if none is in flight, is given the one that
is, or fails; module 1 shows under which faults that is not so. A job whose
task RQ's timeout cancelled is `lost`: its row says running and its lock is
free. A timeout that strikes in `finally`, while `release_lock` is awaited, skips
`cleanup_audio`. A killed work-horse (`Kill`) leaves its file, its row and its
lock; when that reaches its TTL (`LockLapses`) the job is `lost`, too. `Work` is
the moment the task opens the audio file.

### Runs

| run | instance | shows |
|---|---|---|
| `TranscriptRaces` | 3 requests (forced and waiting, refreshing, plain), chapters and speakers; timeouts, kills (2,188,970 states) | `TagsMatchFlag`, `CompleteIsCached`, `NoRevival` |
| `TranscriptEnds` | 2 requests, chapters and speakers, fair; no task is timed out or killed (25,590) | `RequestsEnd`, `AudioReleased`, `ChaptersKept` |

Started by hand and violated: `CaptionsDiarized` (speakers on a captions row),
`AudioShared` (a task loses the file it works on), `AudioLeft` (a timeout during
the download leaves the file) and `ForeignComplete` (a complete job, and still a
cache miss).

Three requests are what the races need: one to produce a Whisper transcript,
one that looked before it was there, one that starts its diarization. Each
request runs once; a client that repeats a request is another request. One or
two polls stand for the fifty of a 25 s wait, as the loop keeps no other state.

### Fairness

`FairSpec` asks weak fairness of each request that has begun (the event loop)
and of each worker. Clients, purges, expiry, timeouts and kills are not fair. Every
external call is assumed to return, with a result or an error.

### What the code does differently from what it says

* `CaptionsDiarized`: `put_diarization` updates the row by video and language,
  without asking whether it is still the transcript that was loaded
  (`docs/JUDGEMENT_CALLS.md` JC-032). For the same reason a diarization that
  loaded an older transcript puts the old snippets next to the new full text.
* `AudioShared`: the file is named by the video and not by the job
  (`docs/superpowers/specs/2026-05-20-yt-service-design.md:56`), and the
  whisper and diarize locks do not exclude each other.
* `ForeignComplete`: transcripts are stored under the detected language and
  looked up under the one asked for
  (`docs/specs/yt-transcript-service-spec.md:123`, `:947`).
* `AudioLeft`: `audio_path` is assigned when the download returns, so `finally`
  knows of no file while it runs (`app/worker.py:74` says that audio is released
  regardless of outcome).

Two more disagreements show in the model and have no configuration of their own.
Of two requests that derive chapters at once the last one wins, also with `[]`
(JC-035); `ChaptersKept` only says that chapters do not return to NULL. And a
waiting `force=whisper` request is answered with captions if the row of its
language has them.

## 5. Module 3: webhooks

### Correspondence

`WebhookPromise` is what a receiver may rely on: at most `MaxAttempts` POSTs per
delivery and none after a final answer. `WebhookDelivery` is `app/webhooks.py`
with the RQ queue it lives on.

| variable | code |
|---|---|
| `inbox`, `delayed` | the `default` queue; its scheduled-job registry |
| `sending`, `hookAt` | the task the worker runs; before the POST or in `_maybe_retry` |
| `posts` | history: POSTs attempted |
| `heard` | the final answer: 2xx/3xx delivered, 4xx refused |
| `lost` | history: deliveries that a killed worker or a Redis error ended |

`EnqueueWebhook`, `TakeDelivery`, `Post`, `MaybeRetry`, `Due` (RQ's scheduler)
and `DeliveryKilled` are the actions. A POST that timed out counts as attempted,
whether or not it arrived; a kill may strike before or after it. The delays
(10 s, 60 s, ...) are abstracted to "later". The signature, the payload and the
URL check on the resolved address are left out.

`JobsAndWebhooks` conjoins `JobPipeline` and `WebhookDelivery`: the step that
adds a job to `notified` is the step that enqueues its delivery.

### Run

`JobSettle` (two whisper calls and one diarization call, one callback, three
attempts, worker kills and Redis errors in the deliveries; 24,934 states):
`AnnouncedIsStored`, `JobsSettle`, `LocksFreed`, `CompletionAnnounced`, and
`KeepsPromise`, the refinement of `WebhookPromise`. Three attempts are enough to
tell a first, a middle and a last one apart.

`SystemFairSpec` adds weak fairness of the delivery worker and of RQ's scheduler
thread. Kills are not fair. A delivery whose worker dies is lost, as RQ does not
rerun a task that failed; `CompletionAnnounced` says so.

## 6. Module 4: monitors

### Correspondence

| variable | code |
|---|---|
| `status`, `last` | `monitors.status` and `last_video_id` (0 for NULL) |
| `published`, `removed` | the channel; its feed is the newest `Window` videos |
| `cached`, `copy` | `monitors_cache` and the cursor in the cached objects |
| `age`, `wait` | the monotonic clock: time since the reload, time to the next poll |
| `at`, `todo`, `current`, `fresh`, `newest`, `poisoned` | the loop and the poll it is in |
| `done`, `missed`, `gap` | history: dispatched; left the feed undispatched; the cursor was not in the feed |

The loop is `Wake`, `ReloadMonitors` or `KeepMonitors`, then for each due
monitor `Fetch` or `FetchFails`, `Dispatch` per video or `DispatchFails`, and
`Mark` or `MarkFails`; then `ScanDone`. Operators create, pause and delete
beside it. `Restart` is a crash at any step. `Dispatch` is the whole call of
`get_or_fetch` with, on a cache hit, the callback.

### Run

`MonitorPolls` (one monitor, four videos, a feed of two, one removal, two faults;
151,797 states): `NoSkippedVideo`, `OnlyNewer`, `CursorAdvances`, and
under `WF(Loop)` `NewVideosDispatched`. Four videos and a feed of two let the
cursor fall out of the feed. One monitor is enough for what the properties say:
monitors share only the loop and its clock; the theorems hold for any number.
The faults are bounded, so a failing video does not fail for ever: with one that
always fails, no newer video of the channel is dispatched, by design.

A bound on time: the float clock reading exactly 300.0 s is left out. The reload
compares with `>` and the smallest legal interval is five minutes, so only such
a tie lets a poll see rows older than the previous poll's.

When `get_or_fetch` returns a job that was already in flight, the monitor's own
callback is dropped: the job keeps the callback of whoever started it. The model
has no action for it because no state changes.

## 7. Module 5: LLM calls

### Correspondence

| variable | code |
|---|---|
| `cache` | `_cost_cache[today]` of a process, while its TTL lasts |
| `step`, `pos` | the await at which `execute` stands; the chain entry it is at |
| `seen` | the sum a coroutine has read and not yet cached |
| `booked` | requests whose successful call is in `llm_call_log` |
| `transcript` | the row the tasks load: absent, or the state of `chapters_jsonb` |
| `stage`, `told` | where a task function stands; the transcript it loaded |
| `store`, `answer` | `summaries`, `topics`, `sentiments` rows; what a request was given |

`execute` is `CheckCap`, `QuerySpend`, `StowSpend`, `CallProvider`, `LogSuccess`
or `LogError`, and `PopCache`, one action per await. `Intelligence` wraps it in
`Lookup`, `Load` and `Persist`, which the four task functions share; `Slot` says
where a result is kept. The `db` fault makes a ledger query or write raise
(applied or not), `crash` kills a process. Expiry of summaries and changes of
the transcript happen at any time.

### Runs

| run | instance | shows |
|---|---|---|
| `LlmSpend` | a diff and four equal topics requests of one process, two in `execute` at a time, a chain of three entries with one unusable, unit cost, cap 1; db (1,098,808 states) | `SpendBounded` |
| `LlmResults` | an overriding and a plain summary, a sentiment by chapter, two transcript changes; crash (146,719 states) | `OverridesStayApart`, `ChapterSentimentHasChapters`, `RequestsEnd` |

Two configurations, by hand, violate `OvershootAsDocumented`: JC-034 bounds the
overshoot by workers x concurrent calls x cost. `LlmOvershoot` (no fault): a
reading of the spend that was taken before another request dropped the cache is
cached after it, and admits calls against a spend that is over. `LlmLedger` (db,
one request at a time): a write of the ledger that commits and raises does not
drop the cached spend, and every request is admitted against it until its TTL
ends. The bound that the code keeps, for requests without such an error, is
`SpendBounded`.

Bounds: `Concurrency` is how many requests of a process are in `execute` at
once; the code has no such limit, so it is the load against which the overshoot
is measured. The behaviour is one UTC day. `SpendBounded` leaves out requests
that failed while writing the ledger. Topics requests are symmetric in
`LlmSpend`.

Fairness: `WF` of each request's `execute` steps and `SF` of its task steps.
Strong, because entering `execute` waits for one of the `Concurrency` places;
in the code that place is free whenever the request comes, so this assumes no
more than the event loop gives. A transcript that keeps changing cannot delay a
request for ever since `Load` takes what it finds.

What the code does and no property forbids: a refreshing or overriding topics
request replaces the row that all share; topics and sentiment store the empty
result of an answer they could not parse; a summary answer that is JSON but no
object raises after it was paid for; derived rows outlive the purge of their
transcript.

## 8. Module 6: tokens, limits and routes

### Correspondence

| variable | code |
|---|---|
| `token` | the `tokens` rows in commit order |
| `boot`, `advisory` | a worker's place in its lifespan; which pooled connection holds the advisory lock |
| `unlocked` | history: how many bootstraps went on without the lock |
| `call` | the handler of a request and one sub-call per video, with the limiter window that counted it |
| `row` | the token row a request was matched with |
| `count`, `ttl` | the Redis counters `rl:{category}:{token}` |
| `window`, `orphan` | history: expirations of a key; keys whose EXPIRE was lost |

`Lock`, `LockFails`, `Check`, `InsertAdmin`, `InsertFails` and `Unlock` are
`bootstrap_admin_token`. When `pg_advisory_lock` raises, the code clears `is_pg`
and goes on (`app/auth.py:249-258`): on a connection whose transaction the error
has aborted the SELECT raises, too, and the worker serves without a bootstrap;
if there was no connection yet, the SELECT and the INSERT run without the lock.
`LockFails` has both. `CreateToken` and `RevokeToken` are
the CLI. A request is
`Authenticate`, `Incr` and `ExpireKey` (or `RedisFails`), `Dispatch` per video
with the Whisper hook's own `Incr`, and `Answer`. `InTurn` makes an ingest
sequential and lets a batch fan out. The answers 400 and 413 of a body that does
not validate are one (`Authorized`, `Validated`: before and after the count).
Hashing is equality; scopes are sets.

### Run

`Gateway` (two workers, two plaintexts, one created and one revoked token, one
death, one bootstrap without the lock, failing INSERTs; an ingest of two videos
and a batch of one on different workers, a limit of two for the route and one
for Whisper, a window of one tick; 238,119 states): `TwinsAreUnlocked`,
`LimitHolds`, `WorkersServe`, `LimitedRecovers`, `RequestsEnd`. These limits put
every counter at its boundary.

Bounds: requests come where no worker died, lost the lock or kept it (`Bounded`
of `MC_Gateway`): all that the start leaves to a request is the table of tokens,
which the operator changes meanwhile; the theorems have no such bound. A request
that dies with its worker leaves what one that ends in `RedisFails`
leaves. The EXPIRE of one key is lost at most. A transcript request is in the
model and not in the instance: it is a batch of one video with another counter.

Four configurations, by hand, are violated:

* `GatewayUnlocked`: `app/auth.py:225` says that two workers starting
  concurrently cannot both insert an admin row. A worker that goes on without the
  lock and one that holds it do. `TwinsAreUnlocked` is what is left of the
  claim: every further live row of the token is due to a bootstrap without the
  lock, one each.
* `GatewayBootstrap`: `app/auth.py:218` says that the bootstrap runs once over
  the lifetime of the database; after the operator revoked the bootstrap token
  the next start inserts it again.
* `GatewayBlocked`: `app/main.py:110` says that the bootstrap never blocks the
  startup. An INSERT that fails leaves the lock with the pooled connection of its
  worker, since the unlock in `finally` fails in the aborted transaction and is
  swallowed (`app/auth.py:283-291`); another worker waits for it for ever.
* `GatewayLockout`: `app/middleware.py:178` says that the counter resets cleanly;
  one whose EXPIRE was lost never ends.

Fairness: `WF` of the requests that were sent, of each worker's lifespan
(Postgres grants a free lock to a waiter) and of time. Clients, operators,
deaths and failures of the lock are not fair.

`WorkersServe` exempts the workers of `GatewayBlocked`, and `LimitedRecovers` the
keys of `GatewayLockout`. The limiter is a fixed window, although
`app/middleware.py:13` calls it sliding.

## 9. Module 7: Whisper, chapters, speakers

### Correspondence

| variable | code |
|---|---|
| `audio`, `onDisk` | the download and the part files of the video in `ytdlp_tmp_dir` |
| `stage` | split, OpenAI, local, the `finally` of the task |
| `parts`, `done`, `offset`, `snippets` | the locals of `openai_backend.transcribe` |
| `result`, `derived` | the transcript of the last task; its chapters and speakers |
| `density` | bytes per second of the densest part |
| `timed`, `covered` | history: every answer told the duration of its part; none told less than the end of its last segment |
| `spoiled` | history: a task was killed, or its split failed |

`Split` computes shares, segment time and segments as `split_audio` and ffmpeg
do, in whole seconds, from the size of the download, `Rate` bytes per second on
the average. A stream copy is as dense as one of `Densities` says; when ffmpeg
cannot copy, it encodes anew, and the parts are as dense as `Encoded`, whatever
the download was (128 kbps, `app/whisper/audio.py:207-211`). Nobody looks at the
size of the parts. `TranscribePart` stitches an answer at `offset`: the last
segment it hears may end before, at or after the end of the part, and the
duration it tells may be missing, right or short, as nothing in
`openai_backend.py` clamps or compares the two. The duration of a transcript is
`duration_acc` (`app/whisper/openai_backend.py:177`), not the length of the
audio. `PartRefused` and `PartUnavailable` are the two classes of OpenAI errors,
the second with the local fallback. `Outline` holds `_parse_llm_chapters` and
`_align_speakers` as operators, folds over sequences of intervals.

### Run

`Transcription` (two tasks, downloads of 90, 200 or 250 s at 50 bytes per second,
parts of 5000 bytes, copies with parts of 50, 52 or 60 bytes per second and an
encoder of 70; 659,016 states): `WholeAudio`, `PartsFit`, `Stitched`, `OwnAudio`,
`Reclaimed`, `ChaptersOrdered`, `SpeakersOverlap`. The three durations give one
part, three and four, so a second task may meet parts with higher numbers than
its own. Of the densities the first two are within the margin of `PartsFit` and
the others beyond it. The answers hold ties, touching turns, entries out of
order, beyond the end and more than `MaxChapters`. `TasksEnd` (by hand, below)
assumes `WF(Step)`: the work-horse runs.

What the properties do not claim. `PartsFit` is about parts within the margin
that the padding by 5% leaves after the rounding up: `WithinMargin(d)` is
d (95 MaxBytes + 100 Rate) <= 100 Rate MaxBytes, which for a `MaxBytes` of many
seconds is a density of about 5% above the average. Denser parts exceed the
limit and are sent. `Stitched` does not exclude overlapping snippets where an
answer told a duration below the end of its last segment: the code does not
clamp, and they do overlap then. `OwnAudio` and `Reclaimed` exempt behaviours in
which a task was killed or its split failed: those leave part files, and the
glob of the next split takes them. `ChaptersOrdered` is about starts: a chapter
that starts after the end of the video is clamped to end before it starts.

Two configurations, by hand, are violated:

* `PartsTooLarge`: `app/whisper/audio.py:181` says that the pieces are no larger
  than `max_bytes`; those of a download that is encoded anew at a higher bitrate
  are.
* `PartsLeft`: `app/whisper/audio.py:97` says that a failed transcribe never
  leaves audio behind; when both runs of ffmpeg fail, the `finally` that removes
  parts is not reached, and the segments they wrote stay.

### Types

The runs check what is hard to see. The type invariants are proved for every
module that has a specification; for them, and for three properties that follow
the code closely, there are configurations to start by hand, all of which hold:
`LlmTypes` (`TypeOK`, `FailedTriedAll`, `PaidIsStored` of `Intelligence`),
`GatewayTypes` (`TypeOK`, `CountersExpire`) and `TranscriptionTypes` (`TypeOK`,
`TasksEnd`).

## 10. Proofs

`JobPipelineProofs` proves, for every set of jobs, keys and workers and every
set of faults:

| theorem | statement |
|---|---|
| `TypeCorrect` | `Spec => []TypeOK` |
| `InvariantHolds` | `Spec => []IndInv` |
| `LeaseIsHeld` | `Spec => []LeaseHeld` |
| `MutualExclusion` | `Spec => []Exclusive` |
| `TasksHaveRows` | `Spec => []QueuedHasRow` |
| `AnswersResolve` | `Spec => []AnswerResolves` |
| `CompleteHasResult` | `Spec => []CompleteIsStored` |
| `FinalRowsStay` | `Spec => FinalStaysFinal` |
| `NoRowIsLost` | `Spec => []NoPhantomRow`, if `Faults` has no `api`, `horse` or `step` |
| `PipelineImplementsExclusion` | `Spec => ImplementsExclusion` |

The assumptions are the named ones of `JobPipeline`: `NoJob` is not a job,
`KeyOf`, `TypeOf` and `Serves` are functions of the right type, `Callback` and
`Faults` are subsets. `Exclusive` follows from `LeaseHeld` alone: two active
jobs of one key that were never exposed would both be the value of one lock.
`LeaseHeld` is not inductive, because finishing a task must end the job's
activity: if a job could be twice in the queue, or in the queue and at a worker,
releasing its lock would leave it active. `IndInv` adds exactly that: workers
have a job unless they are idle (`WorkersWellFormed`), a job is in one place
(`OnePlace`), and only a call that pushed it can have put it there
(`PushedByCall`). The refinement maps `active` to the jobs that hold, wait or
run; a SETNX that wins is `Admit`, the end of a task or of a call `Retire`, an expired or
stolen lock `Expose`, everything else a stutter.

The invariant of the rows, `ResultInv`, links row, call and task: a call that
has not inserted has no row (`RowFollowsCall`), a task past `Store` has stored
(`PastStore`), and a task that has not come past `Finish` has no final row unless
its call was not accepted (`UnfinishedNotFinal`). It is inductive together with
`IndInv`, which says that a job is worked on at one place. `NoRowIsLost` has a
hypothesis because the property is false without it: a call or a task that dies
in the middle leaves its row. Its invariant, `RowsKept`, says who will move a row
in flight on: a call that is pushing or undoing, the queue, or a worker that has
still to write the final status; a worker in `release` is active, but no longer
one of them. Redis errors, late tasks of undone calls and lost locks remain.

`TranscriptProofs` proves, for any number of requests and languages, whatever
the requests ask for:

| theorem | statement |
|---|---|
| `TypeCorrect` | `Spec => []TypeOK` |
| `FlagsAreTrue` | `Spec => []TagsMatchFlag` |
| `RowsAreNotRevived` | `Spec => NoRevival` |
| `ChaptersAreKept` | `Spec => ChaptersKept` |
| `CompletedJobsAreCached` | `Spec => []CompleteIsCached` |
| `AudioIsReleased` | `Spec => []AudioReleased`, if `TaskFaults = {}` |

One lemma per operation of `TranscriptTable` says what it preserves, and
`TableSteps` that a step changes the table by one of them or not at all; the
properties of the table follow from these. Types need two more facts: a worker
that is not idle has a job (`Busy`), and a diarization past its checks has a
transcript (`Prepared`). `CompleteIsCached` needs `Stored`, the same statement
for a job whose transcript is committed and which is not yet marked complete.
The assumptions are `NoRowAssumption`, `RequestAssumption` and
`NameAssumption`: names of requests differ from "idle", and the parameters of
the requests are functions of the right type.

`SystemProofs` proves `OnePlaceForDelivery`, `HookSpec => []DeliveryInvariant`,
and `DeliveriesKeepPromise`, `HookSpec => KeepsPromise`. `DeliveryInvariant` is
inductive with one more fact, that an answer was heard only after a POST;
`Fresh` needs it to hold when a delivery is enqueued. The attempt number being
one more than the POSTs is what bounds them, and a delivery being in one place
is what ends it with its answer.

It carries both to the composition: `AnnouncementsAreStored`
(`SystemSpec => []AnnouncedIsStored`), `SystemKeepsPromise`
(`SystemSpec => KeepsPromise`: at most `MaxAttempts` POSTs for a delivery, none
after a final answer) and `SystemExcludes`. A step of the composition is a step of the pipeline, and a
step of `HookSpec` because a job enters `notified` once; `SystemInv` adds to the
invariants of the parts that every delivery was announced (`OnlyAnnounced`), so
that a job that is announced is `Fresh`. `AnnouncedIsStored` joins both sides:
what is announced was completed, and what was completed was stored.

`MonitorProofs` proves, for any monitors, channels, feeds, intervals and faults:

| theorem | statement |
|---|---|
| `SchedulerTypes` | `Spec => []TypeOK` |
| `NothingSkipped` | `Spec => []NoSkippedVideo` |
| `PollsOnlyNewer` | `Spec => []OnlyNewer` |
| `CursorOnlyAdvances` | `Spec => CursorAdvances` |

`MonitorInv` has four parts besides the types: a video below the oldest of the
feed was dispatched or missed (`FeedCovers`), everything up to a cursor, in the
row or in its copy, is settled (`CursorsSettled`), the copy of a monitor that is
due equals the row because a reload lies between two polls (`CopyFresh`, where
`Interval > Reload` is used), and the walk goes upwards from the cursor with
nothing left out below it (`WalkInv`). That the oldest new video exists is the
well-foundedness of `<` on the naturals.

`IntelligenceProofs` proves, for any requests, chains, processes and costs:

| theorem | statement |
|---|---|
| `FailureTriesAll` | `Spec => []FailedTriedAll` |
| `OverridesApart` | `Spec => []OverridesStayApart` |
| `ChapterSentimentSound` | `Spec => []ChapterSentimentHasChapters` |
| `PaidResultsStored` | `Spec => PaidIsStored` |
| `SpendIsBounded` | `Spec => []SpendBounded` |
| `IntelligenceTypes` | `Spec => []TypeOK` |

`TaskInv` says where a request can be in its chain and that it is unpaid until
it has logged (`ChainInv`), and that a stored row belongs to its slot
(`StoreInv`): by an override of one entry or by the routing, from chapters where
chapters are promised.

`SpendIsBounded` needs an invariant of its own, `SpendInv`. As long as the
ledger is below the cap there is nothing to show. Once it has passed it, no
query finds it below again, and whoever is let through later owes that to a
reading from before: one that a process has cached, or one that a request holds
and has yet to cache. `Room[p]` counts, twice over, the calls that process `p`
can still make. A held reading that is cached lets through whoever fits in
beside the readings still held, which makes `h * (2 * Concurrency + 1 - h)` for
`h` of them; besides, a valid old entry lets through whoever fits beside the
holders and those about to pop it, and without one only the requests past the
check remain. Past the cap no step raises `Room`, a logged response takes one
call from it, caching a reading pays with that reading, and it starts at
`Concurrency * (Concurrency + 1)` per process at most. `SpendInv` says that the
spend of the good requests plus `MaxCost` times half the total `Room` stays
within the bound. TLC found the weights right, with unequal prices, crashes and
two processes, before the proof was written. The ledger only grows
(`LedgerGrows`), a price is a natural number at most `MaxCost`, and a process
never runs more than `Concurrency` requests (`SlotInv`).

`GatewayProofs` proves, for any workers, tokens, scopes, routes, limits and
requests, and any deaths and failures of Postgres and Redis:

| theorem | statement |
|---|---|
| `OneBootstrap` | `Spec => []TwinsAreUnlocked` |
| `Limits` | `Spec => []LimitHolds` |
| `Expiry` | `Spec => []CountersExpire` |
| `GatewayTypes` | `Spec => []TypeOK` |

For the bootstrap: `Unguarded` are the workers on their way to an INSERT without
the lock. The live rows of the environment's token together with those that the
unguarded may still add are at most one more than the bootstraps that ever went
on without the lock, and none more where the holder of the lock is about to
insert (`UnlockedCounted`): its SELECT found no admin row, the operator's rows
never carry that token (`EnvRowsAreAdmin` is why such a row would have been
found), and nobody else can have added one but the unguarded, who are counted. For the limit: `Counted` compares
the requests of the current window that passed, or will because their INCR found
1, with the counter and with the limit; an expiry starts a window that nobody has
passed yet. It needs that one request at a time is between INCR and EXPIRE of a
key (`OneExpires`), so that the counter stays meanwhile.

`TranscriptionProofs` proves, for any lengths, average rates and densities, part
sizes and answers, and tasks that are killed anywhere:

| theorem | statement |
|---|---|
| `NothingLost` | `Spec => []WholeAudio` |
| `PartsFitUpload` | `Spec => []PartsFit` |
| `SnippetsStitched` | `Spec => []Stitched` |
| `NothingForeign` | `Spec => []OwnAudio` |
| `DiskReclaimed` | `Spec => []Reclaimed` |
| `ChaptersInOrder` | `Spec => []ChaptersOrdered` |
| `SpeakersOverlapMost` | `Spec => []SpeakersOverlap` |
| `TaskTypes` | `Spec => []TypeOK` |

Its invariant has a part for each stage: what is on the disk, and of which task
(`FilesGone`, `FilesDated`), that the parts being sent cover the audio
(`PartsWhole`), that the snippets so far lie apart and before `offset` unless an
answer told less than the end of its last segment, and in place if every answer
told the duration of its part (`Stitching`), and the same of the stored
result (`ResultSound`). `SegmentTimeFacts` and `SegmentFacts` are the arithmetic
of `split_audio`: a share of the file is padded and rounded up, and the segments
follow one another. With n shares of d seconds the segment time t satisfies
100 n t <= 95 d + 100 n, where d Rate <= n MaxBytes, and so a part of any density
within `WithinMargin` fits. The outlines are pure functions of the result:
`MonotonicFacts`, `AcceptedFacts` and `BestTurnFacts` say what
`_parse_llm_chapters` and `_align_speakers` return for sequences of any length.

`FiniteLemmas` is what makes folds and sums provable. The prover cannot
instantiate a theorem that takes an operator, so induction is stated for sets: a
subset of `0 .. n` that has 0 and with `i - 1` also `i` is everything (`UpTo`), and
so is a set of subsets that has the empty one and is closed under adding elements
(`SetInduction`). A fold of the community modules is a chosen recursive function;
the lemmas show that it exists and what its equations are (`LeftFoldExists`,
`LeftFoldSteps`, and `Total` with `TotalRemove`, `TotalOfPart`, `TotalLess` for
sums over a set), after which each use is an induction over a set of places.

The assumptions of these modules are the named ones of the modules they are
about; TLC evaluates each of them in a run. `DeliveryAssumption` says that the
deliveries are the jobs with a callback. `FinitenessAssumption` (`LlmExecution`)
and `RequestAssumption` (`Gateway`) say that requests, processes and chain entries
are finitely many, without which sums and cardinalities mean nothing;
`ScopesAssumption` and `AnswersAssumption` give the inputs of the operator and of
the models their types.

Only model-checked is liveness (`JobsSettle`, `LocksFreed`,
`CompletionAnnounced`, `NewVideosDispatched`, `WorkersServe`, `LimitedRecovers`
and the `RequestsEnd` of three modules): the prover has no rule for fairness.
Every invariant and every action property that a run checks is a theorem too.

## 11. What is not modelled

* YouTube access, the HTTP clients of the LLM providers, pyannote and the
  Whisper models: I/O and inference; their outcomes are inputs.
* Parsing, schemas, URL checks, deep links, configuration, connections, logging,
  metrics, exceptions, serialisation and the migration: pure functions or static
  declarations without a state of their own.
* The HTTP routes other than transcript, batch and ingest: the LLM and monitor
  routes repeat the authentication and limit steps of `Gateway` before they call
  what modules 4 and 5 model; health, metrics and listings only read.
* The command-line clients under `deploy/skill`: one request each and, in
  `fetch_transcript`, reads of the job until a deadline.
* Within the modelled parts: the wording of prompts and payloads, signatures,
  hashing, delays, logging and metrics.

Hazards of the code that no property covers, as `PROJECT.json` lists them at
their lines: what the code does wrong has a configuration that shows it (see the
sections above), and five more are left. The task of a call that was undone runs
on its failed row. The last of two requests that derive chapters wins
(`app/chapters.py:180`). A delivery is lost when Redis fails while its next
attempt is scheduled (`app/webhooks.py:197`), which `CompletionAnnounced`
exempts. With a monitor interval equal to the reload time, whether a poll sees
the row of the last one depends on a tie of two clock readings that the model
does not have (`app/monitor_scheduler.py:183`). A video whose dispatch always
fails holds up the newer ones of its channel, by design.
