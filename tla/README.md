# A verification development for the image-comparison service

The service takes two images over HTTP, compares them in the background with
LPIPS and/or DISTS, and lets the client poll for the result. The Python is
ordinary; what is hard is that one *job* is handled by several processes that
share nothing but Redis, and that Redis is used one command at a time.

This directory holds TLA+ modules translated from the source, TLC
configurations that check them on small instances, and TLAPS proofs for every
value of the constants. `PROJECT.json` ties every definition to the lines it
models, lists the hazards of the code and what covers each.

    tlc -workers 2 -config jobs.cfg MCCompareJobs     # check a run
    tlapm RedisJobStoreProofs.tla                     # check the proofs

## 1. The system

| Component | State it keeps | Operations | Module |
|---|---|---|---|
| Redis job store (`app/core/job_store.py`) | a JSON row per job, a PNG per heatmap, a sorted set of ids; TTLs on the first two | `create_job`, `update_job`, `set_heatmap`, `list_jobs`, `get_job`, `get_heatmap` | `RedisJobStore`, with a clock in `TimedJobStore` |
| Submission (`app/api/routes/compare.py`) | requests between their two steps | `POST /v1/compare/jobs`: rate limit, validation, signature; create the row, publish the message | `Admission`, then `CompareJobs` |
| Request signatures (`app/core/hmac_auth.py`) | a cache of nonces with their expiry | `verify_hmac_request` | `Admission` |
| Rate limiter (`app/core/rate_limit.py`) | a deque of times per client and bucket | `allow` | `RateLimiter`, `SlidingWindow` (abstract) |
| Compare task (`app/tasks/compare_tasks.py`) | temporary images, one gauge | `process_compare_job` | `CompareJobs` |
| Image sizes (`compare.py`, `app/core/image_io.py`, as the metrics use them) | none; a pair of sizes | limits, resize, match, pad | `ImagePair` |
| Queues and workers (`app/core/celery_app.py`, `app/core/execution.py`; Celery is external) | messages, acknowledgements, metric files of a worker | select a queue, deliver, acknowledge, kill, restart | `CompareJobs` |
| Read endpoints (`compare.py`) | what a heatmap request has read first | status, list, heatmap, error | `CompareJobs`, `JobLifecycle`; their checks in `Admission` |
| Life of a job as a client sees it | status, results, URLs | - | `JobLifecycle` (abstract) |
| Memory job store, configuration, health, networks, logging, build info, start-up | | | not modelled, see section 7 |

How they interact. The API handler writes a row, then publishes a Celery
message; a worker takes the message and only ever talks to the row. Clients
read the row. There is no lock, no transaction and no version number anywhere:
`update_job` is GET, merge, TTL, SET, GET, and it is correct only as long as
nobody else updates the same row meanwhile. What makes that true, when it is
true, is a protocol: the handler stops touching a row once it has published,
the message is in one queue once, and a task publishes the CPU fallback only
after its own last update. The models are built around that protocol.

What is hard here:

- **Concurrency**: handlers of several API processes and tasks of several
  workers interleave between any two Redis commands; keys expire between any
  two of them.
- **Failure**: a publication may fail, or fail after it succeeded; Redis may
  raise in the middle of a method; a temporary file may not be written; a
  metric may raise, and the text of the exception decides whether the job is
  retried on the CPU; a task's process may be killed by the hard time limit.
- **Crash and redelivery**: acknowledgement is late, so a worker that dies
  hands its message to another one, on top of a half-written row.
- **Ordering**: heatmap before flag, row before message, requeue before
  publication.
- **Time**: the rate limiter's window and the nonces' TTL have a boundary in
  each direction; `update_job` asks for a TTL that has changed by the time it
  uses the answer.
- **Steps of a handler**: a POST awaits its files between the limiter and the
  signature, and a heatmap request reads the store twice.

What makes each component correct:

- store: one submission per id, every row listed, a heatmap behind every flag,
  no key that outlives its TTL, no mixture of two submissions in one row;
- job system: one carrier per unsettled job, never none; results complete when
  `done`; a settled status is final; gauge and temporary files balanced; every submitted job settled in the end;
- reads: a URL is offered when, and as long as, it is served; an announced
  heatmap is delivered, and only for the job that asked for it;
- limiter: never more than the limit in any window, never a refusal while a
  window has room, and bounded memory per key;
- signatures: a nonce is used once within its TTL, a refused request spends
  none, the cache holds one TTL's worth;
- sizes: what is accepted reaches each network as two images of one size, neither
  the heatmap nor the work grows past its limit, and a heatmap has the shape of the
  reference.

## 2. The modules

### RedisJobStore

One action per Redis command. `call[c]` holds where client `c` is inside a
method and the locals it still needs: the decoded row of an update, the ids of
a listing. A row is the record of the optional fields the rest of the system
tells apart; `Merge` is `data.update(fields)` on the whole record, so updates
that overlap lose fields as they do in Redis. `Fields` is the list of keyword
arguments the program really passes to `update_job`.

| Code | Actions |
|---|---|
| `create_job`: SET NX, ZADD | `CallCreate`, `CreateSet`, `CreateZadd` |
| `update_job`: GET, SET, GET | `CallUpdate`, `UpdateGet`, `UpdateSet`, `UpdateConfirm` |
| `set_heatmap`: SET, then `update_job` | `CallSetHeatmap`, `HeatmapSet`, then as above |
| `list_jobs`: ZRANGE, MGET, ZREM | `CallList`, `ListZrange`, `ListMget`, `ListZrem` |
| a TTL runs out | `ExpireRow`, `ExpireHeatmap` |
| Redis raises, or the process ends | `Abandon` |

The TTL command of `update_job` chooses the expiry of the SET. Expiry is an
event here that may come at any time (if the TTL setting is positive), so the
two share a step. Values, timings, names and the JSON text are abstracted away;
of an error message only its presence is kept, and a message that is there may be
empty, since the worker stores `str(exc)`. A method may end between any two
commands (`Abandon`). A command that took effect but whose reply was lost is the
same event one step later; after the last command of a method there is no later
step, so `Abandon` itself lets a ZADD or a ZREM take effect.

### TimedJobStore

`RedisJobStore` with the time that keys have left, in ticks: every action of the
store with what it does to the expiry, the TTL command as a step of its own
(`ReadTtl`) whose reply `ex[c]` the SET then carries, keys that expire exactly
when their time is over, and `Tick`. A second is several ticks, so the reply of
TTL is rounded as Redis rounds it and may be 0 for a key that is still there.
There is no absolute clock, so the states are finite without a bound on time.
Each timed action is the store's action with the expiry added, so by construction
the clock takes nothing from the store's behaviours that expiry at any moment does
not allow, and the modules built on the store need none.

### CompareJobs

Uses the store by `INSTANCE`. `post[r]` is the place of handler `r` (from
`create_job` on) or its answer; `task[w]` the place of the task in worker `w`,
with its message, whether its acknowledgement still removes that message
(`owns`), and its temporary files; `queue[m]` counts the deliveries of a
message that wait. Handlers and tasks are sequential programs: they start a
store method, wait until `call[c]` says how it ended, and go on from there, so
every Redis command of every process interleaves with every other.

| Code | Actions |
|---|---|
| `create_compare_job` | `Submit`, `Refuse` (409, 500), `Enqueue` (202), `EnqueueFails` then `Apologise` (503) |
| `process_compare_job` up to the `try` | `Take`, `StoreTemps`; `Escape` and `TempFails` for what raises there |
| the `try` | `Lpips`, `SaveHeatmap`, `LpipsSaved`, `Dists`, `SaveDone`, `Finished` |
| the `except` | `ComputeFails`, `GpuFails`, `SaveFails`, `Republish`, `RepublishFails`, `Excepted` |
| the `finally`, then Celery's acknowledgement | `Finally`, `FinallyFails`, `Ack` |
| process killed; worker dies and restarts; broker reconnect | `Kill`, `Crash`, `Reconnect` |
| API process dies; Redis raises; keys expire | `ApiDies`, `StoreRaises`, `Expire` |
| `list_compare_jobs` | `ListJobs` |
| `get_compare_job_heatmap`: the row, then the PNG | `GetHeatmapRow`, `GetHeatmapPng` |
| what the status answer offers, what the endpoints serve | `Offered`, `HeatmapServed`, `ErrorServed` |

Celery and the broker are external. They are modelled from
`app/core/celery_app.py`: `task_acks_late` (the message leaves the broker when
the task has returned *or raised*, Celery's default for failures and for time
limits), prefetch 1, one task at a time in a worker process (the deployment's
default `--concurrency=1`), redelivery of what was not acknowledged when a
worker's connection ends. `Faults` says which faults an instance contains and
`MaxFaults` how many of them may happen. The soft time limit raises an exception
wherever the task is: in a metric (fault `compute`), while the temporary images
are stored (`temp`), inside a store call, before or after the command took effect
(`soft_limit`), and in the `finally` clause (`finally`).

### JobLifecycle

The abstract specification: what polling may show. Statuses go
queued, running, done or error, with one way back (running to queued, the CPU
fallback); results appear while the job runs and only those the metric asked
for; `done` comes only when all of them are there; the heatmap and the error
URL are offered in the step in which they start to be served, and only then;
and every submitted job is settled in the end. `CompareJobs` implements it
through the refinement mapping `Shown(j)`: the fields of the stored row that a
client can read, the URLs of a status answer, and what the two endpoints
behind them would answer.

### RateLimiter and SlidingWindow

`SlidingWindow` keeps the whole history of admissions and says when a request
must be admitted: exactly when the Limit-th last admission is a window old.
`RateLimiter` is the code: a deque of which the old end is popped on each call.
The handlers that call it are coroutines that do not await inside `allow`, so
a call is one step. The history `admitted` is a history variable of the model.

### Admission

Everything in front of the store in one API process, over `RateLimiter`. A
request is a record of what the checks look at (its headers, the declared
length, the bytes and the decoder's verdict of its two files). A POST is two
steps, since it awaits its files: `ReceivePost` (limiter, declared length, form
fields) and `HandlePost` (combined size, each file, signature); `pending` holds
the requests between the two. A GET (`HandleGet`) does not await before it
answers and is one step. `Verify` is what `verify_hmac_request` does to the
nonce cache, `Verified` whether it lets the request through. `uses` is a
history for the properties. Ticks are whole seconds, in which all the settings
are given.

### ImagePair

The sizes of a pair on its way to a network: `Validate` (the limits on sides and
pixels), `Resize`, `Match` and `Pad` in the order in which the LPIPS distance,
the LPIPS heatmap and the DISTS distance call them. Rounding is to the nearest
integer; a half may fall either way, because the code multiplies by a rounded
float. `uploaded` keeps the sizes that were sent, so that `HeatmapKeepsShape` can
relate the heatmap to the reference it is laid over.

## 3. What is checked

Every run explores the whole state space of its instance.

| Run | Instance | Shows |
|---|---|---|
| `store` | 2 clients, 1 id, 2 metrics, no expiry, no aborts | `IndexCovers`, `HeatmapBacked`, `IdentityStable` under every interleaving of any two methods |
| `store_timed` | 2 clients, 1 id; rows live 2 seconds, heatmaps 1, a second is 3 ticks; methods end between any two commands | `EveryKeyExpires`: whatever TTL replied between an update's GET and its SET, the row it writes does not stay for ever |
| `jobs` | 3 submissions for 2 ids (one contested, with different metrics), a worker on each queue, up to 3 faults of: metric, GPU, publication | `OneCarrier`, `DoneComplete`, `LeavesNoTrace`, `SettledIsFinal`, and `KeepsPromise`, the refinement of `JobLifecycle` with its liveness |
| `jobs_crash` | 2 submissions of one id, up to 3 faults with worker crashes | `NoOrphan`, `InflightExact`, `Settles` |
| `jobs_expiring` | rows and heatmaps expire at any moment, 1 fault of: metric, GPU, reconnect, lost or ambiguous publication | `NoOrphan`, `Settles` (or the row expires) |
| `jobs_faulty` | an id that two submissions contest, one for LPIPS and one for DISTS; two interchangeable GPU workers and a CPU worker, a reader that lists and fetches heatmaps, any 2 of all 13 faults, overlapping executions of one message among them | `HeatmapBelongs`, `HeatmapDelivered` and `InflightCovers` survive everything |
| `admission` | 1 client, 2 uploads at once, 2 nonces; a limited and an unlimited bucket, limit 2, window 2; nonce TTL 2, skew 3; 5 ticks, 3 admissions per bucket | `NeverTooMany`, `BucketBounded`, `ImplementsWindow`, `NonceSingleUse`, `RefusedSpendsNothing`, `CacheWithinTtl` |
| `images` | all pairs of images whose sides lie around the limits, with the deployment's limits (8192, 40 million, 1024, 64) | `Comparable`, `HeatmapBounded`, `WorkBounded`, `HeatmapKeepsShape` |

Why the bounds are enough. No command touches the rows of two jobs, and only
`list_jobs` reads several, so one contested id and one independent id show all
interference. An update is lost by the overlap of two methods, hence two
clients. The GPU fallback and its failure take two faults on one job; crash,
rerun, fallback take three. `jobs_faulty` has the two workers on one queue that
overlapping executions need; the two are a symmetry set, which is sound because
no property of the run tells them apart or is about liveness. Where time counts, it runs for more than two
windows and two nonce TTLs, with a history longer than the limit, and a second
has a tick in each half of which TTL rounds the other way (3 ticks: 1 rounds to
0, 2 to 1). A nonce needs one other request in progress to be contested. The
sizes of `images` are each limit, one less, one more, the sides whose product
crosses the pixel limit, and two that scale to a half.

Deadlock is not checked in these runs, because the systems stop when all
submissions are served and all messages consumed (or the bounds are reached).

Fairness (`Fairness` in `CompareJobs`): a handler that has begun goes on
(the event loop runs it and nothing blocks it), a worker takes a message that
waits in its queue and goes on with its task (Celery's consume loop; metrics
that hang are ended by the time limits). Nothing is assumed about submissions,
readers, expiry or faults. `Settles` needs a worker on each queue that is
used; with the GPU queue enabled and nobody on it, a job waits for ever, since
`select_queue_for_job` does not look for workers.

`PROJECT.json` names for each property a deviation of the code (a dropped
guard, a swapped order, a missing reset) that breaks it. The deviations stand
in the modules next to what they deviate from, marked `Deviation:`.

### What does not hold

Four runs are expected to be violated; each compares what the repository says
with what the code does.

- `store_unlisted`: with a TTL, a stored job may be missing from
  `GET /v1/compare/jobs`. `list_jobs` decides with an MGET which ids are stale
  and removes them later with a ZREM; an id created in between is removed with
  its row in place.
- `done_incomplete`: if `apply_async` raises although the broker has the
  message, the handler's error update and the worker's updates overlap, and a
  row may say `done` with a result missing or an error message present. In the
  same way a job whose submission was answered 503 may run after all; no document
  says that it will not.
- `running_forever`: temporary images are stored after the row says `running`
  and before the `try`; if that fails the row says `running` for ever.
- `foreign_heatmap`: the heatmap endpoint checks neither metric nor
  `has_heatmap`; a PNG that outlived its row is served for the next job with
  that id, whatever it asked for. (The PNG may have the longer life: its TTL is a
  setting of its own and starts later.)

Of the same kind and not a run of their own, since no text of the repository
promises otherwise: a hard kill (time limit, OOM) leaves `running` behind, a
failed fallback publication or an API process that dies before publishing
leaves `queued` behind, and a crash after the last update makes a settled job
run again (`SettledIsFinal` fails with fault `crash`). If the soft time limit
strikes inside the update to `done`, after its SET, the `except` clause writes
`error` over it, after clients have seen `done` (`SettledIsFinal` fails with fault
`soft_limit`; a reply of Redis that is lost there, fault `redis`, does the same).
An error may have an empty text; the error endpoint then answers with a text of
its own. The gauge's `inc()` and
the update to `running` stand before the `try` whose `finally` decrements it, so
if the row has expired by then the update raises and the gauge stays up; a
`finally` that is itself cut short leaves the gauge or an image (fault
`finally`).

## 4. What is proved

`RedisJobStoreProofs`, for any jobs, clients and metrics:

| Theorem | Assumes | Says |
|---|---|---|
| `TypeCorrect` | - | `Spec => []TypeOK` |
| `IdentityKept` | no job TTL | `Spec => IdentityStable` |
| `IndexComplete` | no job TTL, no aborted methods | `Spec => []IndexCovers` |
| `HeatmapsBacked` | no heatmap TTL | `Spec => []HeatmapBacked` |

The argument. None of these is inductive by itself, because a client inside
`update_job` holds a row that it will write whatever happened meanwhile. So
`FramesOK` says what a client at each place holds, and each property is
extended from the stored rows to the rows that are *held*: `SameSubmission`
for the identity of a row, `HeatmapInv` for heatmaps (which adds that a client
about to set the flag has stored the PNG), `IndexInv` for the index
(which adds that no listing ever sees a missing row). The assumptions are
sharp: `store_unlisted` violates `IndexCovers` as soon as rows expire.

`RateLimiterProofs`, for any keys, limits, windows and bounds: `TypeCorrect`,
`AdmitsAtMostLimit` (`NeverTooMany`), `BucketsStaySmall` (`BucketBounded`) and
`LimiterImplementsWindow` (`Spec => ImplementsWindow`, the refinement). The
inductive invariant is `Books`: the deque of a key is the end of its history,
what it has forgotten is a window old, histories are sorted, and no window
holds more than the limit. `PopsStops` shows that the popping loop stops at
the first young event, from the least element of a set of naturals;
`RoomIsRoom` that room in the deque is room in the history.

`TimedJobStoreProofs`, for any TTLs and ticks per second, any jobs and clients:

| Theorem | Assumes | Says |
|---|---|---|
| `KeysExpire` | - | `TimedSpec => []EveryKeyExpires` |
| `TimedIndexComplete` | no job TTL, no aborted methods | `TimedSpec => []IndexCovers` |

Every timed step is a step of the store or leaves it alone (`StepRefines`,
`TimedRefines`), so what is proved of the store carries over, the index first. `KeysExpire` is not inductive: a
client between its TTL command and its SET holds the expiry it has chosen. So
`TimeInv` adds that the choice is positive and within the TTL (`Chosen`), which
needs that TTL's rounded reply never exceeds the seconds that the key was given
(`TtlAtMost`).

`AdmissionProofs`, for any settings that `validate_hmac_settings` accepts, any
requests and slots: `NoncesSingleUse` (`NonceSingleUse`),
`RefusalsSpendNothing` (`RefusedSpendsNothing`), `CacheStaysWithinTtl`
(`CacheWithinTtl`). The invariant `NonceInv`
relates the cache to the history it has forgotten: an entry is the last use of
its nonce plus the TTL, a missing entry means that the last use is a TTL ago, and
uses in a history are a TTL apart. `AdmissionUsesLimiter` shows by step
simulation that the handlers do to the limiter only what `RateLimiter` allows;
`HandlersKeepLimit` and `HandlersKeepBucketsSmall` follow. These three assume
rate limiting is on.

`ImagePairProofs`, for all image sizes and limits: `TypeCorrect`,
`AlwaysComparable` (`Comparable`), `HeatmapsBounded` (`HeatmapBounded`),
`WorkStaysBounded` (`WorkBounded`), `HeatmapsKeepShape`
(`HeatmapKeepsShape`). The invariant `PairInv` says what the pair is after
each stage; the arithmetic is in `RoundedAtMost` (rounding a quotient never
takes it past a whole number that it did not exceed), `ScaledShrinks` (resizing
never enlarges and never leaves a side without pixels), `PaddedWork`,
`RoundedIsNear` (the rounded quotient is within a half of the exact one) and
`ScaledInShape` (two sides within half a pixel of one factor keep the proportion).
`HeatmapKeepsShape` excepts a side of `MinSide` or less: such a side may be the
result of rounding up to one pixel or of padding.

The job system, for any jobs, requests, workers, readers, queues and metrics,
and any bound on the number of faults, is proved about in three modules, each
extending the one before. A theorem names the faults it excludes; every other
fault may happen, in any order. The sets of faults have names:

| Name | Excludes |
|---|---|
| `Careful` | faults `redis`, `soft_limit`, `temp`, `api_crash`, `kill`, `republish_lost`, and `crash` together with `reconnect` |
| `Counted` | rows that expire; faults `redis`, `soft_limit`, `temp`, `kill`, `finally` |
| `Once` | rows that expire; faults `crash`, `reconnect`, `publish_unsure` |
| `~CallsRaise` | store calls that are interrupted: faults `redis`, `soft_limit` |

`CompareJobsProofs`: the calls.

| Theorem | Assumes | Says |
|---|---|---|
| `TypeCorrect` | - | `Spec => []TypeOK` |
| `StoreRefined` | - | `Spec => Redis!Spec`, the specification of the store |
| `HeatmapsDelivered` | no heatmap TTL | `Spec => []HeatmapDelivered` |

The argument. The type of a row depends on the type of what the store's clients
hold, and that on where each program is in its call. So `TypeInv` adds `Placed`: at each
place of a handler or a task, which method it has called, for which job and
with which fields (`HandlerPlaced`, `TaskPlaced`). `CommandMoves` and
`WorkerMoves` say once what a Redis command and a step of a task may change;
later proofs use those lemmas and not the actions. Every step is then a step of
the store or leaves it alone, and what `RedisJobStoreProofs` proves carries
over: `HeatmapsDelivered` needs no fault excluded.

`JobCustodyProofs`: who has a job in hand.

| Theorem | Assumes | Says |
|---|---|---|
| `NoOrphans` | `Careful` | `Spec => []NoOrphan` |
| `GaugeExact` | `Counted` | `Spec => []InflightExact` |
| `GaugeCovers` | - | `Spec => []InflightCovers` |
| `TracesRemoved` | `Counted`, no `crash` | `Spec => []LeavesNoTrace` |
| `OneCarriers` | `Once` | `Spec => []OneCarrier` |

`NoOrphan` counts an execution as a carrier even when it has written its last
row, so it is not inductive: such an execution may end and leave the job with
nobody. `CarriedInv` asks for more, a carrier that has still to write the row or to
pass the job on (`HandlerCarries`, `TaskCarries`); under `crash` it adds that
an execution still owns its message, so that a crash gives it back. `GaugeExact` rests
on `RowsInv`: who has created a job finds its row, so the update to `running`
that stands before the `try` does not raise after `inc()`; `GaugeCovers` needs only
`Placed`. `OneCarriers` rests
on `OneInv`: a job belongs to one request, whose work is in at most one message
or one execution, and a worker has only what an accepted request has sent.

`JobLifecycleProofs`: what the rows say.

| Theorem | Assumes | Says |
|---|---|---|
| `DoneIsComplete` | `Once`, no heatmap TTL | `Spec => []DoneComplete` |
| `SettledStays` | `Once`, `~CallsRaise` | `Spec => SettledIsFinal` |
| `LifecycleKept` | `Once`, `~CallsRaise`, no heatmap TTL | `Spec => Lifecycle!Safety`, the refinement of `JobLifecycle` without its liveness |
| `HeatmapsBelong` | no job TTL | `Spec => []HeatmapBelongs` |

A task writes `done` without looking at the row again, so nothing about a
finished row is inductive by itself: it depends on what the task has saved
before, and on nobody having overwritten it. `Know` is the invariant: what each
handler and each task knows of the row it works on. Its parts are `RowsSound`
(the row has nothing that was not asked for), `HeatmapsOwned` (a stored PNG is of
a job with a row that asked for it), `HandlersKnow` and `TasksKnow` (the status
and the results the program has left in the row; the row that an update is
about to write is the stored one with its own fields merged in) and
`WaitingKnown` (a row whose message waits is as it was created). `OneInv` is
what keeps it: the one who writes a row is the only one who knows anything of
it (`OthersElsewhere`). The refinement follows step by step: `StatusMoves` lists
the changes of status, and `LifeNext` maps each step to a step of `JobLifecycle`
or a stutter (`SubmitShown`, `BecomesShown`, `PublishShown`).

`HeatmapsBelong` is about the property that `foreign_heatmap` violates, and
excludes only what that run needs, rows that expire. It excludes no fault, so it
cannot rest on `OneInv`. Its invariant
`Belonging` knows only the metric: whoever has a job in hand was asked for the
metric in its row (`MetricsAgree`), which is there (`RowsInv`) and keeps it (the
store's `IdentityKept`); only an execution that was asked for LPIPS comes to
store a PNG (`DrawersNeed`); so `HeatmapsOwned` holds again.

Exclusions that TLC shows to be needed: `done_incomplete` violates
`DoneComplete` with `publish_unsure`, `foreign_heatmap` violates `HeatmapBelongs`
with expiring rows, `running_forever` violates `NoOrphan` with `temp`,
`SettledIsFinal` fails with `crash` and with `soft_limit`. With `crash` and `reconnect` together, and
two workers on the GPU queue, `NoOrphan` fails: a worker finishes the second
delivery and acknowledges it, the first execution, delayed, writes its status
over the row and dies with its worker, and no message is left. For a property of
an expected violation, the theorem says that the finding needs one of the
excluded events.

The modules assume of their constants what their `ASSUME`s say:
`RowAssumption` and `ShownAssumption` of `CompareJobs` say that `None` is
neither a row nor what a client sees of a job, and that the switches for expiry
are Booleans.

What stays with TLC is liveness (`Settles`, the progress part of
`KeepsPromise`), which is beyond the prover. Each safety property of a run is
proved for at least the faults of that run.

## 5. Hazards

`PROJECT.json` lists them with their lines. Those without a property are the
ones where the code offers no guarantee to check (an aborted `create_job`, a
killed task, a lost fallback, an API crash, a gauge that leaks upwards, a soft
time limit in the last update), which are modelled as faults all the same and
reached by `jobs_faulty`; the keys of the limiter's dictionary, which are never
removed; a GPU queue without workers; and the limits on an upload, which are a
row of guards that a property could only repeat. `IndexCovers` is listed for the
races of `list_jobs` and of a SET without XX because the run `store_unlisted`
shows it violated by them; `store` checks it where nothing expires, and there
neither race can happen.

## 6. Plan

Done: the store, the store with a clock, the limiter, admission and image
sizes, the job system over the store with the read endpoints, and its abstract
specification, each with its proofs. What the code keeps in state that several
actors share is modelled, and each safety property that a run checks has a
theorem. What is left is to prove some of them with fewer exclusions:

1. `OneCarrier` and `DoneComplete` when rows expire: an
   expired row frees its id, so a second request may have the job while the
   first one's task still runs, and the assumption must be about one or the other.
2. What is left of `NoOrphan` when a fault of `Careful` happens: the
   job is orphaned by that execution only, the others are not touched.

## 7. Not modelled

- The memory store: a substitute for tests and eager tasks in one process. Each
  of its methods is one critical section and nothing expires, so none of the
  interleavings above can occur.
- Configuration: a stateless lookup. The settings are CONSTANTS, the values
  that switch a check off included.
- One name for both queues: the handler forces "cuda" when the queue it selected
  is the GPU queue, which it decides by comparing names; the models take the CPU
  and the GPU queue to be named differently, as the defaults are.
- Image decoding, the networks, their caches and the heatmap's pixels: numerical
  code. What a metric does is a choice of the model: it returns, raises, or
  raises with a text that names the GPU. What the decoder says of a file is a
  field of the file.
- The text a signature is computed from: whether a signature is right is a
  field of the request.
- Counters and histograms other than the gauge: nothing reads them back.
- `/health`: reads the broker and decides nothing about a job.
- Logging, build info, schemas and start-up: formatting and wiring.
