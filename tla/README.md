# Formal model of the reup-douyin backend

reup-douyin is a local-first application: an operator captures Douyin videos, and a pipeline downloads, transcribes,
translates, dubs, cleans, renders and publishes them. The work runs as *durable jobs*: rows of a PostgreSQL table that
polling worker processes claim and execute. This directory models the logic of that system in TLA+, checks it with TLC on
small instances and proves the results that matter most with TLAPS.

## 1. The system

```
 apps/web (UI) --HTTP--> apps/api (FastAPI services) --SQL--> PostgreSQL <--SQL-- apps/worker (polling loop)
                              |                                                  |
                              +-- creates / retries / cancels jobs               +-- claims, executes, settles jobs
                              +-- queue actions on reup items                    +-- on a terminal job: advances the item
```

| component | state it keeps | operations | what is hard |
|---|---|---|---|
| Job state machine (`job_state_machine.py`) | two transition tables | validate, can_retry / can_cancel / can_resume | tables that disagree with the code around them |
| Durable job queue (`job_runner.py`, `job_service.py`) | rows of `jobs`, `job_steps`: status, attempts, lock holder and time, due time | claim, run, settle, complete, abort, three lock sweeps, retry, cancel, resume, delete | workers, sweeps and HTTP requests that compute on stale ORM copies; crashes; locks that age |
| Worker process (`apps/worker/src`) | process life, worker id, heartbeat thread | start, recover own locks, sweep, claim, execute, recover after an exception | a crash at any point; a heartbeat that starves |
| Reup pipeline (`reup_pipeline_orchestrator.py`, `reup_pipeline_admission.py`, `reup_queue_service.py`) | queue items: mode, step, last completed step, hold, slot wait, linked job | operator actions; on a terminal job: record, advance, park, admit the next; reconcile | a callback that is never called; a hold racing a completion; a slot nobody hands on |
| Publish attempts and the Page's safety gate (`publish/`) | drafts, attempts, publications, the account's hold and cooldown | enqueue, execute, refresh, reconcile, sync, approve, cancel | a crash between the external publish and its commit; a refresh, a late worker and a second request on one row |
| Metric cadence and collection (`analytics/`) | schedules, collection jobs, snapshots | dispatch due rows, collect, sync, retry, pause, resume | a sweep that dies between its two commits; a slot dispatched twice, or never again |
| Media, audio, OCR and render stages | files and artefact rows | the body of one job step each | numeric processing, seen by the queue only as a result |
| Facebook OAuth, platform accounts, operator login | tokens, sessions | exchanges with an external service | outside the pipeline's logic |
| Capture inbox, Douyin accounts, browser contexts, extension, web UI | captured payloads, browser sessions, views | ingest, browse, present | parsing and external browsers |

How they interact: the API and the worker share nothing but the database. A handler's result settles a job step; a terminal
job calls the orchestrator in the same transaction, which may create the next stage's job. Sessions are SQLAlchemy sessions
with `autoflush=False`, PostgreSQL runs at READ COMMITTED, and no table carries a version column. The only row locks are the
claim's (`FOR UPDATE SKIP LOCKED` under one advisory lock). So a request or a worker that loaded a row, computed on its copy
and commits later overwrites the columns *it* changed, whatever happened to the row in between. This is the main hazard
of the code and the reason why the model separates every read from its commit.

`PROJECT.json` lists every component, including the unmodelled ones with the reason, and under "hazards" what is hard to
test in this code, line by line, with the property that watches it.

## 2. The job queue

### 2.1 Modules

| module | role |
|---|---|
| `JobStatus` | status vocabulary and the transition tables of `job_state_machine.py` |
| `JobLifecycle` | abstract specification: what the queue promises about a job, without sessions, copies or locks |
| `JobQueue` | the detailed specification: `job_runner.py`, `job_service.py`, `runtime.py`, `job_heartbeat.py` |
| `MCJobQueue` | job types, limits and policies of the small instances |
| `JobQueueProofs` | types, and the running caps |
| `JobQueueLocks` | one worker process loses no row, whatever crashes, errors and failing recoveries do |
| `JobQueueExclusive` | exclusive execution, the retry budget, and the refinement of `JobLifecycle` |

### 2.2 State and actions against the code

`jobs[j]` is the committed row of job `j` with its steps: status, step statuses, `attempts`, `max` (`max_attempts`), `due`
(`scheduled_at` is empty or past), `by` (`locked_by`) and `lock`, which abstracts `locked_at` to absent, fresh or older than
the stale threshold. A deleted row has status `GONE`. A session (a worker's or an HTTP request's) is at `pc[s]`, has
`task[s]` in hand and its ORM copy in `view[s]`. `Flush(db, old, new)` is a commit: a column is written only if the session
changed it, and then it overwrites whatever is there.

* **Worker.** `Start`, `Crash` (a worker in `StableIds` may start again under the same id; another is gone, as a restart
  gets a new `host:pid` id), `RecoverRead`/`SweepCommit` (`release_orphaned_locks` at boot and
  `release_failed_execution_locks` after an exception), `StaleRead`/`SweepCommit` (`release_stale_running_locks` on every
  poll), `Claim`/`ClaimNothing`, then `run_job`: `Preflight`, `StepHead` (the cancel check), `StepStart`, `HandlerReturns`,
  `SettleStep`, `FinishRead`, `CompleteJob`, `AbortCancelled`.
* **Errors.** `Raise` is the exception of the code itself: a deleted row, an illegal transition. `Error(w)` is any other one between
  two commits: a statement or a commit that fails, `on_job_terminal` raising, the boot's recovery, the poll's sweep or the
  recovery itself. The transaction is rolled back, and `AfterError` says where `run_forever` goes on: what leaves `run_once` is
  recovered from (`release_failed_execution_locks`); a recovery that fails, at boot or after an exception, is logged and not
  repeated (`runtime.py:210-214`, `236-240`), so the worker polls on while a RUNNING row still names it; a failed stale sweep does not
  keep it from claiming. Crashes and errors are the `Faults`, bounded together by `FaultBound`.
* **Heartbeat.** `Heartbeat` refreshes the lock of the job being executed. It runs on its own thread and session. Its read and its
  commit are one step: a commit that lands later renews the lock of whoever holds the row by then, or dates a row that has no
  lock, which the next claim overwrites.
* **Time.** `LockAges` makes a lock stale, `BecomesDue` ends a backoff.
* **Operator.** `Request` loads a row and checks the guard of retry, cancel, resume or delete; `Respond` computes and
  commits. Anything may happen in between.

Abstractions: one workspace; every type has a limit (a type without one is a type whose limit is at least the number of
jobs); `retryable` is always true, as `build_job` sets it; the claim is one transaction, as the advisory lock serialises
claims; the handler of a step is a nondeterministic result (ok, a transient, auth or terminal failure, a request for input), or
never returns;
progress percentages, messages, events and log lines are left out.

### 2.3 What the queue's runs check

| run | instance | shows |
|---|---|---|
| `QueueCrash` | 2 GPU jobs and a metrics job of 2 steps, 2 workers, 1 crash, no operator, fair | `ExclusiveExecution`, `GpuMachineBudget`, `AttemptsWithinBudget`; the queue implements `JobLifecycle`; every job settles (`EveryJobSettles`), unless for good a handler hangs on it or on a slot it needs, or no worker is left to poll |
| `QueueRaces` | 2 GPU jobs of 2 steps, 2 workers, an operator retrying and cancelling | stale commits never push the RUNNING counts above the caps, and COMPLETED means all steps done |
| `QueueSolo` | 1 job of 2 steps that may ask for input, 1 worker with a stable id whose heartbeats may starve, 2 faults (crashes or errors), every operation, fair | a RUNNING row stays visible to the sweeps; a waiting job is really parked; no row stays RUNNING for good (`RunningEnds`) unless its handler hangs or no worker is left to poll, also when the recovery after an error fails |

`QueueRaces` has `HeartbeatReliable = TRUE`: with heartbeats that starve a zombie's copy completes a job whose step another
worker has restarted, and TLC refutes `CompletedIsDone`. `QueueSolo` has one worker and one operator: a zombie of a second
worker strips the holder of another's claim, and a second resume request of one waiting job leaves it RUNNING without a
holder, and either refutes `RunningIsRecoverable`.

Bounds. `AttemptBound` stops claiming a job after that many claims; it is above every retry cap of its run, or above the
number of claims the property needs, so the policy and not the bound ends the retries. `FaultBound` is 1 for `QueueCrash`, where a second
crash would leave nobody, and 2 for `QueueSolo`: an error, and another one in the recovery it causes. Two workers are enough for every race of the code, since each of them is between two sessions.

`HeartbeatReliable` names the two regimes. TRUE: a live heartbeat never misses the stale threshold (it beats every few
seconds against minutes). FALSE: it may starve (a suspended laptop, a blocked database), so a live worker loses its
lock and comes back as a zombie. `ExclusiveExecution`
of several workers holds only in the first; the slot caps are checked in the first and proved for both (2.5). `QueueSolo` is in the second.

Fairness (`FairSpec`): a worker that can take a step of its loop eventually does (`run_forever` is an unconditional loop), a worker
process is eventually started, locks age and backoffs end. Nothing is assumed of operators, faults and restarts, nor of the time
a handler takes: the step that ends it (`pc = "run"`) has no fairness. Nothing in the code bounds a handler, and a hung one is not
reclaimed: its heartbeat thread goes on renewing the lock, so that `release_stale_running_locks` never selects the row, although
the comments at `job_runner.py:588` and `runtime.py:246` mean the sweep for hung downloads. So `EveryJobSettles` and `RunningEnds` name the
hang as an exception (`Hangs`, and `Competes` for a hang on a slot the job needs); without it TLC refutes both.

### 2.4 Findings

One run checks a statement of the repository that the code does not keep:

| run | statement | what the code does |
|---|---|---|
| `BugTerminal` | terminal statuses are final | a cancel computed from a stale copy overwrites COMPLETED with CANCELLED, and the reverse |

The model shows more such behaviours, which no run of its own states. They are in the hazard list, and the instances above
are chosen around them:

* *A cancelled GPU job* frees its slot while its handler is still on the card, and another is claimed beside it, although
  the comment at `job_runner.py:270` calls the group the real machine budget. `GpuMachineBudget` is checked without cancels.
* *Two resumes of one waiting job*: the second request makes a row RUNNING that the first has already made RUNNING and a
  worker has since finished with: it has no holder, and no sweep selects it.
* *A zombie's give-back*: `_abort_cancelled_job` clears holder and lock from its copy, and takes them from the row another
  worker has claimed meanwhile.
* *A cancel before the start*: `_fail_job_before_start` works on the row as claimed and overwrites a cancel with FAILED.
* *Attempts nobody asked for*: an operator's retry raises `max_attempts` from a copy of the row.
* *A failed advisory lock* is logged, and the claim goes on unserialised; the model always takes it.
* *Without WORKER_ID* a restarted worker is another worker, and only the stale sweep finds the rows of its predecessor.
* *Two sweeps of one stale row*, by two live workers: the later commit undoes the claim made in between, and the job is
  claimed beyond its retry cap. `QueueCrash` leaves one survivor, so it has one sweeper.
* *Delete after cancel*: a CANCELLED job that is still executing may be deleted under its worker, which then fails on a
  missing row. `Raise` models what follows.
* *Cancel of a FAILED job*: `can_cancel_job` admits it, the transition table has no `FAILED -> CANCELLED`, so the request
  fails, although `docs/job-state-machine.md` allows it. `Allowed` has both conditions.
* *Resume from review*: `resume_job` sets RUNNING without a worker; nobody claims the row, and the stale sweep finally counts
  the wait as a failed attempt. It also passes the slot caps by, which is why 2.5 excludes it.

### 2.5 Proofs

All theorems rest on `QueueAssumption`; what else one assumes is in its statement.

* **Types** (`JobQueueProofs!TypeCorrect`). `TypeOK` is inductive because it says that a session inside a job or a request has
  that job in hand: without it `Commit` could not be shown to write a row.
* **Caps** (`JobQueueProofs!SlotsBounded`). Whatever the interleaving of claims, sweeps, completions, stale commits, crashes and
  requests, the RUNNING counts stay within the caps. `SlotBudget` alone is not inductive: an operator's stale commit might set
  RUNNING. `SlotInv` adds that no row or copy is in `WAITING_FOR_REVIEW` and that a resume in progress was read from a
  RETRYABLE row, hence requeues; then no commit but the claim's makes a row RUNNING, and the claim counts under the lock.
  It assumes `InputJobs = {}`: a resume from review makes a row RUNNING past the claim. No handler registered in the repository asks
  for input today.
* **One worker** (`SoloParks`, `SoloRecoverable`). `docker-compose.yml:85-95` starts one worker process, and
  `docs/worker-runtime-overview.md` speaks of one local loop. A copy of that worker then never has the status the worker is
  about to set, so giving a row back always changes its status (`ParkInv`), rows that run or wait have a holder and a lock time
  (`HoldInv`), and a resume still finds the job waiting (`ResumeFinds`). `SoloRecoverable` needs one operator, or handlers that
  never ask: TLC refutes it with two resumes. Both cover errors and recoveries that fail: the row left in the worker's name keeps its
  holder and its lock time.
* **Exclusive execution** (`JobQueueExclusive`): `ExclusiveExecution`, `GpuMachineBudget`, `AttemptsWithinBudget`, `CompletedIsDone` and
  the refinement `ImplementsLifecycle`. `ExecInv`: the row of an executing worker is RUNNING and its own, its copy differs from it
  in the age of the lock at most, and nobody executes a row that a sweep has loaded. The `Regime` has no operator (TLC refutes
  each of these with operators, 2.4), no handler that asks for input, `MaxAttempts # 0` (`schemas/jobs.py:19`), and either reliable
  heartbeats or one worker. The argument needs that no two sweeps have loaded one row (`SweepsApart`), which the code does not
  ensure for any number of workers, so the theorems are about the two deployments in which it follows. `OneWorkerSuffices`: the one
  worker of `docker-compose.yml`, with any crashes, errors, failing recoveries and starving heartbeats. `TwoWorkersSuffice`: two
  workers of which one may crash at any point, or any number that do not crash, with reliable heartbeats and no errors; until the
  first crash every RUNNING row is executed by the worker it names, so that the sweeps find nothing, and after it one of the two is
  left (`CalmInv`). This is the regime of `QueueCrash`.

Liveness (`EveryJobSettles`, `RunningEnds`) stays with TLC.

## 3. The reup pipeline

### 3.1 Modules

| module | role |
|---|---|
| `PipelinePlan` | `reup_pipeline_plan.py`: the order of the stages, where a mode stops, what comes next |
| `ReupItems` | one clip and what the orchestrator does to it, as operators from a clip to a clip |
| `ReupPipeline` | the lane: workers that settle jobs and call back, operators that act on items, admission |
| `MCReupPipeline` | the instances |
| `ReupProofs` | types and the remediation cap, for every overlap of transactions |
| `ReupLane` | what holds when transactions do not overlap: progress, the bounded lane, stages in order and alone, no clip stranded |

`PipelinePlan` and `ReupItems` have no variables. `ReupPipeline` extends them and puts their operators into transactions.

### 3.2 State and actions against the code

`clips[i]` is the database as far as item `i` is concerned: its queue item `it` (the columns `status`, `held_at`,
`started_at`, `media_ready_at`, `job_id` and the keys of the one JSON column `metadata_json`), the jobs created for its
source video in order, and what Analyze Audio found. Statuses are shortened: `READY`, `MEDIA` and `METADATA` are
READY_FOR_PROCESSING, WAITING_FOR_MEDIA and WAITING_FOR_METADATA, `FAILED` is FAILED_NEEDS_ATTENTION. A job is *live* from
its creation to its terminal status: what happens in between is section 2.

A transaction reads the items when it begins (`view`), looks jobs up and creates them when it commits, and writes the
columns that differ from what it read. `metadata_json` is one column: a transaction that changes one key writes all of them
(`Flush`). This is what SQLAlchemy does with these rows at READ COMMITTED.

* **Worker.** `Begin(w)`: the handler of a live job returned, with an outcome. `SettleJob(w)`: the commit of `run_job` that
  ends the job: `SyncDownload`, then `on_job_terminal` (`Advanced`), then `admit_waiting_items` (`Admit`: repair, plan,
  start). `LinkPreview(w)`: a preview is committed by its creator before the item is bound to it, so a step that queues one
  takes two commits. `Die(w)`: the worker dies in a transaction, or an exception leaves `on_job_terminal` and rolls it back: the
  creation of a preview or of an automatic OCR review has no `try` around it (`reup_pipeline_orchestrator.py:993`, `1044`, `1109`), so its
  refusal ends like this. A job that was not settled stays live, as section 2 shows.
* **The Ops page.** `EndSilently(i)`: a job ends without a callback (`cancel_job`, or a failure decided by the stale sweep).
* **Operator.** `Ask(o)` loads the item and tests `available_action_values`; `Answer(o)` is `apply_action` and its commit.
  HOLD of an item with a live job takes two commits: `CancelForHold`, then `MarkHeld`. `Clarify(i)` resolves an uncertain
  transcript.

The answers of everything outside (a creation refused, the verdict of the quality summary, the QA of a render) are inputs:
`ans` for the clip itself and `seat` for the clips the lane starts or repairs in the same transaction.

Two details of the session matter. `autoflush=False` keeps a changed key of a job from being seen by a later SELECT of the same
transaction: a download job that failed or was cancelled is let go of and its key released (`Released`), and then the lookup by
that key finds the very job again (`DownloadJob`), although the comment at `reup_queue_service.py:933` says that a resume must not reuse
a terminal job. And `create_tts_job` retries the keyed job only when it failed, may be retried and is of this runtime; the
answer `"fresh"` stands for one that may not, and a job without a key is created instead.

Overlap of transactions. `Overlap = "none"` runs them one at a time: what holds then depends on the logic alone. `"short"`
lets them overlap freely, except that no stage's handler returns before the transactions that were open when its job was
created have ended (a commit takes milliseconds, a stage seconds at least). `"any"` drops that assumption.

Abstractions: one item per source video; items in admission order (priority, then age); the text a TTS key is derived from
does not change when a stage runs again; the two counters of residual remediation are one; job rows are not deleted; the
recipe of an item is always valid; an operator's request never queues a preview itself; of two previews that one repair
queues for different clips the first is kept and the other repair is repeated. Inner commits are merged with the commit that follows:
`retry_job` inside `create_tts_job` (`tts_service.py:316`, `job_service.py:242`) commits what the callback has changed so far, and
`create_preview_job` commits the preview and then the recipe it is bound to, and a worker that dies between them leaves a preview without
a link, as one does between the model's two commits. An exception in the admission is caught (`reup_pipeline_orchestrator.py:196`), and
what it had changed by then is committed; this is not modelled. PROCESSING, the export statuses,
MARK_COMPLETED and DISMISS are left out.

### 3.3 What the pipeline's runs check

| run | instance | shows |
|---|---|---|
| `Lane` | 3 clips, 2 slots, 2 workers, to TTS, short overlaps, fair | the lane keeps its limit, by its own count (`LaneBudget`) and by the work going on (`LaneLoad`); no clip holds a slot without work (`NothingStranded`); no stage is doubled (`OneLiveJob`) and each live job's callback will find its clip (`CallbackFinds`); every clip, the parked ones included, starts and comes to rest (`EverythingSettles`) |
| `ClipRender` | 1 clip, 2 workers, to the render, every dialogue and verdict, previews that fail or find residual text, short overlaps | a stage starts only after the stages it needs; two remediations per authority and no more; the callback of a preview finds its clip |
| `ClipOperator` | 1 clip, every request, one loss, one transaction at a time | a pause stops the pipeline, recorded progress is kept |

`Lane` has failing TTS jobs (`Fails = {"tts"}`) and no refusals. With a failed download `EverythingSettles` is false, as `BugParkedStarts`
shows. It is also false with refusals: when the job of a clip that has just been admitted is refused, the slot is given back after the
look at the lane, and a third clip stays parked until some later callback.

Bounds. Three clips and two slots are the smallest lane in which two clips finish at once while a third waits; two workers
are enough for one transaction to overlap another. `JobBound` stops settling a clip that has had that many jobs; it is above
the number of stages everywhere, and only OCR reviews and remediations under a new authority, which the code does not cap,
reach it. `RequestBound` is the number of requests in all (3: start, cancel, enqueue), `LossBound` the number of losses (1 in `ClipOperator`).

Fairness (`FairLaneSpec`): a worker begins to settle a live job eventually, which is the liveness of the job queue, and a
transaction that began ends. Nothing is assumed of operators, of the Ops page or of the worker's life.

### 3.4 Findings

| run | statement | what the code does |
|---|---|---|
| `BugHoldLost` | a pause stops the pipeline | HOLD is two commits; a completion around them goes on and clears the hold flag |
| `BugParkedStarts` | parked clips start on their own when a slot frees up (`tests/test_reup_queue_wip_gate.py:4-5`) | the download sync fails the item of a failed download before the orchestrator looks for it; no item is found, the lane is not looked at, and the parked clip waits for ever |

Other statements of the code's comments and texts fail in the model too. No run of their own states them; the main ones are
hazards in `PROJECT.json`, and the runs above leave the case out by their choice of requests, modes, answers or overlap:

* *A resume starts a new download* (`reup_queue_service.py:933`): it binds the failed job again, which nobody will run (3.2).
* *A held clip creates no job*: a preview that fails its own QA is remediated although its clip is held.
* *One render per approval*: two approvals, or an approval beside a callback, queue two renders.
* *An item that leaves the lane hands its slot on*: CANCEL and MARK_BLOCKED free the slot and admit nobody.
* *OCR reviews end*: the automatic OCR review has no cap of its own.
* *Progress is monotone*: with overlapping callbacks, the repair that runs in one clip's transaction writes another clip's
  old metadata document back, with its older last completed step.
* *A pause lasts*: a parked clip that is paused is admitted and un-paused by a worker.
* *A bounded number of clips moves at once*: switching the mode of a parked clip starts it beside a full lane, uncounted; and a
  clip leaves the lane while its preview renders and re-enters it unasked.
* *The job and its link are one unit of work*: a preview is committed before it is linked; a worker that dies in between
  leaves a preview whose callback finds no clip. `ClipRender` therefore has no losses.
* *Resume re-enqueues the step the item was paused on*: at `quality_review` it falls through to the completed download,
  and the clip stays there.
* *One bad clip must not stall the lane*: a clip refused at admission frees its slot and nobody hands it on.
* *A cancelled job does not consume a slot indefinitely*: it does when no other clip is moving.
* *One live job per stage*: RETRY, or CANCEL and a second enqueueing, release the download's idempotency key while the download
  is live, so a second one starts beside it.

With overlapping transactions *and* an operator, `NothingStranded` and `OneLiveJob` fail as well, for the reasons
`BugHoldLost` shows; this is why `ClipOperator` is serial.

### 3.5 Proofs

* **Types and the remediation cap** (`ReupProofs!TypeCorrect`, `RemediationsBounded`), for any clips, workers and operators, every
  overlap of their transactions and every loss. A transaction commits what it computed from an older view on top of jobs that
  others have added since, and its second half still names the preview it must link. So the invariant `ReupInv` has four parts:
  the variables' shapes (`Typed`), clips that are well formed between transactions (`ClipsFine`), views that were such clips with
  no more jobs than now (`ViewFine`), and tasks that name a job of an existing clip, with an attempt number that is within the
  cap (`TaskFine`). Each operator of `ReupItems` maps a clip to one that *grew* (`Grows`): jobs are only added, the mode and the
  wait stay, the recorded progress does not go back, and only full-auto clips queue previews. `Serves` and `Settles` say the same
  of a whole transaction.
* **Serial transactions** (`ReupLane`). `OneAtATime` is one actor, or `Overlap = "none"`; the deployment starts one worker. A lone
  transaction then sees the database as it is, and its commit is what the orchestrator computed (`SerialInv`). From this:
  `ProgressNeverLost`, for the one worker of the deployment and no operator, with losses (an operator's request is a transaction of
  another process: it overlaps the worker's, and progress may then be lost); and, for clips that stop at TTS and no operator, `LaneBounded` and
  `LaneLoadBounded`, for any number of clips and any limit. `TtsInv` carries the count through a callback, which never brings a
  clip into the lane (`SettledFlight`), and a look at the lane, where `AdmissionPlan` takes no more clips than there are free slots
  (`PlanFits`, `AdmitFits`). Clips of `auto_to_render` are excluded because they come back from `quality_review` without an
  admission, and operators because START_AUTO and SET_AUTOMATION start clips beside a full lane: TLC refutes the bound for both.
* **The clips of the lane, job by job** (`ReupLane`, second half), for both automatic modes, under `AutoLane`: one worker, or
  transactions that do not overlap, and no operator. `InputsAlwaysReady` and `StagesRunAlone` hold with losses too;
  `NoneStranded` and `CallbacksFind` also assume `NoLoss`: every job reaches its callback, and no worker dies in one. The invariant `LaneInv` says that
  every clip is `Good` between transactions and that a worker at work still finds its clip as it left it (`TaskGood`). `Good` has
  three parts. Every job had its inputs (`AllReady`), which no later step takes back, but for the analysis, which decides whether
  there is speech: `EndedGood` shows that nothing beyond it has started then. The stage the item is at is the furthest one and
  bound to its job (`Bound`), so that what `NextStep` names is ahead of all jobs there are and no completed job is reused
  (`NextReady`). And a live stage is the one the item is bound to (`OneStage`). Without losses a clip is also `Served`: every live
  job is awaited and an active clip has one, except between the two commits that queue a preview and link it (`Attended`).
  A callback has many branches, but only three outcomes: the next stage is `Opened`, the clip is `Stopped`, or a preview is
  `Queued` (`Moved`); `AdvancedMoves` takes the callback's branches to these three, and `MovedLands` shows once for each that the
  clip is good again. The repair and the admission of other clips in the same transaction go the same way (`ReconciledLands`,
  `AdmitLands`).
  None of the restrictions is idle. Operators break `StagesRunAlone` even one at a time (RETRY of a live download, 3.4), and with
  overlapping transactions they strand clips; a job cancelled from the Ops page, or a worker that dies between
  the two commits of a preview, strands its clip until the next repair; an older
  view committed late is what `OneAtATime` excludes. The runs `Lane` and `ClipRender` check the four for two workers whose
  transactions overlap under the `"short"` assumption, which the theorems do not cover.

With TLC stay: what holds of two workers whose overlaps are `"short"` (the assumption is about the order of a handler's return
and another transaction's end, not about a state), `HoldStops`, and liveness.

## 4. Publishing

### 4.1 Modules

| module | role |
|---|---|
| `PublishOnce` | abstract specification: one call per attempt, none beside another that the system still counts on, nothing held to be published that the platform has not accepted; a request may be lost |
| `PublishAttempts` | `publish_attempt_service.py`, `publish_lifecycle_service.py`, `publish_reconciliation_service.py`, the gate and the safety service, for one Page |
| `MCPublish` | symmetry of the drafts |
| `PublishProofs` | one canonical publication, the refinement of `PublishOnce` |
| `PublishRows` | types, publications that are backed, posts that were approved |

### 4.2 State and actions against the code

`att`, `draft` and `pub` are the rows; `finished` is the order of `finished_at`; `post[a]` is what exists on the platform for
attempt `a`: nothing, a video id, an accepted finish call, a live post, a removed one. `work[a]` is the attempt's job and where its
worker is, `seen[a]` the draft as that worker read it, `req[r]` a request in progress with the row it has read. `recent` and `old` are the two facts that time contributes: the Page's minimum interval
has not passed, and the attempt has had no answer for longer than `stale_after`.

* **Enqueue** is two steps, `EnqueueGate` and `EnqueueCommit`, so that two requests may pass the gate; the two partial unique
  indexes decide between them (`Conflict`).
* **Execution**: `ExecResume` (a retried job whose attempt has left QUEUED is failed, never uploaded), `ExecRefuse`, or `ExecGate`, which
  reads the rows and passes the gate, and `ExecRun`, which commits RUNNING over whatever the attempt is by then; if another attempt of
  the Page has become active the index refuses it and the job raises. Then `ExecNoAccount`, `ExecUpload`, the platform's `Receives` and
  `Processes`, the answer's commit (`ExecSuccess`, `ExecError`, or `ExecInvalid` for a ValueError of the connector) and `ExecSync` (the second
  commit). `Crash` may come at each of them. `CancelJob` ends a waiting job; one that is cancelled while it runs runs on and is not
  retried, which is the same as a cancel after it has failed.
* **Refresh and reconcile**: `FindStale` and `MarkStale`, the read and the commit of a stale mark, `ReconcileRefresh`, `ReconcileSkip` (no
  account to ask with) and `ReconcileEnd` walk a draft's attempts from the newest; `RouteRefresh` or the walk reads an attempt,
  `RefreshCommit` commits RECONCILING, `RefreshAnswer` and `RefreshError` are written over the attempt as it was read before the call. All
  of these write the columns that differ from what was read (`Merge`).
* **Operator**: `MarkReady`, `Retract`; `PageOpens`. `HandlerDies` ends a request anywhere.

Abstractions. One Page. DRAFT stands for SCHEDULED, OPEN for UNKNOWN, PROCESSING and PARTIALLY_CONFIRMED. Time, as assumed: a request
commits sooner after its gate than a video is uploaded (a guard of `Receives`); a status query is shorter than the minimum interval
(`Calm`). An upload may take any time, also longer than `stale_after`. One execution of an attempt is live at a time: this is what
`JobQueueExclusive` proves of the job queue (2.5) for the deployed worker and no operator. A retry after a cancel cannot add a second
one while the first is at work: `can_retry_job` admits FAILED and RETRYABLE jobs only. What can add one is a worker that lost its lock while
it uploads (heartbeats that starve, two sweeps); the second would meet an attempt that
has left QUEUED, and give it up (`ExecResume`); only two that both pass the gate before either commits RUNNING would upload twice. Not modelled:
`publish_now`, the manual import of a post, affiliate comments, the 24-hour budgets, the warm-up, capability checks.

### 4.3 Runs

| run | instance | shows |
|---|---|---|
| `PublishPage` | 1 draft, 2 attempts, 2 requests, 1 refresher, 2 approvals | `OneCanonical`; an attempt given up with a reference is followed up (`ReferenceFollowed`); `OnePostPerApproval`; `PublishedIsBacked`; the attempts implement `PublishOnce` |
| `BugLostReference` | 1 draft, 1 attempt, every effect of an error | finding: a FAILED attempt may have left a video on the platform |

Bounds. Two attempts suffice for every property, each of which relates two attempts or an attempt and its draft; two requests for the
gate race. With the reads apart from their commits two drafts are too many states for a run; with one, its two attempts race for the
Page just as attempts of two drafts do, and the theorems of 4.5 cover any number of drafts, attempts, requests and refreshers.
`MaxApprovals` also stops `Retract`: once it is reached the drafts are left alone. `Effects = {"none"}` in `PublishPage`: hold and cooldown
only close the gate. One refresher: with three whose transactions overlap TLC refutes `ReferenceFollowed`, since each writes only what
differs from its own older read (with two and one attempt it holds).

### 4.4 Findings

`BugLostReference`: `docs/publish-attempt-lifecycle.md:39` says that an attempt whose upload fails after Facebook returned a reference
moves to NEEDS_RECONCILIATION. The reference is kept only in the commit after `connector.publish` returns or raises
`PublishConnectorError`: a worker that dies, or a read timeout the connector does not catch, loses it, and the attempt becomes FAILED.
Seen in the model without a run of their own:

* A removed reel stays NEEDS_RECONCILIATION for good, and blocks its Page: every refresh answers the same.
* A stale mark computed before a worker starts the attempt commits FAILED over the upload; an upload that outlasts `stale_after` is
  marked in the same way. The Page is then open: a second upload may start beside the first, so "must be reconciled before another
  publish is admitted" is false of the code. `PublishOnce` calls such a request *lost*: its answer may still come, and count.
* A refresh beside an active attempt of the Page breaks the unique index; the IntegrityError is not caught, and a reconciliation stops
  half way.
* A job that is cancelled, or whose render is missing, leaves its attempt QUEUED and the Page closed until the stale mark.
* A crash between SUCCEEDED and the sync leaves the draft PUBLISHING until somebody reconciles it.

### 4.5 Proofs

`PublishProofs!CanonicalUnique` needs the types and one fact per step, that a step rewrites the publications of one draft at most.
`PublishesOnce` rests on `PageInv`: attempts are numbered as they are created; what a row says of its job, its calls and its post
(`AttemptGood`); and that a stored reference is never taken away, also not by a stale mark or a refresh that read the row earlier
(`HandlerGood`). A call is then made once, since only a QUEUED attempt passes the gate and no step takes an attempt back to QUEUED; and the
commit of UPLOADING finds no other attempt active, by the index, so none that the system still counts on.

`PublishRows!RowsTyped` and `PublishedBacked` rest on `RowsInv`. It adds drafts whose canonical attempt is backed, the order of `finished_at`
without repetitions, and rows and drafts read earlier that agree with the present ones where it matters (`ReadGood`). `PostsApproved` rests on
`RowsInv` and `ApprovalsInv`: the attempts of a draft that have been posted or may still be, and one more if the draft or a request past the
gate may create one, are no more than the approvals given. An attempt that was marked FAILED under its upload still counts, so a new one
costs a new approval. None of these theorems assumes anything about the length of an upload.

## 5. Metrics

### 5.1 Modules

| module | role |
|---|---|
| `CadencePolicy` | `publication_metric_cadence_policy.py` in full, in units of half an hour |
| `MetricCadence` | dispatch, collection, sync, retries, the operator's upsert, pause and resume |
| `MCMetrics` | the instance |
| `MetricProofs` | theorems about both |

### 5.2 State and actions against the code

`sched[s]` is the schedule of a publication, `jobs` the collection jobs by schedule and slot (the idempotency key), `disp[d]` a sweep in
progress, `gone` the publications that are PUBLISHED no more, `account` the hold and the cooldown. A transaction is one step, but for a
sweep's. A sweep locks the rows it selects until its first commit (`locked`, `Write`): other commits to them wait, and other sweeps skip
them (`SKIP LOCKED`); from there it works on the rows as they have become. That it stops a schedule is a mark in its session (`marks`),
written by its next commit, of a later job or of the end, and forgotten when it dies or when the insert of a job that another sweep has
created first is rolled back. `Visit` is one turn up to the commit of the job, `WriteBack` the second commit of the turn, computed before
the first; `SweepDies` may come between them. A job is claimed, checked and called in one step (`Replay`, `Refuse`, `Defer`, `Call`), then `Answer` or `CallFails`, `Sync`
and `Complete`, each a commit. A completed job drops the data that nothing reads any more.

Abstractions: FACEBOOK_GRAPH metrics only; `Tick` waits for sweeps and runs, which last seconds; a schedule in `Old` starts at the age
limit. Not modelled: LOCAL_MOCK, `collection_count`, the decision history, the tracking monitor, jobs enqueued by hand, the numbers of a
snapshot.

### 5.3 The run

`Metrics`: 2 schedules, one of them at the age limit, one sweep and one job at a time, 6 half hours, one act of the operator, one
fault. `ActiveIsScheduled`, `ResultKept`, `OperatorStarts`, and under fairness `TrackingEnds` and `CollectionsEnd`. `MaxAge = 2` and
`MaxTries = 2` make the age limit and the last attempt happen within the horizon; `OpsUntil` leaves time to end after the operator's
last act.

Fairness: the clock runs (`WF(Tick)`), what is due is dispatched in the end (`WF(Dispatching)`), some worker goes on (`WF(Working)`, section 2).
The second holds only where METRICS_SCHEDULER_ENABLED is set: it is off by default, and then `maybe_dispatch_metric_schedules` returns at
once and `TrackingEnds` is not promised; where it is set a worker's poll dispatches when its interval has passed (`runtime.py:168-179`).

One sweep at a time. `ActiveIsScheduled` is false for several: TLC finds, with three, that the mark of one sweep clears a time that it had read,
beside the status that another had stopped and the operator had resumed since, which leaves an ACTIVE schedule without a slot. One worker
makes one sweep at a time, and this is the assumption of `NeverForgotten` (`OneSweep`).

### 5.4 What the model shows beside the properties

* With two sweeps and two due schedules a job is created for a slot that is not due: `docs/publication-metrics-cadence-v1.md:56-58`
  says that concurrent dispatchers converge on one job.
* A schedule paused after a sweep selected it still gets a job; it stays paused.
* PAUSE takes a COMPLETED schedule to PAUSED, and RESUME then starts it.
* A replay that comes late counts its delta a second time; the document (lines 41-42) says once.
* The document (line 39) gives the interval of a baseline; the code reads again after half an hour under six hours of age.
* Deferrals by a cooldown use up the attempts of a job.

### 5.5 Proofs

`IntervalBounds` is about the policy: the next slot is at least half an hour and at most two days away, at every age and for every trend.
`MetricInv` carries `MetricTypes`, `OnlyOperatorStarts` and `SnapshotsKept`, for any number of schedules, jobs, sweeps and workers: the types,
among them those of marks and locks, and that a job being read for has no snapshot. `NeverForgotten` adds `TrackInv`, for one sweep at a time:
ACTIVE schedules have a slot, a sweep between its commits has a time to write back, and a pending mark that clears a time stops the
schedule too. Liveness stays with TLC.

## 6. Not modelled

* *Stages* (audio, OCR, TTS, render): numeric and media processing. The queue sees a result, and so does the model.
* *Quality and localization review*: its verdicts are inputs of the pipeline model.
* *Browser connect sessions and Douyin accounts*: they drive real browsers, and what can go wrong lies in Playwright.
* *OAuth, operator login, capture, growth intelligence, UI, extension*: external services, parsing and presentation, or reports over
  artefacts; no protocol of their own.

## 7. What is proved and what is not

Every invariant and action property of the passing runs is stated by a theorem, except those of this list; liveness under fairness is out
of the prover's reach altogether.

| property | why it is only model-checked |
|---|---|
| `EveryJobSettles`, `RunningEnds`, `EverythingSettles`, `TrackingEnds`, `CollectionsEnd` | liveness |
| `ReferenceFollowed` | false for three overlapping refreshes (4.3); checked with one |
| `HoldStops` | false as soon as a pause meets a transaction, or a held preview fails its own QA; checked for one transaction at a time |

The theorems say more than the runs where the code allows it, and less where TLC refutes the general statement; each restriction
names the run or the behaviour that makes it necessary (2.5, 3.5, 4.5). In one place they say less than TLC found true: the
lane theorems of `ReupLane` do not cover several workers under the `"short"` assumption.

## 8. Plan

1. `NothingStranded`, `CallbackFinds` and `OneLiveJob` for overlaps of the `"short"` kind: `LaneInv` with the views of the open
   transactions, and the clips a transaction may still write; `HoldStops` for one transaction at a time.
2. An abstract lane (parked, moving, resting, a limit) that `ReupPipeline` implements for serial transactions.
3. Operators in overlapping transactions: START_AUTO beside the last completion, two approvals.
