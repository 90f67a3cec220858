------------------------------ MODULE JobQueue ------------------------------
(***************************************************************************)
(* The durable job queue: rows of the jobs / job_steps tables, the polling *)
(* workers that claim and execute them, the lock sweeps that recover the   *)
(* rows of dead workers, and the operator requests that retry, cancel,     *)
(* resume or delete them.                                                  *)
(*                                                                         *)
(* Every session of the program (a worker or an HTTP request) reads rows   *)
(* through the ORM, computes on that copy and commits.  Nothing but the    *)
(* claim takes a row lock, no table has a version column and PostgreSQL    *)
(* runs at READ COMMITTED, so a commit overwrites the columns it changed   *)
(* whatever was committed since the read.  A session's read and its commit *)
(* are therefore separate steps: view[s] is the copy, Flush the commit.    *)
(***************************************************************************)
EXTENDS JobStatus, FiniteSets

CONSTANTS
  Jobs,         \* rows, numbered in claim order (priority, then creation)
  Workers,      \* worker identities (resolve_worker_id)
  Operators,    \* concurrent HTTP requests against the jobs API
  Ops,          \* operations they may ask for
  NSteps,       \* steps of every job
  JobTypes, TypeOf,
  TypeLimit,    \* running cap per type and workspace
  GpuTypes, GpuLimit,
  Policy,       \* JobTypes -> {"download", "pipeline", "metrics", "plain"}
  MaxAttempts,  \* jobs.max_attempts at creation
  AutoCap,      \* transient attempts cap of the download / pipeline policies
  AuthCap,      \* attempts cap of the download policy for expired logins
  StableIds,    \* workers whose WORKER_ID survives a restart
  InputJobs,    \* jobs with a handler that asks for operator input
  HeartbeatReliable, \* no live heartbeat misses the stale threshold
  Faults,       \* what may go wrong: a worker crashes, an error is raised
  FaultBound,   \* bound: faults in a behaviour
  AttemptBound, \* bound: claims of one job
  NoOne

ASSUME QueueAssumption ==
  /\ Jobs \subseteq Nat /\ IsFiniteSet(Jobs)
  /\ Workers \cap Operators = {} /\ NoOne \notin Workers
  /\ Ops \subseteq {"retry", "cancel", "resume", "delete"}
  /\ NSteps \in Nat \ {0}
  /\ TypeOf \in [Jobs -> JobTypes]
  /\ TypeLimit \in [JobTypes -> Nat \ {0}]
  /\ GpuTypes \subseteq JobTypes /\ GpuLimit \in Nat \ {0}
  /\ Policy \in [JobTypes -> {"download", "pipeline", "metrics", "plain"}]
  /\ MaxAttempts \in Nat /\ AutoCap \in Nat \ {0} /\ AuthCap \in Nat \ {0}
  /\ StableIds \subseteq Workers /\ InputJobs \subseteq Jobs
  /\ HeartbeatReliable \in BOOLEAN
  /\ Faults \subseteq {"crash", "error"}
  /\ FaultBound \in Nat /\ AttemptBound \in Nat

VARIABLES
  jobs,     \* Jobs -> Row: the committed tables
  pc,       \* where each session is
  task,     \* the job a session has in hand
  at,       \* the step index a worker has reached
  view,     \* Sessions -> (Jobs -> Row): the rows a session has loaded
  result,   \* what the handler of the current step returned
  faults

vars == <<jobs, pc, task, at, view, result, faults>>

Sessions == Workers \cup Operators
Steps == 1..NSteps

Row == [status: JobStatuses \cup {"GONE"}, steps: [Steps -> StepStatuses],
        attempts: Nat, max: Nat, due: BOOLEAN,
        by: Workers \cup {NoOne}, lock: {"none", "fresh", "stale"}]

NewRow == [status |-> "QUEUED", steps |-> [i \in Steps |-> "PENDING"],
           attempts |-> 0, max |-> MaxAttempts, due |-> TRUE,
           by |-> NoOne, lock |-> "none"]

GoneRow == [NewRow EXCEPT !.status = "GONE"]
NoView  == [j \in Jobs |-> GoneRow]

-----------------------------------------------------------------------------
(***************************************************************************)
(* What each service call computes on the row it loaded.                   *)
(***************************************************************************)

\* The ORM emits the columns whose value differs from the one it loaded.
Flush(db, old, new) ==
  LET Col(now, was, is) == IF is = was THEN now ELSE is IN
  [status   |-> Col(db.status, old.status, new.status),
   steps    |-> [i \in Steps |-> Col(db.steps[i], old.steps[i], new.steps[i])],
   attempts |-> Col(db.attempts, old.attempts, new.attempts),
   max      |-> Col(db.max, old.max, new.max),
   due      |-> Col(db.due, old.due, new.due),
   by       |-> Col(db.by, old.by, new.by),
   lock     |-> Col(db.lock, old.lock, new.lock)]

\* Steps whose status is in From get status to.
Restep(r, From, to) ==
  [i \in Steps |-> IF r.steps[i] \in From THEN to ELSE r.steps[i]]

\* The row r with step i in status to.
WithStep(r, i, to) == [r EXCEPT !.steps[i] = to]

Unlocked(r) == [r EXCEPT !.by = NoOne, !.lock = "none"]

Failures == {"transient", "auth", "terminal"}
Results  == {"ok", "input"} \cup Failures

\* resolve_failure_outcome: the attempts a policy allows before it gives up.
\* Only the download policy tells an expired login apart.
RetryCap(j, r, class) ==
  CASE Policy[TypeOf[j]] = "download" -> IF class = "auth" THEN AuthCap ELSE AutoCap
    [] Policy[TypeOf[j]] = "pipeline" -> IF r.max > AutoCap THEN r.max ELSE AutoCap
    [] OTHER -> r.max

\* A row after a failure of the given class; the plain policy neither looks at
\* the class nor postpones the next attempt.
Outcome(j, r, class) ==
  LET retry == /\ r.attempts < RetryCap(j, r, class)
               /\ class # "terminal" \/ Policy[TypeOf[j]] = "plain"
               /\ class # "binding"
  IN [Unlocked(r) EXCEPT !.status = IF retry THEN "RETRYABLE" ELSE "FAILED",
                         !.due = ~(retry /\ Policy[TypeOf[j]] # "plain")]

\* Mutant of Claimed: a new attempt starts from the first step again.
ClaimedFromScratch(r, w) ==
  [r EXCEPT !.status = "RUNNING", !.steps = [i \in Steps |-> "PENDING"],
            !.by = w, !.lock = "fresh", !.due = TRUE, !.attempts = @ + 1]

Claimed(r, w) ==
  [r EXCEPT !.status = "RUNNING", !.steps = Restep(r, {"FAILED"}, "PENDING"),
            !.by = w, !.lock = "fresh", !.due = TRUE, !.attempts = @ + 1]

\* Mutant of Recovered: the sweep requeues without asking the retry policy.
RecoveredBlindly(j, r) ==
  [Unlocked(r) EXCEPT !.steps = Restep(r, {"RUNNING"}, "FAILED"),
                      !.status = "RETRYABLE", !.due = TRUE]

\* _release_worker_locks, release_stale_running_locks
Recovered(j, r) ==
  Outcome(j, [r EXCEPT !.steps = Restep(r, {"RUNNING"}, "FAILED")], "transient")

Retried(r) ==
  [r EXCEPT !.status = "QUEUED", !.steps = Restep(r, {"FAILED"}, "PENDING"),
            !.max = IF r.status = "FAILED" /\ r.attempts >= r.max
                    THEN r.attempts + 1 ELSE @]

Cancelled(r) ==
  [r EXCEPT !.status = "CANCELLED",
            !.steps = Restep(r, {"PENDING", "RUNNING", "WAITING_FOR_INPUT"}, "SKIPPED")]

\* Mutant of Resumed: a retryable job is set RUNNING instead of requeued.
ResumedStraight(r) ==
  [r EXCEPT !.status = "RUNNING",
            !.steps = Restep(r, {"FAILED", "WAITING_FOR_INPUT"}, "PENDING")]

\* Mutant of Resumed: the waiting step resumes, its job is forgotten.
ResumedStepOnly(r) ==
  [r EXCEPT !.status = IF r.status = "RETRYABLE" THEN "QUEUED" ELSE r.status,
            !.steps = Restep(r, {"WAITING_FOR_INPUT"}, "RUNNING")]

\* The first waiting step resumes and ends the loop, so a failed step is
\* reset only when it comes before it.
Resumed(r) ==
  LET waits == {i \in Steps : r.steps[i] = "WAITING_FOR_INPUT"}
      Before(i) == \A k \in waits : i <= k
  IN [r EXCEPT !.status = IF r.status = "RETRYABLE" THEN "QUEUED" ELSE "RUNNING",
               !.steps = [i \in Steps |->
                  CASE r.steps[i] = "FAILED" /\ Before(i) -> "PENDING"
                    [] i \in waits /\ Before(i) -> "RUNNING"
                    [] OTHER -> r.steps[i]]]

-----------------------------------------------------------------------------
Init ==
  /\ jobs = [j \in Jobs |-> NewRow]
  /\ pc = [s \in Sessions |-> IF s \in Workers THEN "down" ELSE "idle"]
  /\ task = [s \in Sessions |-> 0]
  /\ at = [w \in Workers |-> 1]
  /\ view = [s \in Sessions |-> NoView]
  /\ result = [w \in Workers |-> "ok"]
  /\ faults = 0

Goto(s, label) == pc' = [pc EXCEPT ![s] = label]

\* s loads the rows in S; the others stay out of its identity map.
Load(s, S) ==
  view' = [view EXCEPT ![s] = [k \in Jobs |-> IF k \in S THEN jobs[k] ELSE GoneRow]]

Forget(s) == view' = [view EXCEPT ![s] = NoView]

\* s commits new as the value of the row of j.
Commit(s, j, new) ==
  jobs' = [jobs EXCEPT ![j] = Flush(@, view[s][j], new)]

\* A worker's session ends and its polling loop continues at label.
EndWork(w, label) ==
  /\ Goto(w, label) /\ Forget(w)
  /\ task' = [task EXCEPT ![w] = 0]
  /\ at' = [at EXCEPT ![w] = 1]
  /\ result' = [result EXCEPT ![w] = "ok"]

-----------------------------------------------------------------------------
(***************************************************************************)
(* Worker process: start, crash, heartbeat, lock recovery.                 *)
(***************************************************************************)

\* Phases inside the JobHeartbeat block of run_once.
Executing == {"start", "head", "mark", "run", "settle", "finish", "complete", "abort"}
Between   == {"down", "dead", "boot", "raised", "recover", "poll", "sweep", "ready"}
Works(w, j) == pc[w] \in Executing /\ task[w] = j

Start(w) ==
  /\ pc[w] = "down" /\ Goto(w, "boot")
  /\ UNCHANGED <<jobs, task, at, view, result, faults>>

Strikes(fault) ==
  /\ fault \in Faults /\ faults < FaultBound
  /\ faults' = faults + 1

Crash(w) ==
  /\ pc[w] \notin {"down", "dead"} /\ Strikes("crash")
  /\ EndWork(w, IF w \in StableIds THEN "down" ELSE "dead")
  /\ UNCHANGED jobs

\* Where run_forever goes on after an exception: a recovery that fails is
\* logged and not repeated, a failed stale sweep does not keep it from
\* claiming, and only what leaves run_once is recovered from.
AfterError(label) ==
  CASE label \in {"boot", "raised", "recover"} -> "poll"
    [] label \in {"poll", "sweep"} -> "ready"
    [] OTHER -> "raised"

\* An exception between two commits of w: a statement or a commit that fails,
\* or a callback (on_job_terminal) that raises.  The transaction is rolled back.
Error(w) ==
  /\ pc[w] \notin {"down", "dead"} /\ Strikes("error")
  /\ EndWork(w, AfterError(pc[w]))
  /\ UNCHANGED jobs

\* touch_job_lock, on the heartbeat thread and in its own session.  Its read
\* and its commit of locked_at are one step here: a commit that lands later
\* renews the lock of whoever holds the row by then, or dates a row that has
\* none, which the next claim overwrites.
Heartbeat(w) ==
  /\ pc[w] \in Executing
  /\ LET j == task[w] IN
       /\ jobs[j].status = "RUNNING" /\ jobs[j].by = w
       /\ jobs[j].lock = "stale"
       /\ jobs' = [jobs EXCEPT ![j].lock = "fresh"]
  /\ UNCHANGED <<pc, task, at, view, result, faults>>

\* locked_at falls behind the stale threshold of the job's type.
LockAges(j) ==
  /\ jobs[j].status = "RUNNING" /\ jobs[j].lock = "fresh"
  /\ HeartbeatReliable => ~\E w \in Workers : Works(w, j) /\ jobs[j].by = w
  /\ jobs' = [jobs EXCEPT ![j].lock = "stale"]
  /\ UNCHANGED <<pc, task, at, view, result, faults>>

BecomesDue(j) ==
  /\ ~jobs[j].due
  /\ jobs' = [jobs EXCEPT ![j].due = TRUE]
  /\ UNCHANGED <<pc, task, at, view, result, faults>>

\* Mutant of StaleRows: the age of the lock is ignored.
AllRunningRows == {j \in Jobs : jobs[j].status = "RUNNING"}

\* Mutant of StaleRows: only rows without a lock time are considered.
UnlockedRows == {j \in Jobs : jobs[j].status = "RUNNING" /\ jobs[j].lock = "none"}

\* Mutant of StaleRows: the row of a worker that is alive is left to it.
RowsOfTheDead ==
  {j \in Jobs : /\ jobs[j].status = "RUNNING" /\ jobs[j].lock = "stale"
                /\ ~\E w \in Workers : jobs[j].by = w /\ pc[w] \notin {"down", "dead"}}

\* Rows the three sweeps select.
LockedBy(w) == {j \in Jobs : jobs[j].status = "RUNNING" /\ jobs[j].by = w}
StaleRows   == {j \in Jobs : jobs[j].status = "RUNNING" /\ jobs[j].lock = "stale"}

\* release_orphaned_locks at start, release_failed_execution_locks after an
\* exception left run_once.
RecoverRead(w) ==
  /\ pc[w] \in {"boot", "raised"}
  /\ Load(w, LockedBy(w))
  /\ Goto(w, IF LockedBy(w) = {} THEN "poll" ELSE "recover")
  /\ UNCHANGED <<jobs, task, at, result, faults>>

StaleRead(w) ==
  /\ pc[w] = "poll"
  /\ Load(w, StaleRows)
  /\ Goto(w, IF StaleRows = {} THEN "ready" ELSE "sweep")
  /\ UNCHANGED <<jobs, task, at, result, faults>>

\* One commit settles every row the sweep loaded; if one of them was deleted
\* meanwhile the flush raises and nothing is written.
SweepCommit(w) ==
  /\ pc[w] \in {"recover", "sweep"}
  /\ LET S == {j \in Jobs : view[w][j].status # "GONE"} IN
       jobs' = IF \E j \in S : jobs[j].status = "GONE" THEN jobs
               ELSE [j \in Jobs |-> IF j \in S
                       THEN Flush(jobs[j], view[w][j], Recovered(j, view[w][j]))
                       ELSE jobs[j]]
  /\ Goto(w, IF pc[w] = "recover" THEN "poll" ELSE "ready") /\ Forget(w)
  /\ UNCHANGED <<task, at, result, faults>>

-----------------------------------------------------------------------------
(***************************************************************************)
(* claim_next_job: one transaction under the claim advisory lock.          *)
(***************************************************************************)
RunningOfType(t) == {j \in Jobs : jobs[j].status = "RUNNING" /\ TypeOf[j] = t}
RunningOnGpu     == {j \in Jobs : jobs[j].status = "RUNNING" /\ TypeOf[j] \in GpuTypes}

\* Mutant of GpuSlotFree: blind to GPU jobs of other types.
GpuSlotPerType(j)   == TypeOf[j] \in GpuTypes => Cardinality(RunningOfType(TypeOf[j])) < GpuLimit

TypeSlotFree(j) == Cardinality(RunningOfType(TypeOf[j])) < TypeLimit[TypeOf[j]]
GpuSlotFree(j)  == TypeOf[j] \in GpuTypes => Cardinality(RunningOnGpu) < GpuLimit

Claimable == {j \in Jobs : /\ jobs[j].status \in {"QUEUED", "RETRYABLE"}
                           /\ jobs[j].due /\ jobs[j].attempts < AttemptBound
                           /\ TypeSlotFree(j) /\ GpuSlotFree(j)}

\* SKIP LOCKED passes over a row another session has flushed but not committed.
MayBeLocked(j) ==
  \E s \in Sessions : /\ view[s][j].status # "GONE"
                      /\ pc[s] # "run"

Claim(w) ==
  /\ pc[w] = "ready"
  /\ \E j \in Claimable :
       /\ \A k \in Claimable : k < j => MayBeLocked(k)
       /\ jobs' = [jobs EXCEPT ![j] = Claimed(@, w)]
       /\ task' = [task EXCEPT ![w] = j]
       /\ view' = [view EXCEPT ![w] = [NoView EXCEPT ![j] = Claimed(jobs[j], w)]]
  /\ Goto(w, "start")
  /\ UNCHANGED <<at, result, faults>>

ClaimNothing(w) ==
  /\ pc[w] = "ready" /\ \A j \in Claimable : MayBeLocked(j)
  /\ Goto(w, "poll")
  /\ UNCHANGED <<jobs, task, at, view, result, faults>>

-----------------------------------------------------------------------------
(***************************************************************************)
(* run_job                                                                 *)
(***************************************************************************)

\* run_job itself raises, on a deleted row or an illegal transition: the
\* session rolls back, run_forever recovers.
Raise(w) == EndWork(w, "raised") /\ UNCHANGED jobs

\* w refreshes the row of its job (_is_cancelled) and continues at label, at
\* the abort, or, when the row is gone, in the exception path.
Refresh(w, label) ==
  LET j == task[w] IN
  IF jobs[j].status = "GONE" THEN EndWork(w, "raised")
  ELSE /\ Load(w, {j})
       /\ Goto(w, IF jobs[j].status = "CANCELLED" THEN "abort" ELSE label)
       /\ UNCHANGED <<task, at, result>>

\* _fail_job_before_start: invalid runtime binding, or a full disk.  It works
\* on the row as claimed, without a refresh.
Preflight(w) ==
  /\ pc[w] = "start"
  /\ \/ Goto(w, "head") /\ UNCHANGED <<jobs, task, at, view, result>>
     \/ LET j == task[w]
            r == view[w][j]
            open == {i \in Steps : r.steps[i] \in {"PENDING", "RUNNING"}}
            failed == [r EXCEPT !.steps = [i \in Steps |->
                         IF i \in open /\ \A k \in open : i <= k
                         THEN "FAILED" ELSE r.steps[i]]]
        IN IF jobs[j].status = "GONE" THEN Raise(w)
           ELSE /\ \E class \in {"binding", "transient"} :
                     Commit(w, j, Outcome(j, failed, class))
                /\ EndWork(w, "poll")
  /\ UNCHANGED faults

\* Top of the step loop.
StepHead(w) ==
  /\ pc[w] = "head" /\ Refresh(w, "mark") /\ UNCHANGED <<jobs, faults>>

\* Mutant of NextStep: the step index runs past the last step.
NextStepPastEnd(w) ==
  /\ Forget(w)
  /\ at' = [at EXCEPT ![w] = @ + 1]
  /\ Goto(w, IF at[w] = NSteps THEN "finish" ELSE "head")

\* Mutant of NextStep: the loop ends one step early.
NextStepShort(w) ==
  /\ Forget(w)
  /\ at' = [at EXCEPT ![w] = IF @ = NSteps THEN @ ELSE @ + 1]
  /\ Goto(w, IF at[w] + 1 >= NSteps THEN "finish" ELSE "head")

\* w moves on to the next step, or out of the loop; the commit expired its copy.
NextStep(w) ==
  /\ Forget(w)
  /\ at' = [at EXCEPT ![w] = IF @ = NSteps THEN @ ELSE @ + 1]
  /\ Goto(w, IF at[w] = NSteps THEN "finish" ELSE "head")

\* A finished step is skipped, a pending one is marked and its handler called.
StepStart(w) ==
  /\ pc[w] = "mark"
  /\ LET j == task[w]
         r == view[w][j]
         i == at[w]
     IN IF r.steps[i] \in {"COMPLETED", "SKIPPED"}
        THEN NextStep(w) /\ UNCHANGED <<jobs, task, result>>
        ELSE IF r.steps[i] = "PENDING" /\ jobs[j].status = "GONE" THEN Raise(w)
        ELSE /\ IF r.steps[i] = "PENDING"
                THEN /\ Commit(w, j, WithStep(r, i, "RUNNING"))
                     /\ view' = [view EXCEPT ![w][j] = jobs'[j]]
                ELSE UNCHANGED <<jobs, view>>
             /\ Goto(w, "run")
             /\ UNCHANGED <<task, at, result>>
  /\ UNCHANGED faults

\* The handler returns and the row is refreshed; the step row is the one of
\* the identity map, or a newer one if the handler committed in between.  A
\* request for input is applied to the job row loaded before the handler ran,
\* and raises when it is settled unless that row was RUNNING.
HandlerReturns(w) ==
  /\ pc[w] = "run"
  /\ LET j == task[w]
         i == at[w]
     IN \/ /\ jobs[j].status \notin {"GONE", "CANCELLED"}
           /\ \E res \in Results \ {"input"}, seen \in {"RUNNING", jobs[j].steps[i]} :
                /\ result' = [result EXCEPT ![w] = res]
                /\ view' = [view EXCEPT ![w] =
                     [NoView EXCEPT ![j] = WithStep(jobs[j], i, seen)]]
           /\ Goto(w, "settle") /\ UNCHANGED <<task, at>>
        \/ jobs[j].status \in {"GONE", "CANCELLED"} /\ Refresh(w, "settle")
        \/ /\ j \in InputJobs
           /\ result' = [result EXCEPT ![w] = "input"]
           /\ view' = [view EXCEPT ![w][j] = WithStep(@, i, "RUNNING")]
           /\ Goto(w, "settle") /\ UNCHANGED <<task, at>>
  /\ UNCHANGED <<jobs, faults>>

\* The row of the current job after its step got the given status.
Stepped(w, to) == WithStep(view[w][task[w]], at[w], to)

SettleWith(w, new, next) ==
  LET j == task[w]
      r == view[w][j]
  IN IF \/ jobs[j].status = "GONE"
        \/ ~JobMayMove(r.status, new.status)
        \/ ~StepMayMove(r.steps[at[w]], new.steps[at[w]])
     THEN Raise(w)
     ELSE /\ Commit(w, j, new)
          /\ IF next = "step" THEN NextStep(w) /\ UNCHANGED <<task, result>>
                              ELSE EndWork(w, next)

SettleStep(w) ==
  /\ pc[w] = "settle" /\ UNCHANGED faults
  /\ CASE result[w] = "ok" -> SettleWith(w, Stepped(w, "COMPLETED"), "step")
       [] result[w] = "input" ->
            SettleWith(w, [Stepped(w, "WAITING_FOR_INPUT") EXCEPT
                             !.status = "WAITING_FOR_REVIEW"], "poll")
       [] OTHER -> SettleWith(w, Outcome(task[w], Stepped(w, "FAILED"), result[w]), "poll")

\* After the last step the expired row is loaded again, then completed.
FinishRead(w) ==
  /\ pc[w] = "finish"
  /\ LET j == task[w] IN
     IF JobMayMove(jobs[j].status, "COMPLETED")
     THEN Load(w, {j}) /\ Goto(w, "complete") /\ UNCHANGED <<task, at, result>>
     ELSE EndWork(w, "raised")
  /\ UNCHANGED <<jobs, faults>>

CompleteJob(w) ==
  /\ pc[w] = "complete"
  /\ LET j == task[w] IN
     IF jobs[j].status = "GONE" THEN Raise(w)
     ELSE /\ Commit(w, j, [Unlocked(view[w][j]) EXCEPT !.status = "COMPLETED"])
          /\ EndWork(w, "poll")
  /\ UNCHANGED faults

AbortCancelled(w) ==
  /\ pc[w] = "abort"
  /\ LET j == task[w] IN
     IF jobs[j].status = "GONE" THEN Raise(w)
     ELSE Commit(w, j, Unlocked(view[w][j])) /\ EndWork(w, "poll")
  /\ UNCHANGED faults

-----------------------------------------------------------------------------
(***************************************************************************)
(* Operator requests (routes/jobs.py): load and check, then commit.        *)
(***************************************************************************)
Allowed(op, r) ==
  CASE op = "retry"  -> CanRetryJob(r.status, r.attempts, r.max)
    [] op = "cancel" -> CanCancelJob(r.status) /\ JobMayMove(r.status, "CANCELLED")
    [] op = "resume" -> CanResumeJob(r.status)
    [] op = "delete" -> ~(r.status = "RUNNING" /\ r.by # NoOne)

Request(o, op, j) ==
  /\ pc[o] = "idle" /\ jobs[j].status # "GONE" /\ Allowed(op, jobs[j])
  /\ Load(o, {j}) /\ Goto(o, op) /\ task' = [task EXCEPT ![o] = j]
  /\ UNCHANGED <<jobs, at, result, faults>>

Respond(o) ==
  /\ pc[o] # "idle"
  /\ LET j == task[o]
         r == view[o][j]
     IN CASE jobs[j].status = "GONE" -> UNCHANGED jobs
          [] OTHER -> CASE pc[o] = "retry"  -> Commit(o, j, Retried(r))
                        [] pc[o] = "cancel" -> Commit(o, j, Cancelled(r))
                        [] pc[o] = "resume" -> Commit(o, j, Resumed(r))
                        [] pc[o] = "delete" -> jobs' = [jobs EXCEPT ![j] = GoneRow]
  /\ Goto(o, "idle") /\ Forget(o) /\ task' = [task EXCEPT ![o] = 0]
  /\ UNCHANGED <<at, result, faults>>

-----------------------------------------------------------------------------
WorkerStep(w) ==
  \/ RecoverRead(w) \/ StaleRead(w) \/ SweepCommit(w)
  \/ Claim(w) \/ ClaimNothing(w)
  \/ Preflight(w) \/ StepHead(w) \/ StepStart(w) \/ HandlerReturns(w)
  \/ SettleStep(w) \/ FinishRead(w) \/ CompleteJob(w) \/ AbortCancelled(w)

Next ==
  \/ \E w \in Workers : Start(w) \/ Crash(w) \/ Error(w) \/ Heartbeat(w) \/ WorkerStep(w)
  \/ \E j \in Jobs : LockAges(j) \/ BecomesDue(j)
  \/ \E o \in Operators : Respond(o) \/ \E op \in Ops, j \in Jobs : Request(o, op, j)

Spec == Init /\ [][Next]_vars

(***************************************************************************)
(* Worker processes are started and keep polling until they crash; clocks  *)
(* advance, so a postponed job becomes due and the lock of a dead worker   *)
(* becomes stale.  Nothing bounds the time a step handler takes, so it may *)
(* never return; nothing is assumed of operators, faults or restarts.      *)
(***************************************************************************)
Fairness ==
  /\ \A w \in Workers : WF_vars(pc[w] # "run" /\ WorkerStep(w)) /\ WF_vars(Start(w))
  /\ \A j \in Jobs : WF_vars(LockAges(j)) /\ WF_vars(BecomesDue(j))

FairSpec == Spec /\ Fairness

-----------------------------------------------------------------------------
(***************************************************************************)
(* Properties.                                                             *)
(***************************************************************************)

\* Every variable has the shape the code gives it, and a session that is
\* inside a job or a request has that job in hand.
TypeOK ==
  /\ jobs \in [Jobs -> Row]
  /\ view \in [Sessions -> [Jobs -> Row]]
  /\ task \in [Sessions -> Jobs \cup {0}]
  /\ at \in [Workers -> Steps]
  /\ result \in [Workers -> Results]
  /\ pc \in [Sessions -> Executing \cup Between \cup Ops \cup {"idle"}]
  /\ \A w \in Workers : /\ pc[w] \in Executing \cup Between
                        /\ pc[w] \in Executing => task[w] \in Jobs
  /\ \A o \in Operators : /\ pc[o] \in Ops \cup {"idle"}
                          /\ pc[o] # "idle" => task[o] \in Jobs
  /\ faults \in 0..FaultBound

\* No interleaving of claims, sweeps, completions and operator requests makes
\* more rows RUNNING than the per-type caps and the shared GPU cap allow
\* (claim_next_job counts them under the advisory lock).
SlotBudget ==
  /\ \A t \in JobTypes : Cardinality(RunningOfType(t)) <= TypeLimit[t]
  /\ Cardinality(RunningOnGpu) <= GpuLimit

\* A RUNNING row always names a holder and carries a lock time, which is what
\* the sweeps select on: without them the row is stuck in RUNNING for good.
RunningIsRecoverable ==
  \A j \in Jobs : jobs[j].status = "RUNNING" => jobs[j].by # NoOne /\ jobs[j].lock # "none"

\* No two workers execute the same job at the same time.
ExclusiveExecution ==
  \A v, w \in Workers, j \in Jobs : Works(v, j) /\ Works(w, j) => v = w

\* The handlers that are really executing on the GPU fit on it: counting
\* RUNNING rows is a proxy for this.
GpuMachineBudget ==
  Cardinality({w \in Workers : pc[w] = "run" /\ TypeOf[task[w]] \in GpuTypes}) <= GpuLimit

\* A job is COMPLETED only when every step of it is COMPLETED or SKIPPED.
CompletedIsDone ==
  \A j \in Jobs : jobs[j].status = "COMPLETED" =>
    \A i \in Steps : jobs[j].steps[i] \in {"COMPLETED", "SKIPPED"}

\* However attempts end (a failed step, a crash, a sweep), a job is never
\* claimed more often than its retry policy allows.
AttemptsWithinBudget ==
  \A j \in Jobs : jobs[j].status # "GONE" =>
    \E class \in Failures : jobs[j].attempts <= RetryCap(j, jobs[j], class)

\* A job that waits for review has a step that waits for input, for resume_job
\* to find, and no worker executes it meanwhile.
WaitingIsParked ==
  \A j \in Jobs : jobs[j].status = "WAITING_FOR_REVIEW" =>
    /\ \E i \in Steps : jobs[j].steps[i] = "WAITING_FOR_INPUT"
    /\ ~\E w \in Workers : Works(w, j)

\* COMPLETED and CANCELLED are final.
TerminalStays ==
  [][\A j \in Jobs : jobs[j].status \in {"COMPLETED", "CANCELLED"}
       => jobs'[j].status \in {jobs[j].status, "GONE"}]_vars

\* The handler w has called for job k never returns, and its heartbeat keeps
\* the row RUNNING.
Hangs(w, k) == Works(w, k) /\ pc[w] = "run" /\ jobs[k].status = "RUNNING" /\ jobs[k].by = w

\* A RUNNING k takes a slot that j needs.
Competes(j, k) == TypeOf[j] = TypeOf[k] \/ {TypeOf[j], TypeOf[k]} \subseteq GpuTypes

\* Every job ends, whatever fails and whoever crashes, unless for good a handler
\* hangs on the job or on a slot it needs, or no worker is left to poll.
EveryJobSettles ==
  \A j \in Jobs :
    \/ <>(jobs[j].status \in {"COMPLETED", "FAILED"})
    \/ <>[](\E w \in Workers, k \in Jobs : Competes(j, k) /\ Hangs(w, k))
    \/ <>[](\A w \in Workers : pc[w] \in {"run", "dead"})

\* A row that is RUNNING is given back or settled in the end, also when the
\* recovery after an error fails and the worker polls on with the row still in
\* its name, unless for good a handler hangs on it or no worker is left to poll.
RunningEnds ==
  \A j \in Jobs :
    \/ []<>(jobs[j].status # "RUNNING")
    \/ <>[](\E w \in Workers : Hangs(w, j))
    \/ <>[](\A w \in Workers : pc[w] = "dead" \/ (pc[w] = "run" /\ task[w] # j))

\* Jobs as the abstract lifecycle sees them.
Lifecycle == INSTANCE JobLifecycle WITH
  status <- [j \in Jobs |-> jobs[j].status],
  holder <- [j \in Jobs |-> IF jobs[j].status = "RUNNING" THEN jobs[j].by ELSE NoOne],
  done   <- [j \in Jobs |-> {i \in Steps : jobs[j].steps[i] = "COMPLETED"}]

\* Exclusive holders, steps done once, completion only when all are done and
\* final terminal statuses, as one specification.
ImplementsLifecycle == Lifecycle!Spec
=============================================================================
